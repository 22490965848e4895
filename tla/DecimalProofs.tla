--------------------------- MODULE DecimalProofs ----------------------------
(***************************************************************************)
(* The arithmetic of decimals for every width, maximal scale and set of    *)
(* operands. An amount is compared with the number it stands for, counted  *)
(* in units of 10^-MAX_SCALE.                                              *)
(***************************************************************************)
EXTENDS Amounts, NaturalFacts, TLAPS

-----------------------------------------------------------------------------
\* Integers.

\* Quotient and remainder determine a number and are determined by it.
LEMMA Division ==
    ASSUME NEW n \in Nat, NEW d \in Nat \ {0}
    PROVE  /\ n \div d \in Nat /\ (n % d) \in 0 .. d - 1 /\ n = (n \div d) * d + (n % d)
           /\ (n \div d) * d <= n /\ n \div d <= n
<1>1. n \div d \in Int /\ (n % d) \in 0 .. d - 1 /\ n = (n \div d) * d + (n % d)
  OBVIOUS
<1>2. n \div d >= 0
  BY <1>1
<1>3. (n \div d) * d >= n \div d
  <2>1. (n \div d) * (d - 1) >= 0
    BY <1>1, <1>2
  <2> QED
    BY <1>1, <2>1
<1> QED
  BY <1>1, <1>2, <1>3

LEMMA QuotientIs ==
    ASSUME NEW d \in Nat \ {0}, NEW q \in Int, NEW n \in Int, q * d <= n, n < q * d + d
    PROVE  q = n \div d
<1> DEFINE r == n - q * d
<1>1. r \in 0 .. d - 1 /\ n = q * d + r
  OBVIOUS
<1> HIDE DEF r
<1> QED
  BY <1>1

-----------------------------------------------------------------------------
\* Powers of ten.

LEMMA Powers ==
    /\ UMax \in Nat /\ MaxScale \in Nat /\ MaxScale >= 1
    /\ \A n \in 0 .. MaxScale : Pow10[n] \in Nat /\ Pow10[n] >= 1
    /\ Pow10[0] = 1 /\ Pow10[1] = 10
    /\ Pow10[MaxScale] <= UMax
<1>1. /\ UMax \in Nat /\ MaxScale \in Nat \ {0} /\ Pow10 \in [0 .. MaxScale -> Nat \ {0}]
      /\ Pow10[0] = 1 /\ Pow10[1] = 10 /\ Pow10[MaxScale] <= UMax
  BY PowersAssumption, Zenon
<1>2. ASSUME NEW n \in 0 .. MaxScale PROVE Pow10[n] \in Nat /\ Pow10[n] >= 1
  <2>1. Pow10[n] \in Nat \ {0}
    BY <1>1
  <2> QED
    BY <2>1
<1> QED
  BY <1>1, <1>2

LEMMA PowerSplits ==
    ASSUME NEW n \in 0 .. MaxScale, NEW m \in 0 .. n
    PROVE  /\ m \in 0 .. MaxScale /\ n - m \in 0 .. MaxScale
           /\ Pow10[n] = Pow10[m] * Pow10[n - m]
           /\ Pow10[m] <= Pow10[n]
<1>1. m \in 0 .. MaxScale /\ n - m \in 0 .. MaxScale /\ m + (n - m) = n
  BY Powers
<1>2. Pow10[m + (n - m)] = Pow10[m] * Pow10[n - m]
  BY <1>1, PowersAssumption
<1>3. Pow10[m] * (Pow10[n - m] - 1) >= 0
  BY <1>1, Powers
<1> QED
  BY <1>1, <1>2, <1>3, Powers

-----------------------------------------------------------------------------
\* The checked operations of u128.

LEMMA CheckedMulIs ==
    ASSUME NEW a \in Nat, NEW b \in Nat
    PROVE  /\ CheckedMul(a, b).ok \in BOOLEAN
           /\ CheckedMul(a, b).ok <=> a * b <= UMax
           /\ CheckedMul(a, b).ok => CheckedMul(a, b).value = a * b /\ CheckedMul(a, b) = Ok(a * b)
           /\ ~CheckedMul(a, b).ok => CheckedMul(a, b) = Err("Overflow")
<1>1. (b = 0 \/ a <= UMax \div b) <=> a * b <= UMax
  <2>1. CASE b = 0
    BY <2>1, Powers
  <2>2. CASE b # 0
    <3>1. b \in Nat \ {0} /\ UMax \in Nat
      BY <2>2, Powers
    <3> DEFINE q == UMax \div b
    <3>2. q \in Nat /\ (UMax % b) \in 0 .. b - 1 /\ UMax = q * b + (UMax % b)
      BY <3>1, Division
    <3> HIDE DEF q
    <3>3. ASSUME a <= q PROVE a * b <= UMax
      <4>1. (q - a) * b >= 0
        BY <3>1, <3>2, <3>3
      <4> QED
        BY <3>1, <3>2, <4>1
    <3>4. ASSUME a > q PROVE a * b > UMax
      <4>1. (a - q - 1) * b >= 0
        BY <3>1, <3>2, <3>4
      <4> QED
        BY <3>1, <3>2, <4>1
    <3> QED
      BY <2>2, <3>2, <3>3, <3>4 DEF q
  <2> QED
    BY <2>1, <2>2
<1>2. CASE a * b <= UMax
  <2>1. CheckedMul(a, b) = Ok(a * b)
    BY <1>1, <1>2 DEF CheckedMul
  <2>2. CheckedMul(a, b).ok = TRUE /\ CheckedMul(a, b).value = a * b
    BY <2>1 DEF Ok
  <2> QED
    BY <1>2, <2>1, <2>2, Zenon
<1>3. CASE ~(a * b <= UMax)
  <2>1. CheckedMul(a, b) = Err("Overflow")
    BY <1>1, <1>3 DEF CheckedMul
  <2>2. CheckedMul(a, b).ok = FALSE
    BY <2>1 DEF Err
  <2> QED
    BY <1>3, <2>1, <2>2, Zenon
<1> QED
  BY <1>2, <1>3

LEMMA CheckedAddIs ==
    ASSUME NEW a \in Nat, NEW b \in Nat
    PROVE  /\ CheckedAdd(a, b).ok \in BOOLEAN
           /\ CheckedAdd(a, b).ok <=> a + b <= UMax
<1>1. a <= UMax - b <=> a + b <= UMax
  BY Powers
<1>2. CASE a + b <= UMax
  <2>1. CheckedAdd(a, b).ok = TRUE
    BY <1>1, <1>2 DEF CheckedAdd, Ok
  <2> QED
    BY <1>2, <2>1, Zenon
<1>3. CASE ~(a + b <= UMax)
  <2>1. CheckedAdd(a, b).ok = FALSE
    BY <1>1, <1>3 DEF CheckedAdd, Err
  <2> QED
    BY <1>3, <2>1, Zenon
<1> QED
  BY <1>2, <1>3

-----------------------------------------------------------------------------
\* Decimals.

\* Whether 0 or not, a decimal has a number and a scale in range; Sign::Zero and
\* the number 0 go together.
LEMMA DecimalParts ==
    ASSUME NEW x \in Decimals
    PROVE  /\ x.inner \in Nat /\ x.inner <= UMax
           /\ x.scale \in 0 .. MaxScale /\ MaxScale - x.scale \in 0 .. MaxScale
           /\ x.sign \in {-1, 0, 1}
           /\ x.sign = 0 <=> x.inner = 0
           /\ x.sign = 0 <=> x = Zero
           /\ x.sign # 0 => x.inner >= 1 /\ x.sign \in {-1, 1}
           /\ x = [inner |-> x.inner, scale |-> x.scale, sign |-> x.sign]
<1>1. CASE x = Zero
  BY <1>1, Powers DEF Zero
<1>2. CASE x \in [inner : 1 .. UMax, scale : 0 .. MaxScale, sign : {-1, 1}]
  <2>1. x.inner \in 1 .. UMax /\ x.scale \in 0 .. MaxScale /\ x.sign \in {-1, 1}
    BY <1>2
  <2>2. x # Zero
    BY <2>1 DEF Zero
  <2> QED
    BY <1>2, <2>1, <2>2, Powers
<1> QED
  BY <1>1, <1>2 DEF Decimals

LEMMA ZeroFacts ==
    /\ Zero \in Decimals /\ Zero.inner = 0 /\ Zero.scale = 0 /\ Zero.sign = 0 /\ Units(Zero) = 0
<1>1. Zero.inner = 0 /\ Zero.scale = 0 /\ Zero.sign = 0
  BY DEF Zero
<1>2. MaxScale - 0 \in 0 .. MaxScale
  BY Powers
<1> QED
  BY <1>1, <1>2, Powers DEF Units, Decimals

LEMMA FromRawIs ==
    ASSUME NEW inner \in 0 .. UMax, NEW scale \in 0 .. MaxScale, NEW sign \in {-1, 1}
    PROVE  /\ FromRaw(inner, scale, sign).ok = TRUE
           /\ FromRaw(inner, scale, sign).value \in Decimals
           /\ Units(FromRaw(inner, scale, sign).value) = sign * (inner * Pow10[MaxScale - scale])
           /\ FromRaw(inner, scale, sign).value.sign \in {0, sign}
<1>1. ~(scale > MaxScale) /\ ~(sign = 0 /\ inner # 0) /\ MaxScale - scale \in 0 .. MaxScale
  BY Powers
<1>2. CASE inner = 0
  <2>1. FromRaw(inner, scale, sign) = Ok(Zero)
    BY <1>1, <1>2 DEF FromRaw
  <2>2. FromRaw(inner, scale, sign).ok = TRUE /\ FromRaw(inner, scale, sign).value = Zero
    BY <2>1 DEF Ok
  <2>3. sign * (inner * Pow10[MaxScale - scale]) = 0
    BY <1>1, <1>2, Powers
  <2> QED
    BY <2>2, <2>3, ZeroFacts
<1>3. CASE inner # 0
  <2> DEFINE x == [inner |-> inner, scale |-> scale, sign |-> sign]
  <2>1. FromRaw(inner, scale, sign) = Ok(x)
    BY <1>1, <1>3 DEF FromRaw
  <2>2. FromRaw(inner, scale, sign).ok = TRUE /\ FromRaw(inner, scale, sign).value = x
    BY <2>1 DEF Ok
  <2>3. x \in Decimals
    BY <1>3, Powers DEF Decimals
  <2>4. Units(x) = sign * inner * Pow10[MaxScale - scale]
    BY DEF Units
  <2>5. sign * inner * Pow10[MaxScale - scale] = sign * (inner * Pow10[MaxScale - scale])
    BY <1>1, Powers
  <2> QED
    BY <2>2, <2>3, <2>4, <2>5
<1> QED
  BY <1>2, <1>3

LEMMA RescaleUpIs ==
    ASSUME NEW x \in Decimals, NEW to \in x.scale .. MaxScale
    PROVE  /\ RescaleUp(x.inner, x.scale, to).ok \in BOOLEAN
           /\ RescaleUp(x.inner, x.scale, to).ok =>
                LET a == RescaleUp(x.inner, x.scale, to).value IN
                /\ a \in Nat /\ a <= UMax
                /\ x.inner >= 1 => a >= 1
                /\ a * Pow10[MaxScale - to] = x.inner * Pow10[MaxScale - x.scale]
<1> DEFINE k == to - x.scale
<1>1. x.inner \in Nat /\ x.scale \in 0 .. MaxScale /\ to \in 0 .. MaxScale
  BY DecimalParts, Powers
<1>2. k \in 0 .. MaxScale - x.scale /\ MaxScale - x.scale \in 0 .. MaxScale /\ k \in 0 .. MaxScale
      /\ (MaxScale - x.scale) - k = MaxScale - to /\ MaxScale - to \in 0 .. MaxScale
  BY <1>1, Powers
<1>3. Pow10[MaxScale - x.scale] = Pow10[k] * Pow10[MaxScale - to]
  BY <1>2, PowerSplits
<1>4. Pow10[k] \in Nat /\ Pow10[k] >= 1 /\ Pow10[MaxScale - to] \in Nat
  BY <1>2, Powers
<1>5. RescaleUp(x.inner, x.scale, to) = CheckedMul(x.inner, Pow10[k])
  BY DEF RescaleUp
<1> HIDE DEF k
<1>6. CheckedMul(x.inner, Pow10[k]).ok \in BOOLEAN
  BY <1>1, <1>4, CheckedMulIs
<1>7. ASSUME CheckedMul(x.inner, Pow10[k]).ok
      PROVE  LET a == CheckedMul(x.inner, Pow10[k]).value IN
             /\ a \in Nat /\ a <= UMax
             /\ x.inner >= 1 => a >= 1
             /\ a * Pow10[MaxScale - to] = x.inner * Pow10[MaxScale - x.scale]
  <2>1. CheckedMul(x.inner, Pow10[k]).value = x.inner * Pow10[k] /\ x.inner * Pow10[k] <= UMax
    BY <1>1, <1>4, <1>7, CheckedMulIs
  <2>2. x.inner * Pow10[k] \in Nat
    BY <1>1, <1>4
  <2>3. (x.inner * Pow10[k]) * Pow10[MaxScale - to] = x.inner * (Pow10[k] * Pow10[MaxScale - to])
    BY <1>1, <1>4
  <2>4. x.inner >= 1 => x.inner * Pow10[k] >= 1
    <3>1. ASSUME x.inner >= 1 PROVE x.inner * Pow10[k] >= 1
      <4>1. (x.inner - 1) * Pow10[k] >= 0
        BY <1>1, <1>4, <3>1
      <4> QED
        BY <1>1, <1>4, <4>1
    <3> QED
      BY <3>1
  <2> QED
    BY <1>3, <2>1, <2>2, <2>3, <2>4
<1> QED
  BY <1>5, <1>6, <1>7

LEMMA LargerScale ==
    ASSUME NEW x \in Decimals, NEW y \in Decimals
    PROVE  LET s == Max({x.scale, y.scale}) IN
           s \in x.scale .. MaxScale /\ s \in y.scale .. MaxScale /\ s \in 0 .. MaxScale
<1>1. x.scale \in 0 .. MaxScale /\ y.scale \in 0 .. MaxScale
  BY DecimalParts
<1> DEFINE S == {x.scale, y.scale}
<1>2. \E m \in S : \A n \in S : m >= n
  <2>1. CASE x.scale >= y.scale
    BY <1>1, <2>1
  <2>2. CASE y.scale >= x.scale
    BY <1>1, <2>2
  <2> QED
    BY <1>1, <2>1, <2>2
<1>3. Max(S) \in S /\ \A n \in S : Max(S) >= n
  BY <1>2 DEF Max
<1> QED
  BY <1>1, <1>3, Powers

\* Aligned numbers are added as integers.
LEMMA AddAlignedIs ==
    ASSUME NEW x \in Decimals, NEW y \in Decimals, x.sign # 0, y.sign # 0,
           NEW s \in 0 .. MaxScale,
           NEW a \in Nat, NEW b \in Nat, a <= UMax, b <= UMax,
           a * Pow10[MaxScale - s] = x.inner * Pow10[MaxScale - x.scale],
           b * Pow10[MaxScale - s] = y.inner * Pow10[MaxScale - y.scale],
           AddAligned(a, b, s, x, y).ok
    PROVE  /\ AddAligned(a, b, s, x, y).value \in Decimals
           /\ Units(AddAligned(a, b, s, x, y).value) = Units(x) + Units(y)
           /\ x.sign = 1 /\ y.sign = 1 => AddAligned(a, b, s, x, y).value.sign # -1
<1> DEFINE p == Pow10[MaxScale - s]
<1>1. /\ x.sign \in {-1, 1} /\ y.sign \in {-1, 1} /\ x.inner \in Nat /\ y.inner \in Nat
      /\ MaxScale - x.scale \in 0 .. MaxScale /\ MaxScale - y.scale \in 0 .. MaxScale
  BY DecimalParts
<1>2. MaxScale - s \in 0 .. MaxScale /\ p \in Nat
  BY Powers
<1>3. Pow10[MaxScale - x.scale] \in Nat /\ Pow10[MaxScale - y.scale] \in Nat
  BY <1>1, Powers
<1>4. Units(x) = x.sign * (a * p) /\ Units(y) = y.sign * (b * p)
  <2>1. Units(x) = x.sign * (x.inner * Pow10[MaxScale - x.scale])
    BY <1>1, <1>3 DEF Units
  <2>2. Units(y) = y.sign * (y.inner * Pow10[MaxScale - y.scale])
    BY <1>1, <1>3 DEF Units
  <2> QED
    BY <2>1, <2>2
<1> HIDE DEF p
<1>5. CASE x.sign # y.sign /\ a >= b
  <2>1. AddAligned(a, b, s, x, y) = FromRaw(a - b, s, x.sign) /\ a - b \in 0 .. UMax
    BY <1>5, Powers DEF AddAligned
  <2>2. /\ FromRaw(a - b, s, x.sign).value \in Decimals
        /\ Units(FromRaw(a - b, s, x.sign).value) = x.sign * ((a - b) * p)
    BY <1>1, <2>1, FromRawIs DEF p
  <2>3. x.sign * ((a - b) * p) = x.sign * (a * p) + y.sign * (b * p)
    BY <1>1, <1>2, <1>5
  <2> QED
    BY <1>4, <1>5, <2>1, <2>2, <2>3
<1>6. CASE x.sign # y.sign /\ ~(a >= b)
  <2>1. AddAligned(a, b, s, x, y) = FromRaw(b - a, s, y.sign) /\ b - a \in 0 .. UMax
    BY <1>6, Powers DEF AddAligned
  <2>2. /\ FromRaw(b - a, s, y.sign).value \in Decimals
        /\ Units(FromRaw(b - a, s, y.sign).value) = y.sign * ((b - a) * p)
    BY <1>1, <2>1, FromRawIs DEF p
  <2>3. y.sign * ((b - a) * p) = x.sign * (a * p) + y.sign * (b * p)
    BY <1>1, <1>2, <1>6
  <2> QED
    BY <1>4, <1>6, <2>1, <2>2, <2>3
<1>7. CASE x.sign = y.sign
  <2>1. CheckedAdd(a, b).ok
    <3> SUFFICES ASSUME ~CheckedAdd(a, b).ok PROVE FALSE
      OBVIOUS
    <3>1. AddAligned(a, b, s, x, y) = Err("Overflow")
      BY <1>7 DEF AddAligned
    <3> QED
      BY <3>1 DEF Err
  <2>2. AddAligned(a, b, s, x, y) = FromRaw(a + b, s, x.sign) /\ a + b \in 0 .. UMax
    BY <1>7, <2>1, CheckedAddIs, Powers DEF AddAligned
  <2>3. /\ FromRaw(a + b, s, x.sign).value \in Decimals
        /\ Units(FromRaw(a + b, s, x.sign).value) = x.sign * ((a + b) * p)
        /\ FromRaw(a + b, s, x.sign).value.sign \in {0, x.sign}
    BY <1>1, <2>2, FromRawIs DEF p
  <2>4. x.sign * ((a + b) * p) = x.sign * (a * p) + y.sign * (b * p)
    BY <1>1, <1>2, <1>7
  <2> QED
    BY <1>1, <1>4, <2>2, <2>3, <2>4
<1> QED
  BY <1>5, <1>6, <1>7

LEMMA AddIs ==
    ASSUME NEW x \in Decimals, NEW y \in Decimals, Add(x, y).ok
    PROVE  Add(x, y).value \in Decimals /\ Units(Add(x, y).value) = Units(x) + Units(y)
<1>0. Units(x) \in Int /\ Units(y) \in Int
  <2>1. x.inner \in Nat /\ y.inner \in Nat /\ x.sign \in Int /\ y.sign \in Int
        /\ Pow10[MaxScale - x.scale] \in Nat /\ Pow10[MaxScale - y.scale] \in Nat
    BY DecimalParts, Powers
  <2> QED
    BY <2>1 DEF Units
<1>1. CASE x.sign = 0
  <2>1. Add(x, y) = Ok(y) /\ x = Zero
    BY <1>1, DecimalParts DEF Add
  <2>2. Add(x, y).value = y
    BY <2>1 DEF Ok
  <2> QED
    BY <1>0, <2>1, <2>2, ZeroFacts
<1>2. CASE x.sign # 0 /\ y.sign = 0
  <2>1. Add(x, y) = Ok(x) /\ y = Zero
    BY <1>2, DecimalParts DEF Add
  <2>2. Add(x, y).value = x
    BY <2>1 DEF Ok
  <2> QED
    BY <1>0, <2>1, <2>2, ZeroFacts
<1>3. CASE x.sign # 0 /\ y.sign # 0
  <2> DEFINE s == Max({x.scale, y.scale})
  <2> DEFINE a == RescaleUp(x.inner, x.scale, s)
  <2> DEFINE b == RescaleUp(y.inner, y.scale, s)
  <2>1. s \in x.scale .. MaxScale /\ s \in y.scale .. MaxScale /\ s \in 0 .. MaxScale
    BY LargerScale
  <2>2. a.ok /\ b.ok
    <3> SUFFICES ASSUME ~(a.ok /\ b.ok) PROVE FALSE
      OBVIOUS
    <3>1. Add(x, y) = Err("Overflow")
      BY <1>3 DEF Add
    <3> QED
      BY <3>1 DEF Err
  <2>3. Add(x, y) = AddAligned(a.value, b.value, s, x, y)
    BY <1>3, <2>2 DEF Add
  <2>4. /\ a.value \in Nat /\ a.value <= UMax
        /\ a.value * Pow10[MaxScale - s] = x.inner * Pow10[MaxScale - x.scale]
    BY <2>1, <2>2, RescaleUpIs
  <2>5. /\ b.value \in Nat /\ b.value <= UMax
        /\ b.value * Pow10[MaxScale - s] = y.inner * Pow10[MaxScale - y.scale]
    BY <2>1, <2>2, RescaleUpIs
  <2> HIDE DEF s, a, b
  <2> QED
    BY <1>3, <2>1, <2>3, <2>4, <2>5, AddAlignedIs
<1> QED
  BY <1>1, <1>2, <1>3

LEMMA NegatedIs ==
    ASSUME NEW x \in Decimals
    PROVE  Negated(x) \in Decimals /\ Units(Negated(x)) = -Units(x)
<1>1. CASE x = Zero
  <2>1. Negated(x) = Zero
    BY <1>1 DEF Negated, Zero
  <2>2. Units(x) = 0 /\ Units(Negated(x)) = 0 /\ Negated(x) \in Decimals
    BY <1>1, <2>1, ZeroFacts
  <2>3. \A n \in Int : -n = 0 - n
    OBVIOUS
  <2>4. -Units(x) = 0 - Units(x)
    <3>1. Units(x) \in Int
      BY <2>2
    <3> QED
      BY <2>3, <3>1, Zenon
  <2>5. 0 - Units(x) = 0
    BY <2>2
  <2> QED
    BY <2>2, <2>4, <2>5, Zenon
<1>2. CASE x # Zero
  <2>1. /\ x.inner \in 1 .. UMax /\ x.scale \in 0 .. MaxScale /\ x.sign \in {-1, 1}
        /\ x \in [inner : 1 .. UMax, scale : 0 .. MaxScale, sign : {-1, 1}]
    BY <1>2, DecimalParts DEF Decimals
  <2>2. Negated(x) = [inner |-> x.inner, scale |-> x.scale, sign |-> -x.sign]
    BY <2>1 DEF Negated
  <2>3. -x.sign \in {-1, 1}
    BY <2>1
  <2>4. Negated(x) \in Decimals
    BY <2>1, <2>2, <2>3 DEF Decimals
  <2>5. Pow10[MaxScale - x.scale] \in Nat
    BY DecimalParts, Powers
  <2> QED
    <3>1. /\ Negated(x).inner = x.inner /\ Negated(x).scale = x.scale /\ Negated(x).sign = -x.sign
          /\ x.inner \in Int /\ x.sign \in Int
      BY <2>1, <2>2
    <3>2. (-x.sign) * x.inner * Pow10[MaxScale - x.scale] = -(x.sign * x.inner * Pow10[MaxScale - x.scale])
      BY <2>5, <3>1
    <3> QED
      BY <2>4, <3>1, <3>2 DEF Units
<1> QED
  BY <1>1, <1>2

-----------------------------------------------------------------------------
\* Trailing zeros.

LEMMA ZerosDroppedIs ==
    ASSUME NEW inner \in Nat, NEW scale \in Nat
    PROVE  LET j == ZerosDropped(inner, scale) IN
           /\ j \in 0 .. MaxScale /\ j <= scale
           /\ inner % Pow10[j] = 0
           /\ \A k \in 0 .. MaxScale : k <= scale /\ inner % Pow10[k] = 0 => k <= j
<1> DEFINE m == Min({scale, MaxScale})
<1> DEFINE S == {j \in 0 .. m : inner % Pow10[j] = 0}
<1>1. m \in {scale, MaxScale} /\ m <= scale /\ m <= MaxScale
  <2>1. \E i \in {scale, MaxScale} : \A k \in {scale, MaxScale} : i <= k
    <3>1. CASE scale <= MaxScale
      BY <3>1, Powers
    <3>2. CASE MaxScale <= scale
      BY <3>2, Powers
    <3> QED
      BY <3>1, <3>2, Powers
  <2> QED
    BY <2>1 DEF Min
<1>2. m \in Nat
  BY <1>1, Powers
<1> HIDE DEF m
<1>3. 0 \in S
  <2>1. inner % 1 = 0
    OBVIOUS
  <2> QED
    BY <1>2, <2>1, Powers
<1> DEFINE T == {m - j : j \in S}
<1>4. T \subseteq Nat /\ T # {}
  BY <1>2, <1>3
<1>5. PICK least \in T : \A t \in T : least <= t
  BY <1>4, LeastNumber
<1>6. PICK j \in S : least = m - j
  BY <1>5
<1>7. \A k \in S : j >= k
  <2> SUFFICES ASSUME NEW k \in S PROVE j >= k
    OBVIOUS
  <2>1. m - j <= m - k
    BY <1>5, <1>6
  <2> QED
    BY <1>2, <1>6, <2>1
<1>8. Max(S) \in S /\ \A k \in S : Max(S) >= k
  BY <1>7 DEF Max
<1>9. ZerosDropped(inner, scale) = Max(S)
  BY DEF ZerosDropped, m
<1>10. ASSUME NEW k \in 0 .. MaxScale, k <= scale, inner % Pow10[k] = 0 PROVE k <= Max(S)
  <2>1. k \in S
    BY <1>1, <1>10
  <2> QED
    BY <1>2, <1>8, <2>1
<1> QED
  BY <1>1, <1>2, <1>8, <1>9, <1>10, Powers

\* Stripping keeps the number and leaves no zero behind.
LEMMA StripIs ==
    ASSUME NEW inner \in 1 .. UMax, NEW scale \in Nat
    PROVE  LET z == Strip(inner, scale) IN
           /\ z.inner \in 1 .. inner
           /\ z.scale \in 0 .. scale /\ scale - z.scale \in 0 .. MaxScale
           /\ inner = z.inner * Pow10[scale - z.scale]
           /\ z.scale = 0 \/ z.inner % 10 # 0
<1> DEFINE j == ZerosDropped(inner, scale)
<1> DEFINE i == inner \div Pow10[j]
<1>1. /\ j \in 0 .. MaxScale /\ j <= scale
      /\ inner % Pow10[j] = 0
      /\ \A k \in 0 .. MaxScale : k <= scale /\ inner % Pow10[k] = 0 => k <= j
  <2>1. inner \in Nat
    BY Powers
  <2> QED
    BY <2>1, ZerosDroppedIs
<1>2. Pow10[j] \in Nat \ {0} /\ inner \in Nat
  BY <1>1, Powers
<1> HIDE DEF j
<1>3. i \in Nat /\ inner = i * Pow10[j] /\ i <= inner
  <2>1. i \in Nat /\ inner = i * Pow10[j] + (inner % Pow10[j]) /\ i <= inner
    BY <1>2, Division
  <2>2. i * Pow10[j] \in Int
    BY <1>2, <2>1
  <2> QED
    BY <1>1, <2>1, <2>2
<1>4. Strip(inner, scale).inner = i /\ Strip(inner, scale).scale = scale - j
  BY DEF Strip, j
<1>5. scale - (scale - j) = j /\ scale - j \in 0 .. scale
  BY <1>1
<1> HIDE DEF i
<1>6. i >= 1
  BY <1>2, <1>3
<1>7. ASSUME scale - j # 0, i % 10 = 0 PROVE FALSE
  <2> DEFINE q == i \div 10
  <2>1. q \in Nat /\ i = q * 10
    BY <1>3, <1>7, Division
  <2> HIDE DEF q
  <2>2. CASE j + 1 <= MaxScale
    <3>1. j + 1 \in 0 .. MaxScale /\ j \in 0 .. j + 1 /\ (j + 1) - j = 1
      BY <1>1, <2>2
    <3>2. Pow10[j + 1] = Pow10[j] * 10 /\ Pow10[j + 1] \in Nat \ {0}
      <4>1. Pow10[j + 1] = Pow10[j] * Pow10[(j + 1) - j]
        BY <3>1, PowerSplits
      <4>2. Pow10[(j + 1) - j] = 10
        BY <3>1, Powers
      <4> QED
        BY <3>1, <4>1, <4>2, Powers
    <3>3. inner = q * Pow10[j + 1]
      BY <1>2, <1>3, <2>1, <3>2
    <3>4. inner % Pow10[j + 1] = 0
      <4> DEFINE d == Pow10[j + 1]
      <4>1. d \in Nat \ {0} /\ q * d <= inner /\ inner < q * d + d
        BY <1>2, <2>1, <3>2, <3>3
      <4> HIDE DEF d
      <4>2. q = inner \div d
        <5>1. q \in Int /\ inner \in Int
          BY <1>2, <2>1
        <5> QED
          BY <4>1, <5>1, QuotientIs
      <4>3. inner = (inner \div d) * d + (inner % d) /\ (inner % d) \in 0 .. d - 1
        BY <1>2, <4>1, Division
      <4>4. q * d \in Int /\ inner = q * d
        BY <2>1, <3>3, <4>1 DEF d
      <4> QED
        BY <1>2, <4>2, <4>3, <4>4 DEF d
    <3>5. j + 1 <= j
      BY <1>1, <1>7, <3>1, <3>4
    <3> QED
      BY <1>1, <3>5
  <2>3. CASE j = MaxScale
    <3>1. UMax \div 10 < Pow10[j] /\ UMax \in Nat
      BY <2>3, PowersAssumption
    <3>2. UMax < (UMax \div 10) * 10 + 10 /\ UMax \div 10 \in Nat
      BY <3>1, Division
    <3>3. UMax < Pow10[j] * 10
      BY <1>2, <3>1, <3>2
    <3>4. q >= 1
      BY <1>6, <2>1
    <3>5. (q - 1) * Pow10[j] >= 0
      BY <1>2, <2>1, <3>4
    <3>6. inner = (q * Pow10[j]) * 10 /\ q * Pow10[j] \in Int
      BY <1>2, <1>3, <2>1
    <3>7. q * Pow10[j] >= Pow10[j]
      BY <1>2, <2>1, <3>5
    <3> QED
      BY <1>2, <3>1, <3>3, <3>6, <3>7
  <2> QED
    BY <1>1, <2>2, <2>3, Powers
<1> QED
  BY <1>1, <1>3, <1>4, <1>5, <1>6, <1>7

-----------------------------------------------------------------------------
\* Truncation.

LEMMA TruncatedIs ==
    ASSUME NEW m \in Nat, NEW d \in Nat \ {0}, NEW s \in {-1, 1}, NEW t \in {-1, 1}
    PROVE  Truncated(s * m, t * d) = (s * t) * (m \div d)
<1> DEFINE q == m \div d
<1>1. q \in Int
  BY Division
<1>2. (IF s * m < 0 THEN -(s * m) ELSE s * m) = m /\ (IF t * d < 0 THEN -(t * d) ELSE t * d) = d
  OBVIOUS
<1>3. Truncated(s * m, t * d) = IF (s * m < 0) = (t * d < 0) THEN q ELSE -q
  BY <1>2 DEF Truncated
<1>4. m = 0 => q = 0
  BY Division
<1> HIDE DEF q
<1>5. CASE m = 0
  BY <1>1, <1>3, <1>4, <1>5
<1>6. CASE m # 0
  <2>1. (s * m < 0 <=> s = -1) /\ (t * d < 0 <=> t = -1)
    BY <1>6
  <2>2. CASE s = t
    <3>1. (s * m < 0) = (t * d < 0) /\ s * t = 1
      BY <2>1, <2>2
    <3>2. Truncated(s * m, t * d) = q
      BY <1>3, <3>1, Zenon
    <3> QED
      BY <1>1, <3>1, <3>2 DEF q
  <2>3. CASE s # t
    <3>1. (s * m < 0) # (t * d < 0) /\ s * t = -1
      BY <2>1, <2>3
    <3>2. Truncated(s * m, t * d) = -q
      BY <1>3, <3>1, Zenon
    <3> QED
      BY <1>1, <3>1, <3>2 DEF q
  <2> QED
    BY <2>2, <2>3
<1> QED
  BY <1>5, <1>6

\* Common factors do not matter.
LEMMA CommonFactor ==
    ASSUME NEW m \in Nat, NEW d \in Nat \ {0}, NEW c \in Nat \ {0}
    PROVE  (m * c) \div (d * c) = m \div d
<1> DEFINE q == m \div d
<1>1. q \in Nat /\ (m % d) \in 0 .. d - 1 /\ m = q * d + (m % d)
  BY Division
<1>2. q * d <= m /\ m - q * d <= d - 1
  BY <1>1
<1> HIDE DEF q
<1>3. (m - q * d) * c >= 0 /\ (d - 1 - (m - q * d)) * c >= 0
  BY <1>1, <1>2
<1>4. q * (d * c) <= m * c /\ m * c < q * (d * c) + d * c
  BY <1>1, <1>3
<1>5. d * c \in Nat \ {0} /\ m * c \in Int
  OBVIOUS
<1> QED
  BY <1>1, <1>4, <1>5, QuotientIs DEF q

\* Cutting off twice is cutting off once.
LEMMA CutTwice ==
    ASSUME NEW m \in Nat, NEW d \in Nat \ {0}, NEW c \in Nat \ {0}
    PROVE  (m \div d) \div c = m \div (d * c)
<1> DEFINE q == m \div d
<1> DEFINE p == q \div c
<1>1. q \in Nat /\ (m % d) \in 0 .. d - 1 /\ m = q * d + (m % d)
  BY Division
<1> HIDE DEF q
<1>2. p \in Nat /\ (q % c) \in 0 .. c - 1 /\ q = p * c + (q % c)
  BY <1>1, Division
<1> HIDE DEF p
<1>3. (q % c) * d >= 0 /\ (c - 1 - (q % c)) * d >= 0
  BY <1>2
<1>4. m = p * (d * c) + (q % c) * d + (m % d)
  BY <1>1, <1>2
<1>6. p * (d * c) <= m /\ m < p * (d * c) + d * c
  BY <1>1, <1>2, <1>3, <1>4
<1>5. d * c \in Nat \ {0}
  OBVIOUS
<1> QED
  BY <1>2, <1>6, <1>5, QuotientIs DEF p, q

-----------------------------------------------------------------------------
\* Multiplication.

Magnitude(x) == x.inner * Pow10[MaxScale - x.scale]

LEMMA UnitsIs ==
    ASSUME NEW x \in Decimals
    PROVE  /\ Units(x) \in Int /\ Magnitude(x) \in Nat /\ Units(x) = x.sign * Magnitude(x)
           /\ x.sign # 0 => Magnitude(x) >= 1
<1>1. x.inner \in Nat /\ x.sign \in Int /\ (x.sign # 0 => x.inner >= 1)
  BY DecimalParts
<1>2. Pow10[MaxScale - x.scale] \in Nat /\ Pow10[MaxScale - x.scale] >= 1
  BY DecimalParts, Powers
<1>3. Magnitude(x) \in Nat /\ Units(x) = x.sign * Magnitude(x)
  BY <1>1, <1>2 DEF Magnitude, Units
<1>4. ASSUME x.inner >= 1 PROVE Magnitude(x) >= 1
  <2>1. (x.inner - 1) * Pow10[MaxScale - x.scale] >= 0
    BY <1>1, <1>2, <1>4
  <2>2. x.inner * Pow10[MaxScale - x.scale] >= Pow10[MaxScale - x.scale]
    BY <1>1, <1>2, <2>1
  <2> QED
    BY <1>1, <1>2, <2>2 DEF Magnitude
<1> QED
  BY <1>1, <1>3, <1>4

\* What remains when excess scale is dropped.
LEMMA FitScaleIs ==
    ASSUME NEW inner \in 0 .. UMax, NEW scale \in Nat, scale <= MaxScale + MaxScale,
           NEW sign \in {-1, 1}
    PROVE  LET r == FitScale(inner, scale, sign) IN
           /\ r.ok = TRUE /\ r.value \in Decimals /\ r.value.sign \in {0, sign}
           /\ scale <= MaxScale => Units(r.value) = sign * (inner * Pow10[MaxScale - scale])
           /\ scale > MaxScale => Units(r.value) = sign * (inner \div Pow10[scale - MaxScale])
<1>1. CASE scale <= MaxScale
  <2>1. FitScale(inner, scale, sign) = FromRaw(inner, scale, sign) /\ scale \in 0 .. MaxScale
    BY <1>1, Powers DEF FitScale
  <2> DEFINE r == FromRaw(inner, scale, sign)
  <2>2. /\ r.ok = TRUE /\ r.value \in Decimals /\ r.value.sign \in {0, sign}
        /\ Units(r.value) = sign * (inner * Pow10[MaxScale - scale])
    BY <2>1, FromRawIs
  <2>3. ~(scale > MaxScale)
    BY <1>1, Powers
  <2> HIDE DEF r
  <2>4. FitScale(inner, scale, sign) = r
    BY <2>1 DEF r
  <2> QED
    BY <2>2, <2>3, <2>4, Zenon
<1>2. CASE scale > MaxScale
  <2> DEFINE q == inner \div Pow10[scale - MaxScale]
  <2>1. scale - MaxScale \in 0 .. MaxScale
    BY <1>2, Powers
  <2>2. Pow10[scale - MaxScale] \in Nat \ {0} /\ inner \in Nat
    BY <2>1, Powers
  <2>3. q \in 0 .. UMax
    <3>1. q \in Nat /\ q <= inner
      BY <2>2, Division
    <3> QED
      BY <2>2, <3>1, Powers
  <2>4. FitScale(inner, scale, sign) = FromRaw(q, MaxScale, sign)
    BY <1>2, Powers DEF FitScale
  <2> HIDE DEF q
  <2>5. MaxScale \in 0 .. MaxScale /\ Pow10[MaxScale - MaxScale] = 1 /\ q * 1 = q
    BY <2>3, Powers
  <2> DEFINE r == FromRaw(q, MaxScale, sign)
  <2>6. /\ r.ok = TRUE /\ r.value \in Decimals /\ r.value.sign \in {0, sign}
        /\ Units(r.value) = sign * (q * Pow10[MaxScale - MaxScale])
    BY <2>3, <2>5, FromRawIs
  <2> HIDE DEF r
  <2>7. Units(r.value) = sign * q
    BY <2>5, <2>6
  <2>8. ~(scale <= MaxScale)
    BY <1>2, Powers
  <2>9. FitScale(inner, scale, sign) = r
    BY <2>4 DEF r
  <2> QED
    BY <2>6, <2>7, <2>8, <2>9, Zenon DEF q
<1>3. scale <= MaxScale \/ scale > MaxScale
  BY Powers
<1> QED
  BY <1>1, <1>2, <1>3, Zenon

\* The magnitude a product should have, from the product of the inner numbers.
LEMMA ProductMagnitude ==
    ASSUME NEW x \in Decimals, NEW y \in Decimals
    PROVE  LET A == x.inner * y.inner
               s == x.scale + y.scale
               m == (Magnitude(x) * Magnitude(y)) \div Pow10[MaxScale]
           IN  /\ s <= MaxScale => m = A * Pow10[MaxScale - s]
               /\ s > MaxScale => m = A \div Pow10[s - MaxScale]
<1> DEFINE A == x.inner * y.inner
<1> DEFINE s == x.scale + y.scale
<1> DEFINE px == Pow10[MaxScale - x.scale]
<1> DEFINE py == Pow10[MaxScale - y.scale]
<1>1. /\ x.inner \in Nat /\ y.inner \in Nat /\ A \in Nat
      /\ x.scale \in 0 .. MaxScale /\ y.scale \in 0 .. MaxScale
      /\ MaxScale - x.scale \in 0 .. MaxScale /\ MaxScale - y.scale \in 0 .. MaxScale
      /\ px \in Nat /\ py \in Nat
  BY DecimalParts, Powers
<1>2. Magnitude(x) * Magnitude(y) = A * (px * py)
  BY <1>1 DEF Magnitude
<1>3. Pow10[MaxScale] \in Nat \ {0} /\ MaxScale \in 0 .. MaxScale
  BY Powers
<1>4. CASE s <= MaxScale
  <2>1. /\ MaxScale - s \in 0 .. MaxScale - x.scale /\ (MaxScale - x.scale) - (MaxScale - s) = y.scale
        /\ MaxScale - s \in 0 .. MaxScale
    BY <1>1, <1>4, Powers
  <2>2. px = Pow10[MaxScale - s] * Pow10[y.scale] /\ Pow10[MaxScale - s] \in Nat /\ Pow10[y.scale] \in Nat
    BY <1>1, <2>1, PowerSplits, Powers
  <2>3. Pow10[MaxScale] = Pow10[y.scale] * py
    BY <1>1, <1>3, PowerSplits
  <2> HIDE DEF A, s, px, py
  <2>4. A * (px * py) = (A * Pow10[MaxScale - s]) * Pow10[MaxScale]
    BY <1>1, <2>2, <2>3
  <2> DEFINE q == A * Pow10[MaxScale - s]
  <2>5. q \in Nat
    BY <1>1, <2>2
  <2> HIDE DEF q
  <2>6. q * Pow10[MaxScale] <= q * Pow10[MaxScale]
        /\ q * Pow10[MaxScale] < q * Pow10[MaxScale] + Pow10[MaxScale] /\ q * Pow10[MaxScale] \in Int
    BY <1>3, <2>5
  <2>7. q = (q * Pow10[MaxScale]) \div Pow10[MaxScale]
    BY <1>3, <2>5, <2>6, QuotientIs
  <2>8. (Magnitude(x) * Magnitude(y)) \div Pow10[MaxScale] = q /\ ~(s > MaxScale)
    BY <1>1, <1>2, <1>4, <2>4, <2>7, Powers DEF q, A, s
  <2> QED
    BY <2>8, Zenon DEF q, A, s
<1>5. CASE s > MaxScale
  <2> DEFINE t == (MaxScale - x.scale) + (MaxScale - y.scale)
  <2> DEFINE e == s - MaxScale
  <2>1. /\ t \in 0 .. MaxScale /\ MaxScale - x.scale \in 0 .. t /\ t - (MaxScale - x.scale) = MaxScale - y.scale
        /\ e \in 0 .. MaxScale /\ MaxScale - t = e
    BY <1>1, <1>5, Powers
  <2> HIDE DEF e
  <2>2. Pow10[t] = px * py
    BY <2>1, PowerSplits
  <2>3. Pow10[MaxScale] = Pow10[t] * Pow10[e]
    BY <1>3, <2>1, PowerSplits
  <2>4. Pow10[t] \in Nat \ {0} /\ Pow10[e] \in Nat \ {0}
    BY <2>1, Powers
  <2> HIDE DEF A, s, px, py, t
  <2>5. (A * Pow10[t]) \div (Pow10[e] * Pow10[t]) = A \div Pow10[e]
    BY <1>1, <2>4, CommonFactor
  <2>6. Pow10[MaxScale] = Pow10[e] * Pow10[t]
    BY <2>3, <2>4
  <2>7. (Magnitude(x) * Magnitude(y)) \div Pow10[MaxScale] = A \div Pow10[e]
    BY <1>2, <2>2, <2>5, <2>6
  <2>8. ~(s <= MaxScale)
    BY <1>1, <1>5, Powers DEF s
  <2> QED
    BY <2>7, <2>8, Zenon DEF A, s, e
<1> QED
  BY <1>1, <1>4, <1>5, Powers

\* Dropping trailing zeros first does not change what is left of a product.
LEMMA StripThenFit ==
    ASSUME NEW A \in 1 .. UMax, NEW s \in Nat, s > MaxScale, s <= MaxScale + MaxScale,
           NEW sign \in {-1, 1}
    PROVE  LET z == Strip(A, s)
               r == FitScale(z.inner, z.scale, sign)
           IN  /\ r.ok = TRUE /\ r.value \in Decimals /\ r.value.sign \in {0, sign}
               /\ Units(r.value) = sign * (A \div Pow10[s - MaxScale])
<1> DEFINE i == Strip(A, s).inner
<1> DEFINE k == Strip(A, s).scale
<1> DEFINE j == s - k
<1> DEFINE e == s - MaxScale
<1>1. i \in 1 .. A /\ k \in 0 .. s /\ j \in 0 .. MaxScale /\ A = i * Pow10[j]
  BY StripIs
<1>2. A \in Nat /\ i \in 0 .. UMax /\ i \in Nat /\ k \in Nat /\ k <= MaxScale + MaxScale /\ e \in 0 .. MaxScale
  BY <1>1, Powers
<1>3. LET r == FitScale(i, k, sign) IN
      /\ r.ok = TRUE /\ r.value \in Decimals /\ r.value.sign \in {0, sign}
      /\ k <= MaxScale => Units(r.value) = sign * (i * Pow10[MaxScale - k])
      /\ k > MaxScale => Units(r.value) = sign * (i \div Pow10[k - MaxScale])
  BY <1>2, FitScaleIs
<1>4. Pow10[e] \in Nat \ {0} /\ Pow10[j] \in Nat \ {0}
  BY <1>1, <1>2, Powers
<1> DEFINE r == FitScale(i, k, sign)
<1> HIDE DEF r
<1>5. ASSUME k <= MaxScale PROVE Units(r.value) = sign * (A \div Pow10[s - MaxScale])
  <2>1. e \in 0 .. j /\ j - e = MaxScale - k /\ MaxScale - k \in 0 .. MaxScale
    BY <1>1, <1>2, <1>5, Powers
  <2>2. Pow10[j] = Pow10[e] * Pow10[MaxScale - k] /\ Pow10[MaxScale - k] \in Nat
    BY <1>1, <2>1, PowerSplits, Powers
  <2> DEFINE q == i * Pow10[MaxScale - k]
  <2>3. q \in Int /\ A = q * Pow10[e]
    BY <1>1, <1>2, <1>4, <2>2
  <2> HIDE DEF q, e
  <2>4. q * Pow10[e] <= A /\ A < q * Pow10[e] + Pow10[e]
    BY <1>4, <2>3
  <2>5. q = A \div Pow10[e]
    BY <1>2, <1>4, <2>3, <2>4, QuotientIs
  <2>6. Units(r.value) = sign * q
    BY <1>3, <1>5 DEF q, r
  <2> QED
    BY <2>5, <2>6 DEF e
<1>6. ASSUME k > MaxScale PROVE Units(r.value) = sign * (A \div Pow10[s - MaxScale])
  <2> DEFINE f == k - MaxScale
  <2>1. f \in 0 .. e /\ e - f = j /\ f \in 0 .. MaxScale
    BY <1>1, <1>2, <1>6, Powers
  <2>2. Pow10[e] = Pow10[f] * Pow10[j] /\ Pow10[f] \in Nat \ {0}
    <3>1. e \in 0 .. MaxScale /\ f \in 0 .. e
      BY <1>2, <2>1
    <3>2. Pow10[e] = Pow10[f] * Pow10[e - f]
      BY <3>1, PowerSplits
    <3> HIDE DEF e, f, j
    <3> QED
      BY <2>1, <3>2, Powers
  <2>3. (i * Pow10[j]) \div (Pow10[f] * Pow10[j]) = i \div Pow10[f]
    BY <1>2, <1>4, <2>2, CommonFactor
  <2> HIDE DEF e, f, j, i
  <2>4. A \div Pow10[e] = i \div Pow10[f]
    BY <1>1, <2>2, <2>3
  <2>5. Units(r.value) = sign * (i \div Pow10[f])
    BY <1>3, <1>6 DEF f, i, r
  <2> QED
    BY <2>4, <2>5 DEF e
<1>7. r.ok = TRUE /\ r.value \in Decimals /\ r.value.sign \in {0, sign}
  BY <1>3 DEF r
<1>8. k <= MaxScale \/ k > MaxScale
  BY <1>2, Powers
<1> QED
  BY <1>5, <1>6, <1>7, <1>8, Zenon DEF r

LEMMA MulIs ==
    ASSUME NEW x \in Decimals, NEW y \in Decimals, Mul(x, y).ok
    PROVE  /\ Mul(x, y).value \in Decimals
           /\ Units(Mul(x, y).value) = Truncated(Units(x) * Units(y), Pow10[MaxScale])
           /\ x.sign # -1 /\ y.sign # -1 => Mul(x, y).value.sign # -1
<1> DEFINE p == Pow10[MaxScale]
<1> DEFINE m == Magnitude(x) * Magnitude(y)
<1>1. p \in Nat \ {0}
  BY Powers
<1>2. CASE x.sign = 0 \/ y.sign = 0
  <2>1. Mul(x, y) = Ok(Zero)
    BY <1>2 DEF Mul
  <2>2. Mul(x, y).value = Zero
    BY <2>1 DEF Ok
  <2>3. Units(x) * Units(y) = 0
    <3>1. Units(x) = 0 \/ Units(y) = 0
      BY <1>2, DecimalParts, ZeroFacts
    <3>2. Units(x) \in Int /\ Units(y) \in Int
      BY UnitsIs
    <3> QED
      BY <3>1, <3>2
  <2>4. Truncated(1 * 0, 1 * p) = (1 * 1) * (0 \div p)
    BY <1>1, TruncatedIs
  <2>5. 0 \div p = 0 /\ 1 * 0 = 0 /\ 1 * p = p
    <3>1. 0 \div p \in Nat /\ 0 \div p <= 0
      BY <1>1, Division
    <3> QED
      BY <1>1, <3>1
  <2>6. Truncated(0, p) = 0
    BY <2>4, <2>5
  <2> QED
    BY <2>2, <2>3, <2>6, ZeroFacts
<1>3. CASE x.sign # 0 /\ y.sign # 0
  <2> DEFINE A == x.inner * y.inner
  <2> DEFINE s == x.scale + y.scale
  <2> DEFINE sign == x.sign * y.sign
  <2>1. /\ x.inner \in Nat /\ y.inner \in Nat /\ x.inner >= 1 /\ y.inner >= 1
        /\ x.sign \in {-1, 1} /\ y.sign \in {-1, 1} /\ sign \in {-1, 1}
        /\ s \in Nat /\ s <= MaxScale + MaxScale
    BY <1>3, DecimalParts, Powers
  <2>2. CheckedMul(x.inner, y.inner).ok
    <3> SUFFICES ASSUME ~CheckedMul(x.inner, y.inner).ok PROVE FALSE
      OBVIOUS
    <3>1. Mul(x, y) = CheckedMul(x.inner, y.inner)
      BY <1>3 DEF Mul
    <3> QED
      BY <3>1
  <2>3. CheckedMul(x.inner, y.inner).value = A /\ A <= UMax /\ A \in 1 .. UMax
    <3>1. CheckedMul(x.inner, y.inner).value = A /\ A <= UMax
      BY <2>1, <2>2, CheckedMulIs
    <3>2. (x.inner - 1) * y.inner >= 0
      BY <2>1
    <3> QED
      BY <2>1, <3>1, <3>2, Powers
  <2>4. m \in Nat /\ Units(x) * Units(y) = sign * m
    <3>1. Units(x) = x.sign * Magnitude(x) /\ Units(y) = y.sign * Magnitude(y)
          /\ Magnitude(x) \in Nat /\ Magnitude(y) \in Nat
      BY UnitsIs
    <3> QED
      BY <2>1, <3>1
  <2>5. Truncated(Units(x) * Units(y), p) = sign * (m \div p)
    <3> HIDE DEF m, p, sign
    <3>1. Truncated(sign * m, 1 * p) = (sign * 1) * (m \div p)
      BY <1>1, <2>1, <2>4, TruncatedIs
    <3>2. 1 * p = p /\ sign * 1 = sign
      BY <1>1, <2>1
    <3> QED
      BY <2>4, <3>1, <3>2
  <2>6. /\ s <= MaxScale => m \div p = A * Pow10[MaxScale - s]
        /\ s > MaxScale => m \div p = A \div Pow10[s - MaxScale]
    BY ProductMagnitude
  <2> HIDE DEF m, p
  <2>7. CASE s <= MaxScale
    <3>1. Mul(x, y) = FromRaw(A, s, sign)
      BY <1>3, <2>2, <2>3, <2>7 DEF Mul
    <3> HIDE DEF A, s, sign
    <3>2. s \in 0 .. MaxScale /\ A \in 0 .. UMax
      BY <2>1, <2>3, <2>7, Powers
    <3>3. /\ FromRaw(A, s, sign).value \in Decimals
          /\ Units(FromRaw(A, s, sign).value) = sign * (A * Pow10[MaxScale - s])
          /\ FromRaw(A, s, sign).value.sign \in {0, sign}
      BY <2>1, <3>2, FromRawIs
    <3>4. x.sign # -1 /\ y.sign # -1 => sign = 1
      BY <2>1 DEF sign
    <3> QED
      BY <2>5, <2>6, <2>7, <3>1, <3>3, <3>4 DEF p
  <2>8. CASE s > MaxScale
    <3> DEFINE z == Strip(A, s)
    <3> DEFINE r == FitScale(z.inner, z.scale, sign)
    <3>1. Mul(x, y) = r
      BY <1>3, <2>1, <2>2, <2>3, <2>8, Powers DEF Mul
    <3> HIDE DEF A, s, sign
    <3>2. /\ r.value \in Decimals /\ r.value.sign \in {0, sign}
          /\ Units(r.value) = sign * (A \div Pow10[s - MaxScale])
      BY <2>1, <2>3, <2>8, StripThenFit
    <3>3. x.sign # -1 /\ y.sign # -1 => sign = 1
      BY <2>1 DEF sign
    <3> HIDE DEF r
    <3> QED
      BY <2>5, <2>6, <2>8, <3>1, <3>2, <3>3 DEF p
  <2> QED
    BY <2>1, <2>7, <2>8, Powers
<1> QED
  BY <1>2, <1>3

-----------------------------------------------------------------------------
\* Division.

\* What the loop of div keeps true.
LoopInvariant(x, y, w) ==
    /\ w \in Works
    /\ w.rem < y.inner
    /\ x.inner * Pow10[w.digits] = w.quot * y.inner + w.rem

LEMMA DivStarts ==
    ASSUME NEW x \in Decimals, NEW y \in Decimals, y.sign # 0
    PROVE  LoopInvariant(x, y, DivStart(x, y))
<1> DEFINE q == x.inner \div y.inner
<1> DEFINE r == x.inner % y.inner
<1>1. x.inner \in Nat /\ x.inner <= UMax /\ y.inner \in Nat \ {0} /\ y.inner <= UMax
  BY DecimalParts
<1>2. q \in Nat /\ q <= x.inner /\ r \in 0 .. y.inner - 1 /\ x.inner = q * y.inner + r
  BY <1>1, Division
<1>3. DivStart(x, y) = [quot |-> q, rem |-> r, digits |-> 0]
  BY DEF DivStart
<1> HIDE DEF q, r
<1>4. q \in 0 .. UMax /\ r \in 0 .. UMax /\ r < y.inner /\ 0 \in 0 .. MaxScale
  BY <1>1, <1>2, Powers
<1>5. DivStart(x, y) \in Works
  BY <1>3, <1>4 DEF Works
<1>6. x.inner * Pow10[0] = q * y.inner + r
  BY <1>1, <1>2, Powers
<1> QED
  BY <1>3, <1>4, <1>5, <1>6 DEF LoopInvariant

LEMMA DigitsContinue ==
    ASSUME NEW x \in Decimals, NEW y \in Decimals, NEW w, LoopInvariant(x, y, w),
           MoreDigits(w), NextDigit(w, y).ok
    PROVE  LoopInvariant(x, y, NextDigit(w, y).value)
<1> DEFINE digit == (w.rem * 10) \div y.inner
<1> DEFINE rem == (w.rem * 10) % y.inner
<1> DEFINE quot == w.quot * 10 + digit
<1>1. /\ w.quot \in Nat /\ w.rem \in Nat /\ w.digits \in Nat /\ w.digits < MaxScale
      /\ w.rem < y.inner /\ x.inner * Pow10[w.digits] = w.quot * y.inner + w.rem
      /\ x.inner \in Nat /\ y.inner \in Nat \ {0} /\ y.inner <= UMax
  <2>1. w \in Works /\ w.rem < y.inner /\ w.digits < MaxScale
    BY DEF LoopInvariant, MoreDigits
  <2>2. w.quot \in Nat /\ w.rem \in Nat /\ w.digits \in Nat
    BY <2>1, Powers DEF Works
  <2> QED
    BY <2>1, <2>2, DecimalParts DEF LoopInvariant
<1>2. /\ CheckedMul(w.rem, 10).ok /\ CheckedMul(w.quot, 10).ok
      /\ CheckedAdd(CheckedMul(w.quot, 10).value, CheckedMul(w.rem, 10).value \div y.inner).ok
  <2> SUFFICES ASSUME ~(/\ CheckedMul(w.rem, 10).ok /\ CheckedMul(w.quot, 10).ok
                        /\ CheckedAdd(CheckedMul(w.quot, 10).value, CheckedMul(w.rem, 10).value \div y.inner).ok)
               PROVE  FALSE
    OBVIOUS
  <2>1. NextDigit(w, y) = Err("Overflow")
    BY DEF NextDigit
  <2> QED
    BY <2>1 DEF Err
<1>3. CheckedMul(w.rem, 10).value = w.rem * 10 /\ CheckedMul(w.quot, 10).value = w.quot * 10
  BY <1>1, <1>2, CheckedMulIs
<1>4. digit \in Nat /\ rem \in 0 .. y.inner - 1 /\ w.rem * 10 = digit * y.inner + rem
  <2>1. w.rem * 10 \in Nat
    BY <1>1
  <2> QED
    BY <1>1, <2>1, Division
<1>5. NextDigit(w, y) = Ok([quot |-> quot, rem |-> rem, digits |-> w.digits + 1])
  BY <1>2, <1>3, Zenon DEF NextDigit
<1>6. quot <= UMax
  <2>1. CheckedAdd(w.quot * 10, digit).ok
    BY <1>2, <1>3
  <2>2. w.quot * 10 \in Nat
    BY <1>1
  <2> QED
    BY <1>4, <2>1, <2>2, CheckedAddIs
<1> DEFINE v == [quot |-> quot, rem |-> rem, digits |-> w.digits + 1]
<1>7. NextDigit(w, y).value = v
  BY <1>5 DEF Ok
<1> HIDE DEF digit, rem
<1>8. quot \in 0 .. UMax /\ rem \in 0 .. UMax /\ w.digits + 1 \in 0 .. MaxScale
  BY <1>1, <1>4, <1>6, Powers
<1>9. Pow10[w.digits + 1] = Pow10[w.digits] * 10 /\ Pow10[w.digits] \in Nat
  <2>1. w.digits \in 0 .. w.digits + 1 /\ (w.digits + 1) - w.digits = 1 /\ w.digits \in 0 .. MaxScale
    BY <1>1, Powers
  <2>2. Pow10[w.digits + 1] = Pow10[w.digits] * Pow10[(w.digits + 1) - w.digits]
    BY <1>8, <2>1, PowerSplits
  <2>3. Pow10[(w.digits + 1) - w.digits] = 10
    BY <2>1, Powers
  <2> QED
    BY <2>1, <2>2, <2>3, Powers
<1>10. x.inner * Pow10[w.digits + 1] = quot * y.inner + rem
  <2>1. x.inner * (Pow10[w.digits] * 10) = (x.inner * Pow10[w.digits]) * 10
    BY <1>1, <1>9
  <2>2. (w.quot * y.inner + w.rem) * 10 = (w.quot * 10) * y.inner + (digit * y.inner + rem)
    BY <1>1, <1>4
  <2>3. (w.quot * 10) * y.inner + (digit * y.inner + rem) = (w.quot * 10 + digit) * y.inner + rem
    BY <1>1, <1>4
  <2> QED
    BY <1>1, <1>9, <2>1, <2>2, <2>3
<1> HIDE DEF quot
<1>11. v \in Works
  BY <1>8 DEF Works
<1> QED
  BY <1>4, <1>7, <1>10, <1>11, <1>1 DEF LoopInvariant

\* When the loop is over its quotient is the exact one cut off behind MAX_SCALE
\* places, with the zeros it did not write.
LEMMA LoopQuotient ==
    ASSUME NEW x \in Decimals, NEW y \in Decimals, NEW w, LoopInvariant(x, y, w), ~MoreDigits(w)
    PROVE  /\ w.quot \in Nat /\ w.quot <= UMax /\ w.digits \in 0 .. MaxScale
           /\ MaxScale - w.digits \in 0 .. MaxScale
           /\ (x.inner * Pow10[MaxScale]) \div y.inner = w.quot * Pow10[MaxScale - w.digits]
<1> DEFINE c == Pow10[MaxScale - w.digits]
<1>1. /\ w.quot \in Nat /\ w.quot <= UMax /\ w.rem \in Nat /\ w.digits \in 0 .. MaxScale
      /\ w.rem < y.inner /\ x.inner * Pow10[w.digits] = w.quot * y.inner + w.rem
      /\ x.inner \in Nat /\ y.inner \in Nat \ {0}
  <2>1. w \in Works /\ w.rem < y.inner
    BY DEF LoopInvariant
  <2>2. w.quot \in Nat /\ w.quot <= UMax /\ w.rem \in Nat /\ w.digits \in 0 .. MaxScale
    BY <2>1, Powers DEF Works
  <2> QED
    BY <2>1, <2>2, DecimalParts DEF LoopInvariant
<1>2. MaxScale - w.digits \in 0 .. MaxScale /\ MaxScale \in 0 .. MaxScale
  BY <1>1, Powers
<1>3. c \in Nat /\ c >= 1 /\ Pow10[w.digits] \in Nat /\ Pow10[MaxScale] = Pow10[w.digits] * c
  BY <1>1, <1>2, Powers, PowerSplits
<1>4. w.rem = 0 \/ c = 1
  <2>1. w.rem = 0 \/ MaxScale - w.digits = 0
    BY <1>1, Powers DEF MoreDigits
  <2> QED
    BY <2>1, Powers
<1> HIDE DEF c
<1>5. x.inner * Pow10[MaxScale] = (w.quot * c) * y.inner + w.rem * c
  <2>1. x.inner * Pow10[MaxScale] = (x.inner * Pow10[w.digits]) * c
    BY <1>1, <1>3
  <2> QED
    BY <1>1, <1>3, <2>1
<1>6. w.rem * c >= 0 /\ w.rem * c < y.inner /\ w.rem * c \in Int
  BY <1>1, <1>3, <1>4
<1> DEFINE q == w.quot * c
<1> DEFINE n == x.inner * Pow10[MaxScale]
<1>7. q \in Int /\ n \in Int /\ q * y.inner \in Int
  BY <1>1, <1>2, <1>3, Powers
<1>8. q * y.inner <= n /\ n < q * y.inner + y.inner
  BY <1>1, <1>5, <1>6, <1>7
<1> HIDE DEF q, n
<1>9. q = n \div y.inner
  BY <1>1, <1>7, <1>8, QuotientIs
<1> QED
  BY <1>1, <1>2, <1>9 DEF q, n, c

\* The exact quotient of the amounts, from that of the inner numbers.
LEMMA QuotientMagnitude ==
    ASSUME NEW x \in Decimals, NEW y \in Decimals, y.sign # 0
    PROVE  LET n == Magnitude(x) * Pow10[MaxScale]
               q == (x.inner * Pow10[MaxScale]) \div y.inner
           IN  /\ y.scale >= x.scale => n \div (Magnitude(y) * Pow10[y.scale - x.scale]) = q
               /\ y.scale < x.scale => n \div Magnitude(y) = q \div Pow10[x.scale - y.scale]
<1> DEFINE p == Pow10[MaxScale]
<1> DEFINE px == Pow10[MaxScale - x.scale]
<1> DEFINE py == Pow10[MaxScale - y.scale]
<1> DEFINE N == x.inner * p
<1>1. /\ x.inner \in Nat /\ y.inner \in Nat \ {0}
      /\ x.scale \in 0 .. MaxScale /\ y.scale \in 0 .. MaxScale
      /\ MaxScale - x.scale \in 0 .. MaxScale /\ MaxScale - y.scale \in 0 .. MaxScale
  BY DecimalParts
<1>2. p \in Nat \ {0} /\ px \in Nat \ {0} /\ py \in Nat \ {0} /\ N \in Nat
  BY <1>1, Powers
<1>3. CASE y.scale >= x.scale
  <2> DEFINE c == Pow10[y.scale - x.scale]
  <2>1. /\ MaxScale - y.scale \in 0 .. MaxScale - x.scale
        /\ (MaxScale - x.scale) - (MaxScale - y.scale) = y.scale - x.scale
        /\ y.scale - x.scale \in 0 .. MaxScale
    BY <1>1, <1>3, Powers
  <2>2. px = py * c /\ c \in Nat \ {0}
    <3>1. px = py * Pow10[(MaxScale - x.scale) - (MaxScale - y.scale)]
      BY <1>1, <2>1, PowerSplits
    <3> QED
      BY <2>1, <3>1, Powers
  <2> HIDE DEF p, px, py, c, N
  <2>3. (N * px) \div (y.inner * px) = N \div y.inner
    BY <1>1, <1>2, CommonFactor
  <2>4. (x.inner * px) * p = N * px /\ (y.inner * py) * c = y.inner * px
    BY <1>1, <1>2, <2>2 DEF N
  <2>5. (Magnitude(x) * p) \div (Magnitude(y) * c) = N \div y.inner
    BY <2>3, <2>4 DEF Magnitude, px, py
  <2>6. ~(y.scale < x.scale)
    BY <1>1, <1>3
  <2> QED
    BY <2>5, <2>6, Zenon DEF N, p, c
<1>4. CASE y.scale < x.scale
  <2> DEFINE c == Pow10[x.scale - y.scale]
  <2>1. /\ MaxScale - x.scale \in 0 .. MaxScale - y.scale
        /\ (MaxScale - y.scale) - (MaxScale - x.scale) = x.scale - y.scale
        /\ x.scale - y.scale \in 0 .. MaxScale
    BY <1>1, <1>4, Powers
  <2>2. py = px * c /\ c \in Nat \ {0}
    <3>1. py = px * Pow10[(MaxScale - y.scale) - (MaxScale - x.scale)]
      BY <1>1, <2>1, PowerSplits
    <3> QED
      BY <2>1, <3>1, Powers
  <2> HIDE DEF p, px, py, c, N
  <2>3. y.inner * c \in Nat \ {0}
    BY <1>1, <2>2
  <2>4. (N * px) \div ((y.inner * c) * px) = N \div (y.inner * c)
    BY <1>2, <2>3, CommonFactor
  <2>5. (N \div y.inner) \div c = N \div (y.inner * c)
    BY <1>1, <1>2, <2>2, CutTwice
  <2>6. (x.inner * px) * p = N * px /\ y.inner * py = (y.inner * c) * px
    BY <1>1, <1>2, <2>2 DEF N
  <2>7. (Magnitude(x) * p) \div Magnitude(y) = (N \div y.inner) \div c
    BY <2>4, <2>5, <2>6 DEF Magnitude, px, py
  <2>8. ~(y.scale >= x.scale)
    BY <1>1, <1>4
  <2> QED
    BY <2>7, <2>8, Zenon DEF N, p, c
<1>5. y.scale >= x.scale \/ y.scale < x.scale
  BY <1>1
<1> QED
  BY <1>3, <1>4, <1>5, Zenon

\* The last step of div when the dividend has more places than the divisor.
LEMMA LowerThenFit ==
    ASSUME NEW quot \in 0 .. UMax, NEW g \in 0 .. MaxScale, NEW e \in 0 .. MaxScale,
           NEW sign \in {-1, 1}
    PROVE  LET r == FitScale(quot, g + e, sign) IN
           /\ r.value \in Decimals /\ r.value.sign \in {0, sign}
           /\ Units(r.value) = sign * ((quot * Pow10[MaxScale - g]) \div Pow10[e])
<1> DEFINE r == FitScale(quot, g + e, sign)
<1> DEFINE c == Pow10[MaxScale - g]
<1>0. quot \in Nat /\ g + e \in Nat /\ g + e <= MaxScale + MaxScale /\ MaxScale - g \in 0 .. MaxScale
  BY Powers
<1>1. /\ r.value \in Decimals /\ r.value.sign \in {0, sign}
      /\ g + e <= MaxScale => Units(r.value) = sign * (quot * Pow10[MaxScale - (g + e)])
      /\ g + e > MaxScale => Units(r.value) = sign * (quot \div Pow10[(g + e) - MaxScale])
  BY <1>0, FitScaleIs
<1>2. c \in Nat \ {0} /\ Pow10[e] \in Nat \ {0}
  BY <1>0, Powers
<1> HIDE DEF r
<1>3. ASSUME g + e <= MaxScale
      PROVE  Units(r.value) = sign * ((quot * c) \div Pow10[e])
  <2> DEFINE h == MaxScale - (g + e)
  <2>1. h \in 0 .. MaxScale - g /\ (MaxScale - g) - h = e /\ h \in 0 .. MaxScale
    BY <1>0, <1>3, Powers
  <2>2. c = Pow10[h] * Pow10[e] /\ Pow10[h] \in Nat
    <3>1. c = Pow10[h] * Pow10[(MaxScale - g) - h]
      BY <1>0, <2>1, PowerSplits
    <3> QED
      BY <2>1, <3>1, Powers
  <2> DEFINE q == quot * Pow10[h]
  <2> HIDE DEF c
  <2>3. q \in Nat /\ quot * c = q * Pow10[e] /\ q * Pow10[e] \in Int
    BY <1>0, <1>2, <2>2
  <2> HIDE DEF q
  <2>4. q * Pow10[e] <= q * Pow10[e] /\ q * Pow10[e] < q * Pow10[e] + Pow10[e]
    BY <1>2, <2>3
  <2>5. q = (q * Pow10[e]) \div Pow10[e]
    BY <1>2, <2>3, <2>4, QuotientIs
  <2>6. Units(r.value) = sign * q
    BY <1>1, <1>3 DEF q, h
  <2> QED
    BY <2>3, <2>5, <2>6
<1>4. ASSUME g + e > MaxScale
      PROVE  Units(r.value) = sign * ((quot * c) \div Pow10[e])
  <2> DEFINE h == (g + e) - MaxScale
  <2>1. h \in 0 .. e /\ e - h = MaxScale - g /\ h \in 0 .. MaxScale
    BY <1>0, <1>4, Powers
  <2>2. Pow10[e] = Pow10[h] * c /\ Pow10[h] \in Nat \ {0}
    <3>1. Pow10[e] = Pow10[h] * Pow10[e - h]
      BY <2>1, PowerSplits
    <3> QED
      BY <2>1, <3>1, Powers
  <2> HIDE DEF c
  <2>3. (quot * c) \div (Pow10[h] * c) = quot \div Pow10[h]
    BY <1>0, <1>2, <2>2, CommonFactor
  <2>4. Units(r.value) = sign * (quot \div Pow10[h])
    BY <1>1, <1>4 DEF h
  <2> QED
    BY <2>2, <2>3, <2>4
<1>5. g + e <= MaxScale \/ g + e > MaxScale
  BY <1>0, Powers
<1> QED
  BY <1>1, <1>3, <1>4, <1>5, Zenon DEF r, c

LEMMA DivEndIs ==
    ASSUME NEW x \in Decimals, NEW y \in Decimals, x.sign # 0, y.sign # 0,
           NEW w, LoopInvariant(x, y, w), ~MoreDigits(w), DivEnd(w, x, y).ok
    PROVE  LET lost == Pow10[IF y.scale > x.scale THEN y.scale - x.scale ELSE 0]
               z == DivEnd(w, x, y).value
           IN  /\ z \in Decimals
               /\ Units(z) = lost * Truncated(Units(x) * Pow10[MaxScale], Units(y) * lost)
               /\ x.sign # -1 /\ y.sign # -1 => z.sign # -1
<1> DEFINE sign == x.sign * y.sign
<1> DEFINE p == Pow10[MaxScale]
<1> DEFINE q == (x.inner * p) \div y.inner
<1> DEFINE g == w.digits
<1> DEFINE z == DivEnd(w, x, y).value
<1> DEFINE lost == Pow10[IF y.scale > x.scale THEN y.scale - x.scale ELSE 0]
<1>1. /\ x.sign \in {-1, 1} /\ y.sign \in {-1, 1} /\ sign \in {-1, 1}
      /\ x.scale \in 0 .. MaxScale /\ y.scale \in 0 .. MaxScale
      /\ x.inner \in Nat /\ y.inner \in Nat
      /\ (x.sign # -1 /\ y.sign # -1 => sign = 1)
  BY DecimalParts
<1>2. /\ w.quot \in Nat /\ w.quot \in 0 .. UMax /\ g \in 0 .. MaxScale /\ MaxScale - g \in 0 .. MaxScale
      /\ q = w.quot * Pow10[MaxScale - g]
  BY LoopQuotient, Powers
<1>3. /\ Magnitude(x) \in Nat /\ Magnitude(y) \in Nat \ {0}
      /\ Units(x) = x.sign * Magnitude(x) /\ Units(y) = y.sign * Magnitude(y)
  BY UnitsIs
<1>4. p \in Nat \ {0}
  BY Powers
<1>5. ASSUME NEW c \in Nat \ {0}
      PROVE  Truncated(Units(x) * p, Units(y) * c) = sign * ((Magnitude(x) * p) \div (Magnitude(y) * c))
  <2> DEFINE m == Magnitude(x) * p
  <2> DEFINE d == Magnitude(y) * c
  <2>1. m \in Nat /\ d \in Nat \ {0} /\ Units(x) * p = x.sign * m /\ Units(y) * c = y.sign * d
    BY <1>1, <1>3, <1>4, <1>5
  <2> HIDE DEF m, d
  <2>2. Truncated(x.sign * m, y.sign * d) = (x.sign * y.sign) * (m \div d)
    <3>1. \A s, t \in {-1, 1} : Truncated(s * m, t * d) = (s * t) * (m \div d)
      BY <2>1, TruncatedIs
    <3> QED
      BY <1>1, <3>1
  <2> QED
    BY <2>1, <2>2 DEF m, d
<1> HIDE DEF p
<1>6. CASE y.scale >= x.scale
  <2> DEFINE c == Pow10[y.scale - x.scale]
  <2>1. y.scale - x.scale \in 0 .. MaxScale /\ c \in Nat \ {0}
    BY <1>1, <1>6, Powers
  <2>2. lost = c
    <3>1. (IF y.scale > x.scale THEN y.scale - x.scale ELSE 0) = y.scale - x.scale
      BY <1>1, <1>6
    <3> QED
      BY <3>1
  <2>3. (Magnitude(x) * p) \div (Magnitude(y) * c) = q
    BY <1>6, QuotientMagnitude DEF p
  <2>4. RescaleUp(w.quot, x.scale, y.scale) = CheckedMul(w.quot, c)
    BY DEF RescaleUp
  <2>5. ~(y.scale < x.scale)
    BY <1>1, <1>6
  <2> DEFINE lifted == CheckedMul(w.quot, c)
  <2>6. lifted.ok /\ DivEnd(w, x, y) = FromRaw(lifted.value, g, sign)
    <3>1. DivEnd(w, x, y) = IF lifted.ok THEN FromRaw(lifted.value, g, sign) ELSE lifted
      BY <2>4, <2>5 DEF DivEnd
    <3> QED
      BY <3>1
  <2>7. lifted.value = w.quot * c /\ w.quot * c <= UMax
    BY <1>2, <2>1, <2>6, CheckedMulIs
  <2> HIDE DEF c, lost, q, sign, lifted
  <2>8. w.quot * c \in 0 .. UMax
    BY <1>2, <2>1, <2>7, Powers
  <2> DEFINE r == FromRaw(w.quot * c, g, sign)
  <2>9. /\ r.value \in Decimals /\ r.value.sign \in {0, sign}
        /\ Units(r.value) = sign * ((w.quot * c) * Pow10[MaxScale - g])
    BY <1>1, <1>2, <2>8, FromRawIs
  <2>10. z = r.value
    BY <2>6, <2>7
  <2> HIDE DEF r, z
  <2>11. Pow10[MaxScale - g] \in Nat
    BY <1>2, Powers
  <2>12. (w.quot * c) * Pow10[MaxScale - g] = c * q
    BY <1>2, <2>1, <2>11
  <2>13. sign * (c * q) = c * (sign * q) /\ q \in Nat
    BY <1>1, <1>2, <2>1, <2>11
  <2>14. Truncated(Units(x) * p, Units(y) * lost) = sign * q
    BY <1>5, <2>1, <2>2, <2>3
  <2>15. Units(z) = lost * Truncated(Units(x) * p, Units(y) * lost)
    BY <2>2, <2>9, <2>10, <2>12, <2>13, <2>14
  <2>16. z \in Decimals /\ (x.sign # -1 /\ y.sign # -1 => z.sign # -1)
    BY <1>1, <2>9, <2>10
  <2> QED
    BY <2>15, <2>16, Zenon DEF p, lost, z
<1>7. CASE y.scale < x.scale
  <2> DEFINE e == x.scale - y.scale
  <2>1. e \in 0 .. MaxScale /\ Pow10[e] \in Nat \ {0}
    BY <1>1, <1>7, Powers
  <2>2. lost = 1
    <3>1. (IF y.scale > x.scale THEN y.scale - x.scale ELSE 0) = 0
      BY <1>1, <1>7
    <3> QED
      BY <3>1, Powers
  <2>3. (Magnitude(x) * p) \div Magnitude(y) = q \div Pow10[e]
    BY <1>7, QuotientMagnitude DEF p
  <2>4. DivEnd(w, x, y) = FitScale(w.quot, g + e, sign)
    BY <1>7 DEF DivEnd
  <2> HIDE DEF lost, q, sign, e
  <2> DEFINE r == FitScale(w.quot, g + e, sign)
  <2>5. /\ r.value \in Decimals /\ r.value.sign \in {0, sign}
        /\ Units(r.value) = sign * ((w.quot * Pow10[MaxScale - g]) \div Pow10[e])
    BY <1>1, <1>2, <2>1, LowerThenFit
  <2>6. z = r.value
    BY <2>4
  <2> HIDE DEF r, z
  <2>7. Magnitude(y) * 1 = Magnitude(y) /\ 1 \in Nat \ {0}
    BY <1>3
  <2>8. Truncated(Units(x) * p, Units(y) * 1) = sign * ((Magnitude(x) * p) \div (Magnitude(y) * 1))
    BY <1>5, <2>7
  <2>9. Truncated(Units(x) * p, Units(y) * lost) = sign * (q \div Pow10[e])
    BY <2>2, <2>3, <2>7, <2>8
  <2>10. sign * (q \div Pow10[e]) \in Int
    <3>1. q \in Nat
      <4>1. Pow10[MaxScale - g] \in Nat
        BY <1>2, Powers
      <4> QED
        BY <1>2, <4>1
    <3>2. q \div Pow10[e] \in Nat
      BY <2>1, <3>1, Division
    <3> QED
      BY <1>1, <3>2
  <2>11. Units(z) = lost * Truncated(Units(x) * p, Units(y) * lost)
    BY <1>2, <2>2, <2>5, <2>6, <2>9, <2>10
  <2>12. z \in Decimals /\ (x.sign # -1 /\ y.sign # -1 => z.sign # -1)
    BY <1>1, <2>5, <2>6
  <2> QED
    BY <2>11, <2>12, Zenon DEF p, lost, z
<1>8. y.scale >= x.scale \/ y.scale < x.scale
  BY <1>1
<1> QED
  BY <1>6, <1>7, <1>8, Zenon

-----------------------------------------------------------------------------
\* What the owner of an amount sees.

LEMMA NormalizedIs ==
    ASSUME NEW x \in Decimals
    PROVE  Normalized(x) \in Decimals /\ Normalized(x).sign = x.sign
<1>1. CASE x.sign = 0
  <2>1. NormalizedParts(x) = [inner |-> 0, scale |-> 0]
    BY <1>1 DEF NormalizedParts
  <2>2. Normalized(x) = [inner |-> 0, scale |-> 0, sign |-> 0]
    BY <1>1, <2>1 DEF Normalized
  <2> QED
    BY <1>1, <2>2, ZeroFacts DEF Zero
<1>2. CASE x.sign # 0
  <2> DEFINE z == Strip(x.inner, x.scale)
  <2>1. x.inner \in 1 .. UMax /\ x.scale \in 0 .. MaxScale /\ x.sign \in {-1, 1} /\ x.scale \in Nat
    BY <1>2, DecimalParts, Powers
  <2>2. NormalizedParts(x) = z
    BY <1>2 DEF NormalizedParts
  <2>3. z.inner \in 1 .. x.inner /\ z.scale \in 0 .. x.scale
    BY <2>1, StripIs
  <2>4. Normalized(x) = [inner |-> z.inner, scale |-> z.scale, sign |-> x.sign]
    BY <2>2 DEF Normalized
  <2> HIDE DEF z
  <2>5. z.inner \in 1 .. UMax /\ z.scale \in 0 .. MaxScale
    BY <2>1, <2>3, Powers
  <2> QED
    BY <2>1, <2>4, <2>5 DEF Decimals
<1> QED
  BY <1>1, <1>2

\* What has been read is a decimal as far as it goes, after every character.
LEMMA ReadersStay ==
    ASSUME NEW r \in Readers, NEW c \in Chars
    PROVE  ReadChar(r, c) \in Readers
<1> DEFINE tens == CheckedMul(r.inner, 10)
<1> DEFINE sum == CheckedAdd(tens.value, c)
<1>1. /\ r.negative \in BOOLEAN /\ r.inner \in 0 .. UMax /\ r.inner \in Nat /\ r.scale \in 0 .. MaxScale
      /\ r.point \in BOOLEAN /\ r.digit \in BOOLEAN /\ r.leading \in Nat
      /\ r.error \in {"none"} \cup DecimalErrors
  BY Powers DEF Readers
<1>2. ASSUME NEW e \in DecimalErrors PROVE Fail(r, e) \in Readers
  BY DEF Fail, Readers
<1>3. ReadPoint(r) \in Readers
  <2>1. [r EXCEPT !.point = TRUE] \in Readers
    BY DEF Readers
  <2> QED
    BY <1>2, <2>1 DEF ReadPoint, DecimalErrors
<1>4. ASSUME c \in Digits PROVE ReadDigit(r, c) \in Readers
  <2>1. c \in Nat
    BY <1>4 DEF Digits
  <2>2. Fail(r, "InvalidFormat") \in Readers /\ Fail(r, "Overflow") \in Readers
        /\ Fail(r, "ScaleOverflow") \in Readers
    BY <1>2 DEF DecimalErrors
  <2> DEFINE scale == IF r.point THEN r.scale + 1 ELSE r.scale
  <2> DEFINE leading == IF r.point THEN r.leading ELSE r.leading + 1
  <2> DEFINE n == [r EXCEPT !.digit = TRUE, !.inner = sum.value, !.scale = scale, !.leading = leading]
  <2>3. ASSUME tens.ok, sum.ok, ~(r.point /\ r.scale = MaxScale) PROVE n \in Readers
    <3>1. tens.value = r.inner * 10
      BY <1>1, <2>3, CheckedMulIs
    <3>2. tens.value \in Nat
      BY <1>1, <3>1
    <3>3. tens.value + c <= UMax
      BY <2>1, <2>3, <3>2, CheckedAddIs
    <3>4. sum.value = tens.value + c
      <4>1. sum = Ok(tens.value + c)
        BY <2>1, <3>2, <3>3, Powers DEF CheckedAdd
      <4> QED
        BY <4>1 DEF Ok
    <3> HIDE DEF sum, tens
    <3>5. sum.value \in 0 .. UMax
      BY <2>1, <3>2, <3>3, <3>4, Powers
    <3>6. scale \in 0 .. MaxScale /\ leading \in Nat
      BY <1>1, <2>3, Powers
    <3> HIDE DEF scale, leading
    <3> QED
      BY <3>5, <3>6 DEF Readers
  <2>4. ReadDigit(r, c) \in {Fail(r, "InvalidFormat"), Fail(r, "Overflow"), Fail(r, "ScaleOverflow")}
        \/ (tens.ok /\ sum.ok /\ ~(r.point /\ r.scale = MaxScale) /\ ReadDigit(r, c) = n)
    BY DEF ReadDigit
  <2> QED
    BY <2>2, <2>3, <2>4
<1>5. ReadChar(r, c) \in {r, ReadPoint(r), Fail(r, "InvalidFormat")}
      \/ (c \in Digits /\ ReadChar(r, c) = ReadDigit(r, c))
  BY DEF ReadChar
<1>6. Fail(r, "InvalidFormat") \in Readers
  BY <1>2 DEF DecimalErrors
<1> QED
  BY <1>3, <1>4, <1>5, <1>6

LEMMA ReadersStart == Unread \in Readers /\ Minused \in Readers
<1>1. Unread \in Readers
  BY Powers DEF Unread, Readers
<1> QED
  BY <1>1 DEF Minused, Readers

LEMMA ReadEndIs ==
    ASSUME NEW r \in Readers, ReadEnd(r).ok
    PROVE  ReadEnd(r).value \in Decimals
<1> DEFINE sign == IF r.negative THEN -1 ELSE 1
<1>1. r.inner \in 0 .. UMax /\ r.scale \in 0 .. MaxScale /\ sign \in {-1, 1}
  BY DEF Readers
<1>2. ReadEnd(r) = Err(r.error) \/ ReadEnd(r) = Err("InvalidFormat")
      \/ ReadEnd(r) = FromRaw(r.inner, r.scale, sign)
  BY DEF ReadEnd
<1>3. ReadEnd(r) = FromRaw(r.inner, r.scale, sign)
  <2>1. \A e : Err(e).ok = FALSE
    BY DEF Err
  <2> QED
    BY <1>2, <2>1
<1> HIDE DEF sign
<1> QED
  BY <1>1, <1>3, FromRawIs

LEMMA SubIs ==
    ASSUME NEW x \in Decimals, NEW y \in Decimals, Sub(x, y).ok
    PROVE  Sub(x, y).value \in Decimals /\ Units(Sub(x, y).value) = Units(x) - Units(y)
<1>1. Negated(y) \in Decimals /\ Units(Negated(y)) = -Units(y) /\ Units(x) \in Int /\ Units(y) \in Int
  BY NegatedIs, UnitsIs
<1>2. Sub(x, y) = Add(x, Negated(y))
  BY DEF Sub
<1>3. Add(x, Negated(y)).value \in Decimals
      /\ Units(Add(x, Negated(y)).value) = Units(x) + Units(Negated(y))
  BY <1>1, <1>2, AddIs
<1> QED
  BY <1>1, <1>2, <1>3

-----------------------------------------------------------------------------
\* All that is known of the variables: canonical amounts, no negative quantity, a
\* well-formed reader, and the invariant of the division loop while there is one.
Inv ==
    /\ kind \in {"price", "quantity"}
    /\ held \in Decimals
    /\ divisor \in Decimals
    /\ work \in Works
    /\ kind = "quantity" => held.sign # -1
    /\ divisor # Zero => held.sign # 0 /\ LoopInvariant(held, divisor, work)
    /\ reader \in Readers /\ typed \in Seq(Chars)

\* What is kept of a result is a decimal, and no negative quantity.
LEMMA KeepIs ==
    ASSUME NEW r, kind \in {"price", "quantity"}, held \in Decimals,
           kind = "quantity" => held.sign # -1,
           Keep(r), r.ok => r.value \in Decimals
    PROVE  held' \in Decimals /\ (kind = "quantity" => held'.sign # -1)
<1>1. CASE r.ok /\ kind = "quantity" /\ r.value.sign = -1
  <2>1. Checked(r) = Err("Negative")
    BY <1>1 DEF Checked
  <2>2. Checked(r).ok = FALSE
    BY <2>1 DEF Err
  <2>3. held' = held
    BY <2>2, Zenon DEF Keep
  <2> QED
    BY <2>3
<1>2. CASE ~(r.ok /\ kind = "quantity" /\ r.value.sign = -1)
  <2>1. Checked(r) = r
    BY <1>2 DEF Checked
  <2>2. held' = IF r.ok THEN r.value ELSE held
    BY <2>1, Zenon DEF Keep
  <2> QED
    BY <1>2, <2>2
<1> QED
  BY <1>1, <1>2

LEMMA OkIs == ASSUME NEW v PROVE Ok(v).ok = TRUE /\ Ok(v).value = v
BY DEF Ok

LEMMA InvStarts == Init => Inv
<1> SUFFICES ASSUME Init PROVE Inv
  OBVIOUS
<1>1. /\ kind \in {"price", "quantity"} /\ held = Zero /\ divisor = Zero /\ work = NoWork
      /\ reader = Unread /\ typed = <<>>
  BY DEF Init
<1>2. NoWork \in Works
  BY Powers DEF NoWork, Works
<1> QED
  BY <1>1, <1>2, ZeroFacts, ReadersStart DEF Inv

LEMMA InvSteps == Inv /\ [Next]_vars => Inv'
<1> SUFFICES ASSUME Inv, [Next]_vars PROVE Inv'
  OBVIOUS
<1>1. /\ kind \in {"price", "quantity"} /\ held \in Decimals /\ divisor \in Decimals /\ work \in Works
      /\ kind = "quantity" => held.sign # -1
      /\ divisor # Zero => held.sign # 0 /\ LoopInvariant(held, divisor, work)
      /\ reader \in Readers /\ typed \in Seq(Chars)
  BY DEF Inv
<1>2. NoWork \in Works /\ Zero \in Decimals
  BY Powers, ZeroFacts DEF NoWork, Works
<1>3. CASE Change
  <2>1. divisor = Zero /\ UNCHANGED <<kind, divisor, work, reader, typed>>
    BY <1>3 DEF Change, Idle
  <2>2. \E r : Keep(r) /\ (r.ok => r.value \in Decimals)
    <3>1. ASSUME NEW y \in Operands, Create(y) PROVE \E r : Keep(r) /\ (r.ok => r.value \in Decimals)
      <4>1. y \in Decimals
        BY OperandsAssumption
      <4> QED
        BY <3>1, <4>1, OkIs DEF Create
    <3>2. ASSUME NEW y \in Operands, Plus(y) PROVE \E r : Keep(r) /\ (r.ok => r.value \in Decimals)
      <4>1. y \in Decimals
        BY OperandsAssumption
      <4> QED
        BY <1>1, <3>2, <4>1, AddIs DEF Plus
    <3>3. ASSUME NEW y \in Operands, Less(y) PROVE \E r : Keep(r) /\ (r.ok => r.value \in Decimals)
      <4>1. y \in Decimals
        BY OperandsAssumption
      <4> QED
        BY <1>1, <3>3, <4>1, SubIs DEF Less
    <3>4. ASSUME NEW y \in Operands, Times(y) PROVE \E r : Keep(r) /\ (r.ok => r.value \in Decimals)
      <4>1. y \in Decimals
        BY OperandsAssumption
      <4> QED
        BY <1>1, <3>4, <4>1, MulIs DEF Times
    <3>5. CASE Normalize
      <4>1. Normalized(held) \in Decimals
        BY <1>1, NormalizedIs
      <4>2. Ok(Normalized(held)).value \in Decimals /\ Keep(Ok(Normalized(held)))
        BY <3>5, <4>1, OkIs DEF Normalize
      <4> QED
        BY <4>2
    <3> QED
      BY <1>3, <3>1, <3>2, <3>3, <3>4, <3>5 DEF Change
  <2>3. held' \in Decimals /\ (kind = "quantity" => held'.sign # -1)
    BY <1>1, <2>2, KeepIs
  <2> QED
    BY <1>1, <2>1, <2>3 DEF Inv
<1>4. ASSUME NEW y \in Operands, StartDiv(y) PROVE Inv'
  <2>1. /\ y \in Decimals /\ y.sign # 0 /\ held.sign # 0 /\ divisor' = y
        /\ work' = DivStart(held, y) /\ UNCHANGED <<kind, held, reader, typed>>
    BY <1>4, OperandsAssumption DEF StartDiv
  <2>2. LoopInvariant(held, y, DivStart(held, y))
    BY <1>1, <2>1, DivStarts
  <2>3. DivStart(held, y) \in Works
    BY <2>2 DEF LoopInvariant
  <2>4. LoopInvariant(held, divisor, work)'
    BY <2>1, <2>2 DEF LoopInvariant
  <2> QED
    BY <1>1, <2>1, <2>3, <2>4 DEF Inv
<1>5. CASE DivDigit
  <2>1. /\ divisor # Zero /\ MoreDigits(work) /\ UNCHANGED <<kind, held, reader, typed>>
        /\ held.sign # 0 /\ LoopInvariant(held, divisor, work)
    BY <1>1, <1>5 DEF DivDigit
  <2>2. CASE NextDigit(work, divisor).ok
    <3>1. work' = NextDigit(work, divisor).value /\ divisor' = divisor
      BY <1>5, <2>2, Zenon DEF DivDigit
    <3>2. LoopInvariant(held, divisor, NextDigit(work, divisor).value)
      BY <1>1, <2>1, <2>2, DigitsContinue
    <3>3. work' \in Works /\ LoopInvariant(held, divisor, work)'
      BY <2>1, <3>1, <3>2 DEF LoopInvariant
    <3> QED
      BY <1>1, <2>1, <3>1, <3>3 DEF Inv
  <2>3. CASE ~NextDigit(work, divisor).ok
    <3>1. work' = NoWork /\ divisor' = Zero
      BY <1>5, <2>3, Zenon DEF DivDigit
    <3> QED
      BY <1>1, <1>2, <2>1, <3>1 DEF Inv
  <2> QED
    BY <2>2, <2>3
<1>6. CASE EndDiv
  <2>1. /\ divisor # Zero /\ ~MoreDigits(work) /\ Keep(DivEnd(work, held, divisor))
        /\ divisor' = Zero /\ work' = NoWork /\ UNCHANGED <<kind, reader, typed>>
        /\ held.sign # 0 /\ LoopInvariant(held, divisor, work)
    BY <1>1, <1>6 DEF EndDiv
  <2>2. divisor.sign # 0
    BY <1>1, <2>1, DecimalParts
  <2>3. DivEnd(work, held, divisor).ok => DivEnd(work, held, divisor).value \in Decimals
    BY <1>1, <2>1, <2>2, DivEndIs
  <2>4. held' \in Decimals /\ (kind = "quantity" => held'.sign # -1)
    BY <1>1, <2>1, <2>3, KeepIs
  <2> QED
    BY <1>1, <1>2, <2>1, <2>4 DEF Inv
<1>7. CASE ReadSign
  <2>1. typed' = <<Minus>> /\ reader' = Minused /\ UNCHANGED <<kind, held, divisor, work>>
    BY <1>7 DEF ReadSign
  <2>2. <<Minus>> \in Seq(Chars)
    BY DEF Minus, Chars
  <2>3. LoopInvariant(held, divisor, work)' = LoopInvariant(held, divisor, work)
    BY <2>1 DEF LoopInvariant
  <2> QED
    BY <1>1, <2>1, <2>2, <2>3, ReadersStart DEF Inv
<1>8. ASSUME NEW c \in TypedChars, ReadNext(c) PROVE Inv'
  <2>1. c \in Chars /\ UNCHANGED <<kind, held, divisor, work>>
    BY <1>8, OperandsAssumption DEF ReadNext
  <2>2. ReadChar(reader, c) \in Readers /\ Append(typed, c) \in Seq(Chars) /\ <<>> \in Seq(Chars)
    BY <1>1, <2>1, ReadersStay
  <2>3. reader' \in {ReadChar(reader, c), Unread} /\ typed' \in {Append(typed, c), <<>>}
    BY <1>8 DEF ReadNext
  <2>4. LoopInvariant(held, divisor, work)' = LoopInvariant(held, divisor, work)
    BY <2>1 DEF LoopInvariant
  <2> QED
    BY <1>1, <2>1, <2>2, <2>3, <2>4, ReadersStart DEF Inv
<1>9. CASE EndRead
  <2>1. /\ Keep(ReadEnd(reader)) /\ divisor = Zero
        /\ reader' = Unread /\ typed' = <<>> /\ UNCHANGED <<kind, divisor, work>>
    BY <1>9 DEF EndRead, Reading
  <2>2. ReadEnd(reader).ok => ReadEnd(reader).value \in Decimals
    BY <1>1, ReadEndIs
  <2>3. held' \in Decimals /\ (kind = "quantity" => held'.sign # -1)
    BY <1>1, <2>1, <2>2, KeepIs
  <2> QED
    BY <1>1, <2>1, <2>3, ReadersStart DEF Inv
<1>10. CASE UNCHANGED vars
  BY <1>1, <1>10 DEF vars, Inv, LoopInvariant
<1> QED
  BY <1>3, <1>4, <1>5, <1>6, <1>7, <1>8, <1>9, <1>10 DEF Next

LEMMA AlwaysInv == Spec => []Inv
BY InvStarts, InvSteps, PTL DEF Spec

\* Amounts are canonical decimals whatever is done to them.
THEOREM AmountTyping == Spec => []TypeOK
<1>1. Inv => TypeOK
  BY DEF Inv, TypeOK
<1> QED
  BY <1>1, AlwaysInv, PTL

\* No call makes a quantity negative, and none that it is built from does.
THEOREM QuantitiesStayPositive == Spec => []QuantityNeverNegative
<1>1. Inv => QuantityNeverNegative
  BY DEF Inv, QuantityNeverNegative
<1> QED
  BY <1>1, AlwaysInv, PTL

\* Sums and differences are exact or refused.
THEOREM AdditionIsExact == Spec => []SumsAreExact
<1>1. Inv => SumsAreExact
  <2> SUFFICES ASSUME held \in Decimals, NEW y \in Operands
               PROVE  /\ Add(held, y).ok => Units(Add(held, y).value) = Units(held) + Units(y)
                      /\ Sub(held, y).ok => Units(Sub(held, y).value) = Units(held) - Units(y)
    BY DEF Inv, SumsAreExact
  <2>1. y \in Decimals
    BY OperandsAssumption
  <2> QED
    BY <2>1, AddIs, SubIs
<1> QED
  BY <1>1, AlwaysInv, PTL

\* Products are cut off, never rounded, whatever way the excess scale is dropped.
THEOREM MultiplicationTruncates == Spec => []ProductsTruncate
<1>1. Inv => ProductsTruncate
  <2> SUFFICES ASSUME held \in Decimals, NEW y \in Operands, Mul(held, y).ok
               PROVE  Units(Mul(held, y).value) = Truncated(Units(held) * Units(y), Pow10[MaxScale])
    BY DEF Inv, ProductsTruncate
  <2>1. y \in Decimals
    BY OperandsAssumption
  <2> QED
    BY <2>1, MulIs
<1> QED
  BY <1>1, AlwaysInv, PTL

\* Quotients are cut off too, at the place the scales of the two sides determine.
THEOREM DivisionTruncates == Spec => []QuotientsTruncate
<1>1. Inv => QuotientsTruncate
  <2> SUFFICES ASSUME Inv, divisor # Zero, ~MoreDigits(work), DivEnd(work, held, divisor).ok
               PROVE  LET lost == Pow10[IF divisor.scale > held.scale
                                          THEN divisor.scale - held.scale ELSE 0]
                      IN  Units(DivEnd(work, held, divisor).value) =
                            lost * Truncated(Units(held) * Pow10[MaxScale], Units(divisor) * lost)
    BY Zenon DEF QuotientsTruncate
  <2>1. /\ held \in Decimals /\ divisor \in Decimals /\ held.sign # 0
        /\ LoopInvariant(held, divisor, work)
    BY DEF Inv
  <2>2. divisor.sign # 0
    BY <2>1, DecimalParts
  <2> QED
    BY <2>1, <2>2, DivEndIs
<1> QED
  BY <1>1, AlwaysInv, PTL
=============================================================================

---------------------------- MODULE AmountProofs ----------------------------
(***************************************************************************)
(* Comparing, hashing, reading and writing amounts, for every width and    *)
(* maximal scale.                                                          *)
(***************************************************************************)
EXTENDS DecimalProofs, SequenceTheorems

-----------------------------------------------------------------------------
\* Comparing.

LEMMA SignOfIs ==
    ASSUME NEW n \in Int
    PROVE  /\ SignOf(n) \in {-1, 0, 1}
           /\ SignOf(n) = -1 <=> n < 0
           /\ SignOf(n) = 0 <=> n = 0
           /\ SignOf(n) = 1 <=> n > 0
BY DEF SignOf

\* A positive factor does not change a comparison.
LEMMA FactorKeepsOrder ==
    ASSUME NEW a \in Int, NEW b \in Int, NEW c \in Nat, c >= 1
    PROVE  /\ a < b <=> a * c < b * c
           /\ a = b <=> a * c = b * c
<1>1. ASSUME NEW m \in Int, NEW n \in Int, m < n PROVE m * c < n * c
  <2>1. (n - m - 1) * c >= 0
    BY <1>1
  <2>2. n * c - m * c = (n - m - 1) * c + c
    OBVIOUS
  <2>3. m * c \in Int /\ n * c \in Int
    OBVIOUS
  <2> QED
    BY <2>1, <2>2, <2>3
<1>2. a < b => a * c < b * c
  BY <1>1
<1>3. b < a => b * c < a * c
  BY <1>1
<1>4. a * c \in Int /\ b * c \in Int
  OBVIOUS
<1> QED
  BY <1>2, <1>3, <1>4

LEMMA SignOfDifference ==
    ASSUME NEW a \in Int, NEW b \in Int, NEW c \in Int, NEW d \in Int,
           a < b <=> c < d, a = b <=> c = d
    PROVE  SignOf(a - b) = SignOf(c - d)
<1>1. a - b < 0 <=> c - d < 0
  OBVIOUS
<1>2. a - b = 0 <=> c - d = 0
  OBVIOUS
<1> QED
  BY <1>1, <1>2 DEF SignOf

\* Two numbers with i and j places compare like the numbers that each gets with the
\* places of the other, as many fewer on both sides as one likes.
LEMMA CrossScaled ==
    ASSUME NEW a \in Nat, NEW b \in Nat, NEW i \in 0 .. MaxScale, NEW j \in 0 .. MaxScale,
           NEW k \in Nat, k <= i, k <= j
    PROVE  /\ i - k \in 0 .. MaxScale /\ j - k \in 0 .. MaxScale
           /\ a * Pow10[j - k] \in Nat /\ b * Pow10[i - k] \in Nat
           /\ SignOf(a * Pow10[j - k] - b * Pow10[i - k]) =
                SignOf(a * Pow10[MaxScale - i] - b * Pow10[MaxScale - j])
<1>1. /\ MaxScale \in 0 .. MaxScale /\ MaxScale \in Nat
      /\ i \in 0 .. MaxScale /\ j \in 0 .. MaxScale
      /\ k \in 0 .. i /\ k \in 0 .. j /\ k \in 0 .. MaxScale
      /\ MaxScale - i \in 0 .. MaxScale /\ MaxScale - j \in 0 .. MaxScale
      /\ i - k \in 0 .. MaxScale /\ j - k \in 0 .. MaxScale
      /\ i \in 0 .. MaxScale /\ j \in 0 .. MaxScale
  BY Powers
<1>a. /\ Pow10[i] \in Nat /\ Pow10[i] >= 1 /\ Pow10[j] \in Nat /\ Pow10[j] >= 1
      /\ Pow10[MaxScale - i] \in Nat /\ Pow10[MaxScale - i] >= 1
      /\ Pow10[MaxScale - j] \in Nat /\ Pow10[MaxScale - j] >= 1
      /\ Pow10[i - k] \in Nat /\ Pow10[i - k] >= 1 /\ Pow10[j - k] \in Nat /\ Pow10[j - k] >= 1
      /\ Pow10[k] \in Nat /\ Pow10[k] >= 1
  <2>1. \A n \in 0 .. MaxScale : Pow10[n] \in Nat /\ Pow10[n] >= 1
    BY Powers
  <2> QED
    BY <1>1, <2>1, Zenon
<1>b. PICK p \in Nat, q \in Nat : p = Pow10[i] /\ q = Pow10[j] /\ p >= 1 /\ q >= 1
  BY <1>a, Zenon
<1>c. PICK r \in Nat, s \in Nat :
        r = Pow10[MaxScale - i] /\ s = Pow10[MaxScale - j] /\ r >= 1 /\ s >= 1
  BY <1>a, Zenon
<1>d. PICK t \in Nat, u \in Nat : t = Pow10[i - k] /\ u = Pow10[j - k] /\ t >= 1 /\ u >= 1
  BY <1>a, Zenon
<1>e. PICK v \in Nat : v = Pow10[k] /\ v >= 1
  BY <1>a, Zenon
<1>2. /\ p = Pow10[i] /\ q = Pow10[j] /\ r = Pow10[MaxScale - i] /\ s = Pow10[MaxScale - j]
      /\ t = Pow10[i - k] /\ u = Pow10[j - k] /\ v = Pow10[k]
      /\ p >= 1 /\ q >= 1 /\ r >= 1 /\ s >= 1 /\ t >= 1 /\ u >= 1 /\ v >= 1
  BY <1>b, <1>c, <1>d, <1>e
<1>3. p * r = q * s
  BY <1>1, <1>2, PowerSplits
<1>4. p = v * t
  BY <1>1, <1>2, PowerSplits
<1>5. q = v * u
  BY <1>1, <1>2, PowerSplits
<1> DEFINE m == a * u
<1> DEFINE n == b * t
<1> DEFINE x == a * r
<1> DEFINE y == b * s
<1> DEFINE c == v * r
<1>6. m \in Nat /\ n \in Nat /\ x \in Nat /\ y \in Nat /\ p * q \in Nat /\ p * q >= 1
  BY <1>2
<1>7. c \in Nat /\ c >= 1
  BY <1>2
<1>8. t * r = u * s
  <2>1. v * (t * r) = v * (u * s)
    BY <1>2, <1>3, <1>4, <1>5
  <2>2. t * r \in Int /\ u * s \in Int
    BY <1>2
  <2>3. (t * r) * v = (u * s) * v
    BY <2>1, <2>2, <1>2
  <2> QED
    BY <1>2, <2>2, <2>3, FactorKeepsOrder
<1>9. m * (s * t) = a * (t * (u * s)) /\ n * (s * t) = (b * s) * (t * t)
  BY <1>2
<1>10. m * (s * t) = x * (t * t)
  BY <1>2, <1>8, <1>9
<1>11. s * t \in Nat /\ s * t >= 1 /\ t * t \in Nat /\ t * t >= 1
  BY <1>2
<1>12. n * (s * t) = y * (t * t)
  BY <1>9
<1> HIDE DEF m, n, x, y
<1>13. (m < n <=> m * (s * t) < n * (s * t)) /\ (m = n <=> m * (s * t) = n * (s * t))
  BY <1>6, <1>11, FactorKeepsOrder
<1>14. (x < y <=> x * (t * t) < y * (t * t)) /\ (x = y <=> x * (t * t) = y * (t * t))
  BY <1>6, <1>11, FactorKeepsOrder
<1>15. SignOf(m - n) = SignOf(x - y)
  <2>1. m < n <=> x < y
    BY <1>10, <1>12, <1>13, <1>14, Zenon
  <2>2. m = n <=> x = y
    BY <1>10, <1>12, <1>13, <1>14, Zenon
  <2>3. PICK d \in Int : d = m
    BY <1>6
  <2>4. PICK e \in Int, f \in Int, g \in Int : e = n /\ f = x /\ g = y
    BY <1>6
  <2>5. (d < e <=> f < g) /\ (d = e <=> f = g)
    BY <2>1, <2>2, <2>3, <2>4, Zenon
  <2>6. SignOf(d - e) = SignOf(f - g)
    BY <2>5 DEF SignOf
  <2> QED
    BY <2>3, <2>4, <2>6, Zenon
<1>16. SignOf(a * Pow10[j - k] - b * Pow10[i - k]) =
                SignOf(a * Pow10[MaxScale - i] - b * Pow10[MaxScale - j])
  BY <1>2, <1>15 DEF m, n, x, y
<1> QED
  BY <1>1, <1>2, <1>6, <1>16 DEF m, n

\* If at least one of the two numbers fits, they are compared.
LEMMA CmpScaledIs ==
    ASSUME NEW a \in Nat, NEW b \in Nat, NEW i \in 0 .. MaxScale, NEW j \in 0 .. MaxScale,
           a * Pow10[i] <= UMax \/ b * Pow10[j] <= UMax
    PROVE  CmpScaled(a, i, b, j) = SignOf(a * Pow10[i] - b * Pow10[j])
<1>1. PICK p \in Nat, q \in Nat : p = Pow10[i] /\ q = Pow10[j]
  BY Powers
<1> DEFINE av == CheckedMul(a, Pow10[i])
<1> DEFINE bv == CheckedMul(b, Pow10[j])
<1>2. av.ok \in BOOLEAN /\ (av.ok <=> a * p <= UMax) /\ (av.ok => av.value = a * p)
  BY <1>1, CheckedMulIs
<1>3. bv.ok \in BOOLEAN /\ (bv.ok <=> b * q <= UMax) /\ (bv.ok => bv.value = b * q)
  BY <1>1, CheckedMulIs
<1>4. CmpScaled(a, i, b, j) =
        IF av.ok /\ bv.ok THEN SignOf(av.value - bv.value) ELSE IF bv.ok THEN 1 ELSE -1
  BY Zenon DEF CmpScaled
<1> HIDE DEF av, bv
<1>5. PICK m \in Nat, n \in Nat : m = a * p /\ n = b * q
  BY <1>1
<1>6. UMax \in Nat /\ (m <= UMax \/ n <= UMax)
  BY <1>1, <1>5, Powers
<1>7. CmpScaled(a, i, b, j) = SignOf(m - n)
  <2>1. CASE av.ok /\ bv.ok
    BY <1>2, <1>3, <1>4, <1>5, <2>1
  <2>2. CASE ~av.ok /\ bv.ok
    <3>1. m > n
      BY <1>2, <1>3, <1>5, <1>6, <2>2
    <3>2. SignOf(m - n) = 1
      BY <3>1 DEF SignOf
    <3> QED
      BY <1>4, <2>2, <3>2
  <2>3. CASE av.ok /\ ~bv.ok
    <3>1. m < n
      BY <1>2, <1>3, <1>5, <1>6, <2>3
    <3>2. SignOf(m - n) = -1
      BY <3>1 DEF SignOf
    <3> QED
      BY <1>4, <2>3, <3>2
  <2>4. ~(~av.ok /\ ~bv.ok)
    BY <1>2, <1>3, <1>5, <1>6
  <2> QED
    BY <2>1, <2>2, <2>3, <2>4
<1> QED
  BY <1>1, <1>5, <1>7

\* Dropping zeros changes no number, and leaves one form of it.
LEMMA StrippedIs ==
    ASSUME NEW x \in Decimals, x.sign # 0
    PROVE  LET z == Strip(x.inner, x.scale) IN
           /\ z.inner \in Nat /\ z.inner >= 1 /\ z.inner <= UMax
           /\ z.scale \in 0 .. MaxScale
           /\ z.scale = 0 \/ z.inner % 10 # 0
           /\ Magnitude(x) = z.inner * Pow10[MaxScale - z.scale]
<1> DEFINE z == Strip(x.inner, x.scale)
<1>1. /\ x.inner \in 1 .. UMax /\ x.inner \in Nat /\ x.scale \in 0 .. MaxScale /\ x.scale \in Nat
      /\ MaxScale - x.scale \in 0 .. MaxScale /\ UMax \in Nat /\ MaxScale \in Nat
  BY DecimalParts, Powers
<1>2. /\ z.inner \in 1 .. x.inner
      /\ z.scale \in 0 .. x.scale /\ x.scale - z.scale \in 0 .. MaxScale
      /\ x.inner = z.inner * Pow10[x.scale - z.scale]
      /\ z.scale = 0 \/ z.inner % 10 # 0
  BY <1>1, StripIs
<1> HIDE DEF z
<1>3. /\ MaxScale - z.scale \in 0 .. MaxScale
      /\ x.scale - z.scale \in 0 .. MaxScale - z.scale
      /\ (MaxScale - z.scale) - (x.scale - z.scale) = MaxScale - x.scale
  BY <1>1, <1>2
<1>4. Pow10[MaxScale - z.scale] = Pow10[x.scale - z.scale] * Pow10[MaxScale - x.scale]
  BY <1>3, PowerSplits
<1>5. PICK p \in Nat, q \in Nat : p = Pow10[x.scale - z.scale] /\ q = Pow10[MaxScale - x.scale]
  BY <1>1, <1>2, Powers
<1>6. z.inner \in Nat /\ (z.inner * p) * q = z.inner * (p * q)
  BY <1>2, <1>5
<1>7. Magnitude(x) = z.inner * Pow10[MaxScale - z.scale]
  BY <1>2, <1>4, <1>5, <1>6 DEF Magnitude
<1> QED
  BY <1>1, <1>2, <1>7 DEF z

\* Both ways to compare magnitudes, the ordinary one and the one for numbers of which
\* neither fits, compare the numbers.
LEMMA CmpMagnitudeIs ==
    ASSUME NEW x \in Decimals, NEW y \in Decimals, x.sign # 0, y.sign # 0
    PROVE  CmpMagnitude(x, y) = SignOf(Magnitude(x) - Magnitude(y))
<1> DEFINE a == Strip(x.inner, x.scale)
<1> DEFINE b == Strip(y.inner, y.scale)
<1> DEFINE reduce == Min({a.scale, b.scale})
<1>1. /\ a.inner \in Nat /\ a.inner >= 1 /\ a.inner <= UMax /\ a.scale \in 0 .. MaxScale
      /\ Magnitude(x) = a.inner * Pow10[MaxScale - a.scale]
  BY StrippedIs
<1>2. /\ b.inner \in Nat /\ b.inner >= 1 /\ b.inner <= UMax /\ b.scale \in 0 .. MaxScale
      /\ Magnitude(y) = b.inner * Pow10[MaxScale - b.scale]
  BY StrippedIs
<1>3. CmpMagnitude(x, y) =
        IF CheckedMul(a.inner, Pow10[b.scale]).ok \/ CheckedMul(b.inner, Pow10[a.scale]).ok
          THEN CmpScaled(a.inner, b.scale, b.inner, a.scale)
        ELSE CmpScaled(a.inner, b.scale - reduce, b.inner, a.scale - reduce)
  BY Zenon DEF CmpMagnitude
<1> HIDE DEF a, b
<1>4. PICK m \in Nat, i \in 0 .. MaxScale : m = a.inner /\ i = a.scale
  BY <1>1
<1>5. PICK n \in Nat, j \in 0 .. MaxScale : n = b.inner /\ j = b.scale
  BY <1>2
<1>6. i \in Nat /\ j \in Nat /\ MaxScale \in Nat /\ UMax \in Nat
  BY Powers
<1>7. reduce = IF i <= j THEN i ELSE j
  BY <1>4, <1>5, <1>6 DEF Min
<1> HIDE DEF reduce
<1>8. CASE CheckedMul(m, Pow10[j]).ok \/ CheckedMul(n, Pow10[i]).ok
  <2>1. CmpMagnitude(x, y) = CmpScaled(m, j, n, i)
    BY <1>3, <1>4, <1>5, <1>8, Zenon
  <2>2. m * Pow10[j] <= UMax \/ n * Pow10[i] <= UMax
    BY <1>8, Powers, CheckedMulIs
  <2>3. CmpMagnitude(x, y) = SignOf(m * Pow10[j] - n * Pow10[i])
    BY <2>1, <2>2, CmpScaledIs
  <2>4. SignOf(m * Pow10[j - 0] - n * Pow10[i - 0]) =
          SignOf(m * Pow10[MaxScale - i] - n * Pow10[MaxScale - j])
    BY <1>6, CrossScaled
  <2>5. i - 0 = i /\ j - 0 = j
    BY <1>6
  <2> QED
    BY <1>1, <1>2, <1>4, <1>5, <2>3, <2>4, <2>5
<1>9. CASE ~(CheckedMul(m, Pow10[j]).ok \/ CheckedMul(n, Pow10[i]).ok)
  <2>1. CmpMagnitude(x, y) = CmpScaled(m, j - reduce, n, i - reduce)
    BY <1>3, <1>4, <1>5, <1>9, Zenon
  <2>2. reduce \in Nat /\ reduce <= i /\ reduce <= j /\ (i - reduce = 0 \/ j - reduce = 0)
    BY <1>6, <1>7
  <2>3. /\ i - reduce \in 0 .. MaxScale /\ j - reduce \in 0 .. MaxScale
        /\ SignOf(m * Pow10[j - reduce] - n * Pow10[i - reduce]) =
             SignOf(m * Pow10[MaxScale - i] - n * Pow10[MaxScale - j])
    BY <2>2, CrossScaled
  <2>4. m * Pow10[j - reduce] <= UMax \/ n * Pow10[i - reduce] <= UMax
    <3>1. m * 1 = m /\ n * 1 = n
      OBVIOUS
    <3> QED
      BY <1>1, <1>2, <1>4, <1>5, <2>2, <3>1, Powers
  <2>5. CmpMagnitude(x, y) = SignOf(m * Pow10[j - reduce] - n * Pow10[i - reduce])
    BY <2>1, <2>3, <2>4, CmpScaledIs
  <2> QED
    BY <1>1, <1>2, <1>4, <1>5, <2>3, <2>5
<1> QED
  BY <1>8, <1>9

LEMMA CmpIs ==
    ASSUME NEW x \in Decimals, NEW y \in Decimals
    PROVE  Cmp(x, y) = SignOf(Units(x) - Units(y))
<1>1. /\ x.sign \in {-1, 0, 1} /\ y.sign \in {-1, 0, 1}
      /\ Units(x) \in Int /\ Units(y) \in Int
      /\ Magnitude(x) \in Nat /\ Magnitude(y) \in Nat
      /\ Units(x) = x.sign * Magnitude(x) /\ Units(y) = y.sign * Magnitude(y)
      /\ (x.sign # 0 => Magnitude(x) >= 1) /\ (y.sign # 0 => Magnitude(y) >= 1)
  BY DecimalParts, UnitsIs
<1>2. PICK m \in Nat, n \in Nat : m = Magnitude(x) /\ n = Magnitude(y)
  BY <1>1
<1>3. PICK s \in {-1, 0, 1}, t \in {-1, 0, 1} : s = x.sign /\ t = y.sign
  BY <1>1
<1>4. CASE s # t
  <2>1. PICK u \in Int, v \in Int : u = s * m /\ v = t * n
    OBVIOUS
  <2>2. (s < t <=> u < v) /\ u # v
    BY <1>1, <1>2, <1>3, <1>4, <2>1
  <2>3. SignOf(s - t) = SignOf(u - v)
    BY <1>4, <2>2, SignOfDifference
  <2> QED
    BY <1>1, <1>2, <1>3, <1>4, <2>1, <2>3 DEF Cmp
<1>5. CASE s = t /\ s = 0
  <2>1. SignOf(s * m - t * n) = 0
    BY <1>5 DEF SignOf
  <2> QED
    BY <1>1, <1>2, <1>3, <1>5, <2>1 DEF Cmp
<1>6. CASE s = t /\ s # 0
  <2>1. CmpMagnitude(x, y) = SignOf(m - n)
    BY <1>2, <1>3, <1>6, CmpMagnitudeIs
  <2>2. Cmp(x, y) = s * SignOf(m - n)
    BY <1>3, <1>6, <2>1 DEF Cmp
  <2>3. s * SignOf(m - n) = SignOf(s * m - t * n)
    BY <1>6 DEF SignOf
  <2> QED
    BY <1>1, <1>2, <1>3, <2>2, <2>3
<1> QED
  BY <1>4, <1>5, <1>6

-----------------------------------------------------------------------------
\* Equality and hashing.

\* A number has one form whose last digit is not a superfluous zero.
LEMMA OneForm ==
    ASSUME NEW a \in Nat, NEW b \in Nat, NEW i \in 0 .. MaxScale, NEW j \in 0 .. MaxScale,
           i = 0 \/ a % 10 # 0, a * Pow10[MaxScale - i] = b * Pow10[MaxScale - j]
    PROVE  i <= j
<1> SUFFICES ASSUME j < i PROVE FALSE
  OBVIOUS
<1>1. /\ MaxScale \in Nat /\ MaxScale - i \in 0 .. MaxScale /\ MaxScale - j \in 0 .. MaxScale
      /\ MaxScale - i \in 0 .. MaxScale - j /\ (MaxScale - j) - (MaxScale - i) = i - j
      /\ i - j \in 0 .. MaxScale /\ 1 \in 0 .. i - j /\ (i - j) - 1 \in 0 .. MaxScale
  BY Powers
<1>2. Pow10[MaxScale - j] = Pow10[MaxScale - i] * Pow10[i - j]
  BY <1>1, PowerSplits
<1>3. Pow10[i - j] = 10 * Pow10[(i - j) - 1]
  BY <1>1, PowerSplits, Powers
<1>4. PICK p \in Nat, q \in Nat : p = Pow10[MaxScale - i] /\ p >= 1 /\ q = Pow10[(i - j) - 1]
  BY <1>1, Powers
<1>5. a * p = (b * (10 * q)) * p
  <2>1. b * (p * (10 * q)) = (b * (10 * q)) * p
    BY <1>4
  <2> QED
    BY <1>2, <1>3, <1>4, <2>1
<1>6. a = b * (10 * q)
  <2>1. PICK c \in Int : c = b * (10 * q)
    BY <1>4
  <2>2. a * p = c * p
    BY <1>5, <2>1
  <2>3. a = c
    BY <1>4, <2>2, FactorKeepsOrder
  <2> QED
    BY <2>1, <2>3
<1>7. a = 10 * (b * q) /\ b * q \in Nat
  BY <1>4, <1>6
<1>8. PICK k \in Nat : a = 10 * k
  BY <1>7
<1>9. a % 10 = 0
  BY <1>8
<1> QED
  BY <1>9

LEMMA NormalFormIs ==
    ASSUME NEW x \in Decimals, NEW y \in Decimals
    PROVE  x.sign = y.sign /\ NormalizedParts(x) = NormalizedParts(y) <=> Units(x) = Units(y)
<1>1. /\ x.sign \in {-1, 0, 1} /\ y.sign \in {-1, 0, 1}
      /\ Magnitude(x) \in Nat /\ Magnitude(y) \in Nat
      /\ Units(x) = x.sign * Magnitude(x) /\ Units(y) = y.sign * Magnitude(y)
      /\ (x.sign # 0 => Magnitude(x) >= 1) /\ (y.sign # 0 => Magnitude(y) >= 1)
  BY DecimalParts, UnitsIs
<1>2. PICK m \in Nat, n \in Nat : m = Magnitude(x) /\ n = Magnitude(y)
  BY <1>1
<1>3. Units(x) = Units(y) => x.sign = y.sign
  BY <1>1, <1>2
<1>4. CASE x.sign # y.sign
  BY <1>3, <1>4
<1>5. CASE x.sign = 0 /\ y.sign = 0
  BY <1>1, <1>5 DEF NormalizedParts
<1>6. CASE x.sign = y.sign /\ x.sign # 0
  <2> DEFINE a == Strip(x.inner, x.scale)
  <2> DEFINE b == Strip(y.inner, y.scale)
  <2>1. /\ a.inner \in Nat /\ a.scale \in 0 .. MaxScale /\ (a.scale = 0 \/ a.inner % 10 # 0)
        /\ m = a.inner * Pow10[MaxScale - a.scale]
    BY <1>2, <1>6, StrippedIs
  <2>2. /\ b.inner \in Nat /\ b.scale \in 0 .. MaxScale /\ (b.scale = 0 \/ b.inner % 10 # 0)
        /\ n = b.inner * Pow10[MaxScale - b.scale]
    BY <1>2, <1>6, StrippedIs
  <2>3. a = [inner |-> a.inner, scale |-> a.scale] /\ b = [inner |-> b.inner, scale |-> b.scale]
    BY DEF Strip
  <2>4. NormalizedParts(x) = a /\ NormalizedParts(y) = b
    BY <1>6 DEF NormalizedParts
  <2> HIDE DEF a, b
  <2>5. Units(x) = Units(y) <=> m = n
    BY <1>1, <1>2, <1>6
  <2>6. a = b => m = n
    BY <2>1, <2>2
  <2>7. ASSUME m = n PROVE a = b
    <3>1. PICK c \in Nat, i \in 0 .. MaxScale : c = a.inner /\ i = a.scale
      BY <2>1
    <3>2. PICK d \in Nat, j \in 0 .. MaxScale : d = b.inner /\ j = b.scale
      BY <2>2
    <3>3. c * Pow10[MaxScale - i] = d * Pow10[MaxScale - j]
      BY <2>1, <2>2, <2>7, <3>1, <3>2
    <3>4. i <= j
      BY <2>1, <3>1, <3>3, OneForm
    <3>5. j <= i
      BY <2>2, <3>2, <3>3, OneForm
    <3>6. i = j
      BY <3>4, <3>5, Powers
    <3>7. PICK p \in Nat : p = Pow10[MaxScale - i] /\ p >= 1
      <4>1. MaxScale - i \in 0 .. MaxScale
        BY Powers
      <4> QED
        BY <4>1, Powers
    <3>8. c = d
      BY <3>3, <3>6, <3>7, FactorKeepsOrder
    <3> QED
      BY <2>3, <3>1, <3>2, <3>6, <3>8
  <2> QED
    BY <1>6, <2>4, <2>5, <2>6, <2>7
<1> QED
  BY <1>4, <1>5, <1>6

\* The order, equality and hash of amounts are those of the numbers they stand for, for
\* any two scales, even where neither of the numbers to compare fits.
THEOREM AmountsCompareAsNumbers == Spec => []ComparesAsNumbers
<1>1. Inv => ComparesAsNumbers
  <2> SUFFICES ASSUME held \in Decimals, NEW y \in Operands
               PROVE  /\ Cmp(held, y) = SignOf(Units(held) - Units(y))
                      /\ EqualTo(held, y) <=> Units(held) = Units(y)
                      /\ HashKey(held) = HashKey(y) <=> Units(held) = Units(y)
    BY Zenon DEF Inv, ComparesAsNumbers
  <2>1. y \in Decimals
    BY OperandsAssumption
  <2>2. Cmp(held, y) = SignOf(Units(held) - Units(y))
    BY <2>1, CmpIs
  <2>3. EqualTo(held, y) <=> Units(held) = Units(y)
    BY <2>1, NormalFormIs DEF EqualTo
  <2>4. HashKey(held) = HashKey(y) <=>
          held.sign = y.sign /\ NormalizedParts(held) = NormalizedParts(y)
    <3>1. ASSUME NEW x \in Decimals
          PROVE  NormalizedParts(x) =
                   [inner |-> NormalizedParts(x).inner, scale |-> NormalizedParts(x).scale]
      BY DEF NormalizedParts, Strip
    <3>2. NormalizedParts(held) = NormalizedParts(y) <=>
            /\ NormalizedParts(held).inner = NormalizedParts(y).inner
            /\ NormalizedParts(held).scale = NormalizedParts(y).scale
      BY <2>1, <3>1
    <3> QED
      BY <3>2 DEF HashKey
  <2> QED
    BY <2>1, <2>2, <2>3, <2>4, NormalFormIs
<1> QED
  BY <1>1, AlwaysInv, PTL

-----------------------------------------------------------------------------
\* The digits of a number. All powers of ten that fit are in the table, so a number cut
\* behind a larger one is 0.

Prefix(n, j) == IF j > MaxScale THEN 0 ELSE n \div Pow10[j]

LEMMA BelowNextPower ==
    ASSUME NEW n \in 0 .. UMax
    PROVE  n \div 10 < Pow10[MaxScale]
<1>1. UMax \div 10 < Pow10[MaxScale]
  BY PowersAssumption, Zenon
<1>2. UMax \in Nat /\ MaxScale \in 0 .. MaxScale
  BY Powers
<1>3. n \div 10 <= UMax \div 10
  BY <1>2
<1>4. n \div 10 \in Int /\ UMax \div 10 \in Int /\ Pow10[MaxScale] \in Int
  BY <1>2, Powers
<1> QED
  BY <1>1, <1>3, <1>4

LEMMA PrefixIs ==
    ASSUME NEW n \in 0 .. UMax, NEW j \in Nat
    PROVE  /\ Prefix(n, j) \in Nat /\ Prefix(n, j) <= n
           /\ Prefix(n, 0) = n
           /\ Prefix(n, j + 1) = Prefix(n, j) \div 10
           /\ Prefix(n, j + 1) <= Prefix(n, j)
           /\ Prefix(n, j) % 10 \in 0 .. 9
           /\ Prefix(n, j) = 10 * Prefix(n, j + 1) + (Prefix(n, j) % 10)
           /\ j > MaxScale => Prefix(n, j) = 0
<1>1. n \in Nat /\ n <= UMax /\ UMax \in Nat /\ MaxScale \in Nat /\ MaxScale >= 1
  BY Powers
<1>2. Prefix(n, 0) = n
  <2>1. Prefix(n, 0) = n \div 1
    BY <1>1, Powers DEF Prefix
  <2> QED
    BY <1>1, <2>1
<1>3. Prefix(n, j) \in Nat /\ Prefix(n, j) <= n
  <2>1. CASE j > MaxScale
    BY <1>1, <2>1 DEF Prefix
  <2>2. CASE j <= MaxScale
    <3>1. PICK p \in Nat \ {0} : p = Pow10[j]
      BY <1>1, <2>2, Powers
    <3>2. Prefix(n, j) = n \div p
      BY <1>1, <2>2, <3>1 DEF Prefix
    <3> QED
      BY <1>1, <3>2, Division
  <2> QED
    BY <1>1, <2>1, <2>2
<1>4. Prefix(n, j + 1) = Prefix(n, j) \div 10
  <2>1. CASE j > MaxScale
    BY <1>1, <2>1 DEF Prefix
  <2>2. CASE j = MaxScale
    <3>1. PICK p \in Nat \ {0} : p = Pow10[MaxScale]
      BY <1>1, Powers
    <3>2. Prefix(n, j) = n \div p /\ Prefix(n, j + 1) = 0
      BY <1>1, <2>2, <3>1 DEF Prefix
    <3>3. n \div 10 < p
      BY <3>1, BelowNextPower
    <3>4. (n \div p) \div 10 = n \div (p * 10)
      BY <1>1, CutTwice
    <3>7. (n \div 10) \div p = n \div (10 * p)
      BY <1>1, CutTwice
    <3>5. p * 10 = 10 * p
      BY <3>1
    <3>6. (n \div 10) \div p = 0
      BY <1>1, <3>1, <3>3
    <3> QED
      BY <3>2, <3>4, <3>5, <3>6, <3>7
  <2>3. CASE j < MaxScale
    <3>1. j + 1 \in 0 .. MaxScale /\ j \in 0 .. j + 1 /\ (j + 1) - j = 1 /\ j \in 0 .. MaxScale
      BY <1>1, <2>3
    <3>2. PICK p \in Nat \ {0} : p = Pow10[j]
      BY <3>1, Powers
    <3>3. Pow10[j + 1] = p * 10
      BY <3>1, <3>2, PowerSplits, Powers
    <3>4. (n \div p) \div 10 = n \div (p * 10)
      BY <1>1, CutTwice
    <3> QED
      BY <1>1, <2>3, <3>2, <3>3, <3>4 DEF Prefix
  <2> QED
    BY <1>1, <2>1, <2>2, <2>3
<1>5. PICK m \in Nat : m = Prefix(n, j)
  BY <1>3
<1>6. m = 10 * (m \div 10) + (m % 10) /\ m % 10 \in 0 .. 9 /\ m \div 10 <= m
  OBVIOUS
<1>7. j > MaxScale => Prefix(n, j) = 0
  BY DEF Prefix
<1> QED
  BY <1>2, <1>3, <1>4, <1>5, <1>6, <1>7

\* The further it is cut, the smaller it gets.
LEMMA PrefixFalls ==
    ASSUME NEW n \in 0 .. UMax, NEW i \in Nat, NEW j \in Nat, i <= j
    PROVE  Prefix(n, j) <= Prefix(n, i)
<1>1. n \in Nat /\ MaxScale \in Nat
  BY Powers
<1>2. CASE j > MaxScale
  BY <1>2, PrefixIs
<1>3. CASE j <= MaxScale
  <2>1. j \in 0 .. MaxScale /\ i \in 0 .. j /\ i \in 0 .. MaxScale /\ j - i \in 0 .. MaxScale
    BY <1>1, <1>3
  <2>2. PICK p \in Nat \ {0}, q \in Nat \ {0} : p = Pow10[i] /\ q = Pow10[j - i]
    BY <2>1, Powers
  <2>3. Pow10[j] = p * q
    BY <2>1, <2>2, PowerSplits
  <2>4. (n \div p) \div q = n \div (p * q)
    BY <1>1, CutTwice
  <2>5. n \div p \in Nat
    BY <1>1, Division
  <2>6. (n \div p) \div q <= n \div p
    BY <2>5, Division
  <2>7. Prefix(n, i) = n \div p /\ Prefix(n, j) = n \div (p * q)
    BY <1>1, <1>3, <2>1, <2>2, <2>3 DEF Prefix
  <2> QED
    BY <2>4, <2>6, <2>7
<1> QED
  BY <1>1, <1>2, <1>3

\* One more digit moves all digits by one place.
LEMMA PrefixGrows ==
    ASSUME NEW n \in 0 .. UMax, NEW c \in 0 .. 9, NEW m, m = 10 * n + c, m <= UMax
    PROVE  /\ m \in 0 .. UMax /\ m % 10 = c /\ n < Pow10[MaxScale]
           /\ \A j \in Nat : Prefix(m, j + 1) = Prefix(n, j)
<1>1. n \in Nat /\ m \in Nat /\ UMax \in Nat /\ MaxScale \in Nat /\ m \in 0 .. UMax
  BY Powers
<1>2. m \div 10 = n /\ m % 10 = c
  BY <1>1
<1>3. n < Pow10[MaxScale]
  BY <1>1, <1>2, BelowNextPower
<1>4. ASSUME NEW j \in Nat PROVE Prefix(m, j + 1) = Prefix(n, j)
  <2>1. CASE j > MaxScale
    BY <1>1, <2>1 DEF Prefix
  <2>2. CASE j = MaxScale
    <3>1. PICK p \in Nat \ {0} : p = Pow10[MaxScale]
      BY <1>1, Powers
    <3>2. n \div p = 0
      BY <1>1, <1>3, <3>1
    <3> QED
      BY <1>1, <2>2, <3>1, <3>2 DEF Prefix
  <2>3. CASE j < MaxScale
    <3>1. j + 1 \in 0 .. MaxScale /\ 1 \in 0 .. j + 1 /\ (j + 1) - 1 = j /\ j \in 0 .. MaxScale
      BY <1>1, <2>3
    <3>2. PICK p \in Nat \ {0} : p = Pow10[j]
      BY <3>1, Powers
    <3>3. Pow10[j + 1] = 10 * p
      BY <3>1, <3>2, PowerSplits, Powers
    <3>4. (m \div 10) \div p = m \div (10 * p)
      BY <1>1, CutTwice
    <3> QED
      BY <1>1, <1>2, <2>3, <3>1, <3>2, <3>3, <3>4 DEF Prefix
  <2> QED
    BY <1>1, <2>1, <2>2, <2>3
<1> QED
  BY <1>1, <1>2, <1>3, <1>4

-----------------------------------------------------------------------------
\* Texts.

LEMMA SequenceOf ==
    ASSUME NEW S, NEW n \in Nat, NEW f \in [1 .. n -> S]
    PROVE  f \in Seq(S) /\ Len(f) = n
OBVIOUS

\* The numeral has as many digits as the number, and these.
LEMMA NumeralIs ==
    ASSUME NEW n \in 1 .. UMax
    PROVE  LET s == Numeral(n) IN
           /\ s \in Seq(Digits) /\ Len(s) \in 1 .. MaxScale + 1
           /\ Prefix(n, Len(s) - 1) >= 1 /\ Prefix(n, Len(s)) = 0
           /\ \A i \in 1 .. Len(s) : s[i] = Prefix(n, Len(s) - i) % 10
<1> DEFINE T == {j \in 0 .. MaxScale : j = 0 \/ n \div Pow10[j] > 0}
<1> DEFINE length == Max(T) + 1
<1> DEFINE s == [i \in 1 .. length |-> (n \div Pow10[length - i]) % 10]
<1>1. n \in Nat /\ n \in 0 .. UMax /\ n >= 1 /\ MaxScale \in Nat /\ MaxScale >= 1
  BY Powers
<1>2. Numeral(n) = s
  BY Zenon DEF Numeral
<1>3. PICK x \in T : \A y \in T : x >= y
  <2> DEFINE D == {d \in Nat : MaxScale - d \in T}
  <2>1. D \subseteq Nat /\ MaxScale \in D
    BY <1>1
  <2>2. PICK m \in D : \A d \in D : m <= d
    BY <2>1, LeastNumber
  <2>3. ASSUME NEW y \in T PROVE MaxScale - m >= y
    <3>1. y \in 0 .. MaxScale /\ MaxScale - (MaxScale - y) = y /\ MaxScale - y \in Nat
      BY <1>1
    <3>2. MaxScale - y \in D
      BY <3>1
    <3>3. m <= MaxScale - y
      BY <2>2, <3>2
    <3> QED
      BY <1>1, <2>2, <3>1, <3>3
  <2> QED
    BY <2>2, <2>3
<1>4. Max(T) \in T /\ \A y \in T : Max(T) >= y
  BY <1>3, Zenon DEF Max
<1>5. PICK l \in T : l = Max(T) /\ \A y \in T : l >= y
  BY <1>4, Zenon
<1>6. l \in 0 .. MaxScale /\ length = l + 1 /\ length \in Nat /\ length \in 1 .. MaxScale + 1
  BY <1>1, <1>5
<1>7. Prefix(n, l) >= 1
  <2>1. Prefix(n, l) = n \div Pow10[l] /\ Prefix(n, l) \in Nat
    BY <1>1, <1>6, PrefixIs DEF Prefix
  <2>2. CASE l = 0
    BY <1>1, <2>2, PrefixIs
  <2>3. CASE l # 0
    BY <1>5, <2>1, <2>3
  <2> QED
    BY <2>2, <2>3
<1>8. Prefix(n, l + 1) = 0
  <2>1. CASE l + 1 > MaxScale
    BY <2>1 DEF Prefix
  <2>2. CASE l + 1 <= MaxScale
    <3>1. l + 1 \in 0 .. MaxScale /\ l + 1 \in Nat /\ ~(l >= l + 1)
      BY <1>1, <1>6, <2>2
    <3>2. l + 1 \notin T
      BY <1>5, <3>1, Zenon
    <3>3. ~(n \div Pow10[l + 1] > 0)
      BY <3>1, <3>2
    <3>4. Prefix(n, l + 1) = n \div Pow10[l + 1] /\ Prefix(n, l + 1) \in Nat
      BY <1>1, <3>1, PrefixIs DEF Prefix
    <3> QED
      BY <3>3, <3>4
  <2> QED
    BY <1>1, <1>6, <2>1, <2>2
<1> HIDE DEF T
<1>9. ASSUME NEW i \in 1 .. length
      PROVE  s[i] = Prefix(n, length - i) % 10 /\ s[i] \in Digits
  <2>1. length - i \in 0 .. MaxScale /\ length - i \in Nat
    BY <1>1, <1>6
  <2>2. Prefix(n, length - i) = n \div Pow10[length - i]
    BY <1>1, <2>1 DEF Prefix
  <2>3. Prefix(n, length - i) % 10 \in 0 .. 9
    BY <1>1, <2>1, PrefixIs
  <2> QED
    BY <2>2, <2>3 DEF Digits
<1> HIDE DEF length
<1>10. s \in [1 .. length -> Digits]
  BY <1>9
<1> HIDE DEF s
<1>11. s \in Seq(Digits) /\ Len(s) = length
  BY <1>6, <1>10, SequenceOf
<1> QED
  BY <1>2, <1>6, <1>7, <1>8, <1>9, <1>11

\* The m last digits of n, without a point and with `scale` of them behind one.
Whole(n, m) == [k \in 1 .. m |-> Prefix(n, m - k) % 10]
Pointed(n, m, scale) ==
    [k \in 1 .. m + 1 |-> IF k <= m - scale THEN Prefix(n, m - k) % 10
                         ELSE IF k = (m - scale) + 1 THEN 10
                         ELSE Prefix(n, m - (k - 1)) % 10]

LEMMA WholeIs ==
    ASSUME NEW n \in 0 .. UMax, NEW m \in Nat
    PROVE  /\ Whole(n, m) \in Seq(0 .. 10) /\ Len(Whole(n, m)) = m
           /\ \A k \in 1 .. m : Whole(n, m)[k] = Prefix(n, m - k) % 10
<1>1. ASSUME NEW k \in 1 .. m PROVE Prefix(n, m - k) % 10 \in 0 .. 10
  <2>1. m - k \in Nat
    OBVIOUS
  <2>2. Prefix(n, m - k) % 10 \in 0 .. 9
    BY <2>1, PrefixIs
  <2> QED
    BY <2>2
<1>2. Whole(n, m) \in [1 .. m -> 0 .. 10]
  BY <1>1 DEF Whole
<1>3. Whole(n, m) \in Seq(0 .. 10) /\ Len(Whole(n, m)) = m
  BY <1>2, SequenceOf
<1> QED
  BY <1>3 DEF Whole

LEMMA PointedIs ==
    ASSUME NEW n \in 0 .. UMax, NEW m \in Nat, NEW scale \in 0 .. m
    PROVE  LET b == Pointed(n, m, scale) IN
           /\ b \in Seq(0 .. 10) /\ Len(b) = m + 1
           /\ \A k \in 1 .. m + 1 : b[k] = IF k <= m - scale THEN Prefix(n, m - k) % 10
                                        ELSE IF k = (m - scale) + 1 THEN 10
                                        ELSE Prefix(n, m - (k - 1)) % 10
<1> DEFINE b == Pointed(n, m, scale)
<1>1. b = [k \in 1 .. m + 1 |-> IF k <= m - scale THEN Prefix(n, m - k) % 10
                               ELSE IF k = (m - scale) + 1 THEN 10
                               ELSE Prefix(n, m - (k - 1)) % 10]
  BY DEF Pointed
<1> HIDE DEF b
<1>2. ASSUME NEW k \in 1 .. m + 1 PROVE b[k] \in 0 .. 10
  <2>1. CASE k <= m - scale
    <3>1. m - k \in Nat
      BY <2>1
    <3>2. Prefix(n, m - k) % 10 \in 0 .. 9
      BY <3>1, PrefixIs
    <3> QED
      BY <1>1, <2>1, <3>2
  <2>2. CASE ~(k <= m - scale) /\ k # (m - scale) + 1
    <3>1. m - (k - 1) \in Nat
      BY <2>2
    <3>2. Prefix(n, m - (k - 1)) % 10 \in 0 .. 9
      BY <3>1, PrefixIs
    <3> QED
      BY <1>1, <2>2, <3>2
  <2>3. CASE k = (m - scale) + 1
    BY <1>1, <2>3
  <2> QED
    BY <2>1, <2>2, <2>3
<1>3. b \in [1 .. m + 1 -> 0 .. 10]
  BY <1>1, <1>2
<1>4. m + 1 \in Nat
  OBVIOUS
<1>5. b \in Seq(0 .. 10) /\ Len(b) = m + 1
  BY <1>3, <1>4, SequenceOf
<1> QED
  BY <1>1, <1>5 DEF b

\* A text with these digits is this text.
LEMMA WholeFits ==
    ASSUME NEW n \in 0 .. UMax, NEW m \in Nat, NEW t \in Seq(0 .. 10), Len(t) = m,
           \A k \in 1 .. m : t[k] = Prefix(n, m - k) % 10
    PROVE  t = Whole(n, m)
<1>1. \A k \in 1 .. Len(t) : t[k] = Whole(n, m)[k]
  BY WholeIs
<1> QED
  BY <1>1, WholeIs, SeqEqual

LEMMA PointedFits ==
    ASSUME NEW n \in 0 .. UMax, NEW m \in Nat, NEW scale \in 0 .. m,
           NEW t \in Seq(0 .. 10), Len(t) = m + 1,
           \A k \in 1 .. m + 1 :
                t[k] = IF k <= m - scale THEN Prefix(n, m - k) % 10
                       ELSE IF k = (m - scale) + 1 THEN 10
                       ELSE Prefix(n, m - (k - 1)) % 10
    PROVE  t = Pointed(n, m, scale)
<1>1. t = [k \in 1 .. m + 1 |-> t[k]]
  OBVIOUS
<1> QED
  BY <1>1 DEF Pointed

Body(n, m, scale, point) == IF point THEN Pointed(n, m, scale) ELSE Whole(n, m)
Signed(negative, s) == IF negative THEN <<Minus>> \o s ELSE s

\* How many digits Display writes: those of the number, at least one before the point.
Width(n, scale) == IF Len(Numeral(n)) > scale THEN Len(Numeral(n)) ELSE scale + 1

LEMMA WidthIs ==
    ASSUME NEW n \in 1 .. UMax, NEW scale \in 0 .. MaxScale
    PROVE  LET m == Width(n, scale) IN
           /\ m \in 1 .. MaxScale + 1 /\ m \in Nat /\ scale + 1 <= m
           /\ Prefix(n, m) = 0
           /\ m = scale + 1 \/ Prefix(n, m - 1) >= 1
           /\ \A l \in Nat : l >= 1 /\ Prefix(n, l) = 0 /\ Prefix(n, l - 1) >= 1 /\ l > scale => m = l
           /\ Prefix(n, scale) = 0 => m = scale + 1
<1> DEFINE s == Len(Numeral(n))
<1>1. n \in 0 .. UMax /\ MaxScale \in Nat
  BY Powers
<1>2. s \in 1 .. MaxScale + 1 /\ Prefix(n, s - 1) >= 1 /\ Prefix(n, s) = 0
  BY NumeralIs
<1>3. Width(n, scale) = IF s > scale THEN s ELSE scale + 1
  BY DEF Width
<1> HIDE DEF s
<1>4. s \in Nat /\ s - 1 \in Nat
  BY <1>1, <1>2
<1>5. ASSUME NEW j \in Nat, s <= j PROVE Prefix(n, j) = 0
  <2>1. Prefix(n, j) <= Prefix(n, s) /\ Prefix(n, j) \in Nat
    BY <1>1, <1>4, <1>5, PrefixFalls, PrefixIs
  <2> QED
    BY <1>2, <2>1
<1>6. ASSUME NEW j \in Nat, j <= s - 1 PROVE Prefix(n, j) >= 1
  <2>1. Prefix(n, s - 1) <= Prefix(n, j) /\ Prefix(n, j) \in Nat /\ Prefix(n, s - 1) \in Nat
    BY <1>1, <1>4, <1>6, PrefixFalls, PrefixIs
  <2> QED
    BY <1>2, <2>1
<1>7. ASSUME NEW l \in Nat, l >= 1, Prefix(n, l) = 0, Prefix(n, l - 1) >= 1 PROVE l = s
  <2>1. ~(l <= s - 1)
    BY <1>6, <1>7
  <2>2. l - 1 \in Nat /\ ~(s <= l - 1)
    BY <1>5, <1>7
  <2> QED
    BY <1>4, <2>1, <2>2
<1>8. Prefix(n, scale) = 0 => s <= scale
  <2>1. scale \in Nat
    BY <1>1
  <2>2. ~(scale <= s - 1) \/ Prefix(n, scale) >= 1
    BY <1>6, <2>1
  <2> QED
    BY <1>4, <2>1, <2>2
<1>9. PICK m \in Nat : m = Width(n, scale) /\ m = IF s > scale THEN s ELSE scale + 1
  BY <1>1, <1>3, <1>4
<1>10. m \in 1 .. MaxScale + 1 /\ scale + 1 <= m
  BY <1>1, <1>2, <1>9
<1>11. Prefix(n, m) = 0
  BY <1>1, <1>4, <1>5, <1>9
<1>12. m = scale + 1 \/ Prefix(n, m - 1) >= 1
  BY <1>2, <1>9
<1>13. \A l \in Nat : l >= 1 /\ Prefix(n, l) = 0 /\ Prefix(n, l - 1) >= 1 /\ l > scale => m = l
  BY <1>7, <1>9
<1>14. Prefix(n, scale) = 0 => m = scale + 1
  BY <1>4, <1>8, <1>9
<1> QED
  BY <1>9, <1>10, <1>11, <1>12, <1>13, <1>14

\* What is written, whichever way the point falls.
LEMMA DisplayIs ==
    ASSUME NEW x \in Decimals, x.sign # 0
    PROVE  Display(x) = Signed(x.sign = -1, Body(x.inner, Width(x.inner, x.scale), x.scale, x.scale > 0))
<1> DEFINE s == Numeral(x.inner)
<1> DEFINE split == Len(s) - x.scale
<1> DEFINE text == IF x.scale = 0 THEN s
                   ELSE IF split <= 0 THEN <<0, Dot>> \o [i \in 1 .. -split |-> 0] \o s
                   ELSE SubSeq(s, 1, split) \o <<Dot>> \o SubSeq(s, split + 1, Len(s))
<1>1. PICK n \in 1 .. UMax, scale \in 0 .. MaxScale : n = x.inner /\ scale = x.scale
  BY DecimalParts, Powers
<1>2. n \in 0 .. UMax /\ scale \in Nat /\ MaxScale \in Nat
  BY Powers
<1>3. /\ s \in Seq(Digits) /\ Len(s) \in 1 .. MaxScale + 1
      /\ Prefix(n, Len(s) - 1) >= 1 /\ Prefix(n, Len(s)) = 0
      /\ \A i \in 1 .. Len(s) : s[i] = Prefix(n, Len(s) - i) % 10
  BY <1>1, NumeralIs
<1>4. Width(n, scale) = IF Len(s) > scale THEN Len(s) ELSE scale + 1
  BY <1>1 DEF Width
<1>5. Display(x) = (IF x.sign = -1 THEN <<Minus>> ELSE <<>>) \o text
  BY Zenon DEF Display
<1> HIDE DEF s
<1>6. PICK l \in Nat : l = Len(s) /\ l \in 1 .. MaxScale + 1
  BY <1>2, <1>3
<1>a. s \in Seq(0 .. 10)
  BY <1>3, SeqMonotonic DEF Digits
<1>7. CASE scale = 0
  <2>1. text = s /\ Width(n, scale) = l
    BY <1>1, <1>4, <1>6, <1>7
  <2>2. s = Whole(n, l)
    <3>2. \A k \in 1 .. l : s[k] = Prefix(n, l - k) % 10
      BY <1>3, <1>6
    <3> QED
      BY <1>2, <1>6, <1>a, <3>2, WholeFits
  <2>3. ~(scale > 0)
    BY <1>7
  <2> QED
    BY <1>1, <1>5, <1>7, <1>a, <2>1, <2>2, <2>3, ConcatEmptySeq DEF Signed, Body
<1>8. CASE scale > 0 /\ l <= scale
  <2> DEFINE z == scale - l
  <2> DEFINE zeros == [i \in 1 .. z |-> 0]
  <2>1. z \in Nat /\ split <= 0 /\ -split = z
    BY <1>1, <1>6, <1>8
  <2>2. zeros \in [1 .. z -> 0 .. 10]
    OBVIOUS
  <2>3. zeros \in Seq(0 .. 10) /\ Len(zeros) = z /\ \A i \in 1 .. z : zeros[i] = 0
    BY <2>1, <2>2, SequenceOf
  <2>4. text = <<0, 10>> \o zeros \o s
    <3>a. x.scale # 0 /\ split <= 0
      BY <1>1, <1>2, <1>8, <2>1
    <3> HIDE DEF split
    <3>1. text = <<0, Dot>> \o [i \in 1 .. -split |-> 0] \o s
      BY <3>a, Zenon
    <3> HIDE DEF text
    <3> QED
      BY <2>1, <3>1, Zenon DEF Dot
  <2>5. <<0, 10>> \in Seq(0 .. 10) /\ Len(<<0, 10>>) = 2 /\ <<0, 10>>[1] = 0 /\ <<0, 10>>[2] = 10
    OBVIOUS
  <2> HIDE DEF zeros, text
  <2> DEFINE u == <<0, 10>> \o zeros
  <2>6. /\ u \in Seq(0 .. 10) /\ Len(u) = 2 + z
        /\ \A i \in 1 .. 2 + z : u[i] = IF i <= 2 THEN <<0, 10>>[i] ELSE zeros[i - 2]
    BY <2>3, <2>5, ConcatProperties
  <2>7. u[1] = 0 /\ u[2] = 10 /\ \A i \in 3 .. 2 + z : u[i] = 0
    BY <2>1, <2>3, <2>5, <2>6
  <2> HIDE DEF u
  <2>8. /\ text \in Seq(0 .. 10) /\ Len(text) = (2 + z) + l
        /\ \A i \in 1 .. (2 + z) + l : text[i] = IF i <= 2 + z THEN u[i] ELSE s[i - (2 + z)]
    <3>1. text = u \o s
      BY <2>4 DEF u
    <3> QED
      BY <1>6, <1>a, <2>6, <3>1, ConcatProperties
  <2>9. (2 + z) + l = (scale + 1) + 1 /\ scale + 1 \in Nat /\ scale \in 0 .. scale + 1
    BY <1>2, <1>6
  <2>10. ASSUME NEW k \in 1 .. (scale + 1) + 1
         PROVE  text[k] = IF k <= (scale + 1) - scale THEN Prefix(n, (scale + 1) - k) % 10
                          ELSE IF k = ((scale + 1) - scale) + 1 THEN 10
                          ELSE Prefix(n, (scale + 1) - (k - 1)) % 10
    <3>a. text[k] = IF k <= 2 + z THEN u[k] ELSE s[k - (2 + z)]
      BY <2>8, <2>9
    <3>1. CASE k = 1
      <4>1. text[k] = 0
        BY <2>1, <2>7, <3>1, <3>a
      <4>2. Prefix(n, scale) <= Prefix(n, l) /\ Prefix(n, scale) \in Nat
        BY <1>2, <1>8, PrefixFalls, PrefixIs
      <4>3. Prefix(n, scale) = 0
        BY <1>3, <1>6, <4>2
      <4>4. (scale + 1) - k = scale /\ k <= (scale + 1) - scale
        BY <1>2, <3>1
      <4> QED
        BY <4>1, <4>3, <4>4
    <3>2. CASE k = 2
      BY <1>2, <2>1, <2>7, <3>2, <3>a
    <3>3. CASE k >= 3 /\ k <= 2 + z
      <4>1. text[k] = 0
        BY <2>7, <3>3, <3>a
      <4>2. (scale + 1) - (k - 1) \in Nat /\ l <= (scale + 1) - (k - 1)
        BY <1>2, <1>6, <3>3
      <4>3. Prefix(n, (scale + 1) - (k - 1)) <= Prefix(n, l) /\ Prefix(n, (scale + 1) - (k - 1)) \in Nat
        BY <1>2, <1>8, <4>2, PrefixFalls, PrefixIs
      <4>4. Prefix(n, (scale + 1) - (k - 1)) = 0
        BY <1>3, <1>6, <4>3
      <4>5. ~(k <= (scale + 1) - scale) /\ k # ((scale + 1) - scale) + 1
        BY <1>2, <3>3
      <4> QED
        BY <4>1, <4>4, <4>5
    <3>4. CASE k > 2 + z
      <4>1. k - (2 + z) \in 1 .. l /\ l - (k - (2 + z)) = (scale + 1) - (k - 1)
        BY <1>2, <1>6, <2>9, <3>4
      <4>2. text[k] = s[k - (2 + z)]
        BY <3>4, <3>a
      <4>3. s[k - (2 + z)] = Prefix(n, l - (k - (2 + z))) % 10
        BY <1>3, <1>6, <4>1
      <4>4. ~(k <= (scale + 1) - scale) /\ k # ((scale + 1) - scale) + 1
        BY <1>2, <2>1, <3>4
      <4> QED
        BY <4>1, <4>2, <4>3, <4>4
    <3>5. k = 1 \/ k = 2 \/ (k >= 3 /\ k <= 2 + z) \/ k > 2 + z
      BY <1>2, <2>1
    <3> QED
      BY <3>1, <3>2, <3>3, <3>4, <3>5
  <2> HIDE DEF z
  <2>11. text = Pointed(n, scale + 1, scale)
    <3>1. PICK m \in Nat : m = scale + 1
      BY <2>9
    <3>2. scale \in 0 .. m /\ Len(text) = m + 1
      BY <2>8, <2>9, <3>1
    <3>3. \A k \in 1 .. m + 1 : text[k] = IF k <= m - scale THEN Prefix(n, m - k) % 10
                          ELSE IF k = (m - scale) + 1 THEN 10
                          ELSE Prefix(n, m - (k - 1)) % 10
      BY <2>10, <3>1, Zenon
    <3>4. text = Pointed(n, m, scale)
      BY <1>2, <2>8, <3>2, <3>3, PointedFits
    <3> QED
      BY <3>1, <3>4
  <2>12. Width(n, scale) = scale + 1
    BY <1>4, <1>6, <1>8
  <2> QED
    BY <1>1, <1>5, <1>8, <2>8, <2>11, <2>12, ConcatEmptySeq DEF Signed, Body
<1>9. CASE scale > 0 /\ l > scale
  <2> DEFINE h == l - scale
  <2>1. h \in Nat /\ split = h /\ ~(split <= 0) /\ h >= 1 /\ h <= l /\ h \in Int
    BY <1>1, <1>2, <1>6, <1>9
  <2> DEFINE a == SubSeq(s, 1, h)
  <2> DEFINE b == SubSeq(s, h + 1, l)
  <2>2. text = a \o <<10>> \o b
    <3>1. x.scale # 0 /\ ~(split <= 0)
      BY <1>1, <1>2, <1>9, <2>1
    <3>2. text = SubSeq(s, 1, split) \o <<Dot>> \o SubSeq(s, split + 1, Len(s))
      BY <3>1, Zenon
    <3> HIDE DEF text
    <3>3. split = h
      BY <2>1
    <3> HIDE DEF split, h
    <3> QED
      BY <1>6, <3>2, <3>3, Zenon DEF Dot
  <2>a. \A i \in 1 .. l : s[i] \in 0 .. 10
    BY <1>6, <1>a, ElementOfSeq
  <2> HIDE DEF h
  <2>3. /\ a \in Seq(0 .. 10) /\ Len(a) = h /\ \A i \in 1 .. h : a[i] = s[i]
    <3>1. \A i \in 1 .. h : s[i] \in 0 .. 10
      BY <2>1, <2>a
    <3>2. /\ a \in Seq(0 .. 10) /\ Len(a) = (IF 1 <= h THEN (h - 1) + 1 ELSE 0)
          /\ \A i \in 1 .. (h - 1) + 1 : a[i] = s[(1 + i) - 1]
      BY <2>1, <3>1, SubSeqProperties
    <3>3. (h - 1) + 1 = h /\ \A i \in 1 .. h : (1 + i) - 1 = i
      BY <2>1
    <3> QED
      BY <2>1, <3>2, <3>3
  <2>4. /\ b \in Seq(0 .. 10) /\ Len(b) = l - h /\ \A i \in 1 .. l - h : b[i] = s[h + i]
    <3>1. h + 1 \in Int /\ l \in Int /\ \A i \in h + 1 .. l : s[i] \in 0 .. 10
      BY <2>1, <2>a
    <3>2. /\ b \in Seq(0 .. 10) /\ Len(b) = (IF h + 1 <= l THEN (l - (h + 1)) + 1 ELSE 0)
          /\ \A i \in 1 .. (l - (h + 1)) + 1 : b[i] = s[((h + 1) + i) - 1]
      BY <3>1, SubSeqProperties
    <3>3. (l - (h + 1)) + 1 = l - h /\ \A i \in 1 .. l - h : ((h + 1) + i) - 1 = h + i
      BY <2>1
    <3>4. (IF h + 1 <= l THEN (l - (h + 1)) + 1 ELSE 0) = l - h
      BY <2>1
    <3> QED
      BY <3>2, <3>3, <3>4
  <2> HIDE DEF a, b, text
  <2> DEFINE u == a \o <<10>>
  <2>5. <<10>> \in Seq(0 .. 10) /\ Len(<<10>>) = 1 /\ <<10>>[1] = 10
    OBVIOUS
  <2>6. /\ u \in Seq(0 .. 10) /\ Len(u) = h + 1
        /\ \A i \in 1 .. h + 1 : u[i] = IF i <= h THEN a[i] ELSE <<10>>[i - h]
    BY <2>3, <2>5, ConcatProperties
  <2> HIDE DEF u
  <2>7. /\ text \in Seq(0 .. 10) /\ Len(text) = (h + 1) + (l - h)
        /\ \A i \in 1 .. (h + 1) + (l - h) : text[i] = IF i <= h + 1 THEN u[i] ELSE b[i - (h + 1)]
    <3>1. text = u \o b
      BY <2>2 DEF u
    <3>a. h + 1 \in Nat /\ l - h \in Nat
      BY <1>6, <2>1
    <3>2. PICK m \in Nat, o \in Nat : m = h + 1 /\ o = l - h
      BY <3>a, Zenon
    <3>b. u \in Seq(0 .. 10) /\ Len(u) = m /\ b \in Seq(0 .. 10) /\ Len(b) = o
      BY <2>4, <2>6, <3>2
    <3>3. /\ u \o b \in Seq(0 .. 10) /\ Len(u \o b) = m + o
          /\ \A i \in 1 .. m + o : (u \o b)[i] = IF i <= m THEN u[i] ELSE b[i - m]
      BY <3>b, ConcatProperties
    <3> QED
      BY <3>1, <3>2, <3>3, Zenon
  <2>8. (h + 1) + (l - h) = l + 1 /\ scale \in 0 .. l /\ l - scale = h
    BY <1>2, <1>9, <2>1 DEF h
  <2>9. ASSUME NEW k \in 1 .. l + 1
        PROVE  text[k] = IF k <= l - scale THEN Prefix(n, l - k) % 10
                         ELSE IF k = (l - scale) + 1 THEN 10
                         ELSE Prefix(n, l - (k - 1)) % 10
    <3>1. CASE k <= h
      <4>1. k \in 1 .. h /\ k \in 1 .. l /\ k <= h + 1 /\ k \in 1 .. h + 1
        BY <2>1, <3>1
      <4>2. text[k] = s[k]
        BY <2>3, <2>6, <2>7, <2>8, <3>1, <4>1
      <4> QED
        BY <1>3, <1>6, <2>8, <3>1, <4>1, <4>2
    <3>2. CASE k = h + 1
      <4>1. ~(k <= h) /\ k \in 1 .. h + 1 /\ k - h = 1
        BY <2>1, <3>2
      <4>2. text[k] = 10
        <5>1. u[k] = 10
          BY <2>5, <2>6, <4>1
        <5>2. text[k] = u[k]
          BY <2>7, <2>8, <3>2, <4>1
        <5> QED
          BY <5>1, <5>2
      <4> QED
        BY <2>8, <3>2, <4>1, <4>2
    <3>3. CASE k > h + 1
      <4>1. /\ ~(k <= h) /\ ~(k <= h + 1) /\ k # h + 1
            /\ k - (h + 1) \in 1 .. l - h /\ h + (k - (h + 1)) = k - 1 /\ k - 1 \in 1 .. l
        BY <2>1, <3>3
      <4>2. text[k] = s[k - 1]
        BY <2>4, <2>7, <2>8, <4>1
      <4> QED
        BY <1>3, <1>6, <2>8, <4>1, <4>2
    <3> QED
      BY <2>1, <3>1, <3>2, <3>3
  <2>10. text = Pointed(n, l, scale)
    <3>1. Len(text) = l + 1
      BY <2>7, <2>8
    <3> QED
      BY <1>2, <2>7, <2>8, <2>9, <3>1, PointedFits
  <2>11. Width(n, scale) = l
    BY <1>4, <1>6, <1>9
  <2> QED
    BY <1>1, <1>5, <1>9, <2>7, <2>10, <2>11, ConcatEmptySeq DEF Signed, Body
<1> QED
  BY <1>2, <1>6, <1>7, <1>8, <1>9

-----------------------------------------------------------------------------
\* What a character adds to a text.

LEMMA SignedAppend ==
    ASSUME NEW s \in Seq(0 .. 12), NEW c \in 0 .. 12, NEW negative \in BOOLEAN
    PROVE  Append(Signed(negative, s), c) = Signed(negative, Append(s, c))
<1>1. CASE negative
  <2>1. <<Minus>> \in Seq(0 .. 12) /\ <<c>> \in Seq(0 .. 12)
    BY DEF Minus
  <2>2. Append(s, c) = s \o <<c>>
    OBVIOUS
  <2>3. <<Minus>> \o s \in Seq(0 .. 12)
    BY <2>1, ConcatProperties
  <2>4. Append(<<Minus>> \o s, c) = (<<Minus>> \o s) \o <<c>>
    <3> DEFINE u == <<Minus>> \o s
    <3> HIDE DEF u
    <3>1. u \in Seq(0 .. 12)
      BY <2>3 DEF u
    <3>2. Append(u, c) = u \o <<c>>
      BY <3>1
    <3> QED
      BY <3>2 DEF u
  <2>5. (<<Minus>> \o s) \o <<c>> = <<Minus>> \o (s \o <<c>>)
    BY <2>1, ConcatAssociative
  <2> QED
    BY <1>1, <2>2, <2>4, <2>5, Zenon DEF Signed
<1>2. CASE ~negative
  BY <1>2, Zenon DEF Signed
<1> QED
  BY <1>1, <1>2

LEMMA PointAppended ==
    ASSUME NEW n \in 0 .. UMax, NEW m \in Nat
    PROVE  Append(Whole(n, m), 10) = Pointed(n, m, 0)
<1> DEFINE w == Whole(n, m)
<1> DEFINE t == Append(w, 10)
<1>1. w \in Seq(0 .. 10) /\ Len(w) = m /\ \A k \in 1 .. m : w[k] = Prefix(n, m - k) % 10
  BY WholeIs
<1> HIDE DEF w
<1>2. t \in Seq(0 .. 10) /\ Len(t) = m + 1 /\ t[m + 1] = 10 /\ \A k \in 1 .. m : t[k] = w[k]
  BY <1>1, AppendProperties
<1> HIDE DEF t
<1>3. 0 \in 0 .. m /\ m - 0 = m
  OBVIOUS
<1>4. ASSUME NEW k \in 1 .. m + 1
      PROVE  t[k] = IF k <= m - 0 THEN Prefix(n, m - k) % 10
                    ELSE IF k = (m - 0) + 1 THEN 10
                    ELSE Prefix(n, m - (k - 1)) % 10
  <2>1. CASE k <= m
    BY <1>1, <1>2, <1>3, <2>1
  <2>2. CASE k = m + 1
    BY <1>2, <1>3, <2>2
  <2> QED
    BY <2>1, <2>2
<1>5. t = Pointed(n, m, 0)
  BY <1>2, <1>3, <1>4, PointedFits
<1> QED
  BY <1>5 DEF t, w

LEMMA DigitAppended ==
    ASSUME NEW n \in 0 .. UMax, NEW m \in Nat, NEW c \in 0 .. 9,
           NEW o, o = 10 * n + c, o <= UMax
    PROVE  /\ Append(Whole(n, m), c) = Whole(o, m + 1)
           /\ \A scale \in 0 .. m : Append(Pointed(n, m, scale), c) = Pointed(o, m + 1, scale + 1)
<1>1. o \in 0 .. UMax /\ o % 10 = c /\ \A j \in Nat : Prefix(o, j + 1) = Prefix(n, j)
  BY PrefixGrows
<1>2. Prefix(o, 0) = o
  <2>1. 0 \in Nat
    OBVIOUS
  <2> QED
    BY <1>1, <2>1, PrefixIs
<1>3. ASSUME NEW k \in 1 .. m PROVE Prefix(o, (m + 1) - k) = Prefix(n, m - k)
  <2>1. m - k \in Nat /\ (m - k) + 1 = (m + 1) - k
    OBVIOUS
  <2> QED
    BY <1>1, <2>1
<1>4. Append(Whole(n, m), c) = Whole(o, m + 1)
  <2> DEFINE w == Whole(n, m)
  <2> DEFINE t == Append(w, c)
  <2>1. w \in Seq(0 .. 10) /\ Len(w) = m /\ \A k \in 1 .. m : w[k] = Prefix(n, m - k) % 10
    BY WholeIs
  <2>2. c \in 0 .. 10
    OBVIOUS
  <2> HIDE DEF w
  <2>3. t \in Seq(0 .. 10) /\ Len(t) = m + 1 /\ t[m + 1] = c /\ \A k \in 1 .. m : t[k] = w[k]
    BY <2>1, <2>2, AppendProperties
  <2> HIDE DEF t
  <2>4. ASSUME NEW k \in 1 .. m + 1 PROVE t[k] = Prefix(o, (m + 1) - k) % 10
    <3>1. CASE k <= m
      BY <1>3, <2>1, <2>3, <3>1
    <3>2. CASE k = m + 1
      <4>1. (m + 1) - k = 0
        BY <3>2
      <4> QED
        BY <1>1, <1>2, <2>3, <3>2, <4>1
    <3> QED
      BY <3>1, <3>2
  <2>5. m + 1 \in Nat
    OBVIOUS
  <2>6. t = Whole(o, m + 1)
    BY <1>1, <2>3, <2>4, <2>5, WholeFits
  <2> QED
    BY <2>6 DEF t, w
<1>5. ASSUME NEW scale \in 0 .. m
      PROVE  Append(Pointed(n, m, scale), c) = Pointed(o, m + 1, scale + 1)
  <2> DEFINE w == Pointed(n, m, scale)
  <2> DEFINE t == Append(w, c)
  <2>1. /\ w \in Seq(0 .. 10) /\ Len(w) = m + 1
        /\ \A k \in 1 .. m + 1 : w[k] = IF k <= m - scale THEN Prefix(n, m - k) % 10
                                        ELSE IF k = (m - scale) + 1 THEN 10
                                        ELSE Prefix(n, m - (k - 1)) % 10
    BY PointedIs
  <2>2. c \in 0 .. 10
    OBVIOUS
  <2> HIDE DEF w
  <2>3. /\ t \in Seq(0 .. 10) /\ Len(t) = (m + 1) + 1 /\ t[(m + 1) + 1] = c
        /\ \A k \in 1 .. m + 1 : t[k] = w[k]
    BY <2>1, <2>2, AppendProperties
  <2> HIDE DEF t
  <2>4. m + 1 \in Nat /\ scale + 1 \in 0 .. m + 1 /\ (m + 1) - (scale + 1) = m - scale
    OBVIOUS
  <2>5. ASSUME NEW k \in 1 .. (m + 1) + 1
        PROVE  t[k] = IF k <= m - scale THEN Prefix(o, (m + 1) - k) % 10
                      ELSE IF k = (m - scale) + 1 THEN 10
                      ELSE Prefix(o, (m + 1) - (k - 1)) % 10
    <3>1. CASE k <= m - scale
      <4>1. k \in 1 .. m /\ k \in 1 .. m + 1
        BY <3>1
      <4> QED
        BY <1>3, <2>1, <2>3, <3>1, <4>1
    <3>2. CASE k = (m - scale) + 1
      <4>1. ~(k <= m - scale) /\ k \in 1 .. m + 1
        BY <3>2
      <4> QED
        BY <2>1, <2>3, <3>2, <4>1
    <3>3. CASE k > (m - scale) + 1 /\ k <= m + 1
      <4>1. /\ ~(k <= m - scale) /\ k # (m - scale) + 1 /\ k \in 1 .. m + 1 /\ k - 1 \in 1 .. m
        BY <3>3
      <4>2. Prefix(o, (m + 1) - (k - 1)) = Prefix(n, m - (k - 1))
        BY <1>3, <4>1
      <4> QED
        BY <2>1, <2>3, <4>1, <4>2
    <3>4. CASE k = (m + 1) + 1
      <4>1. ~(k <= m - scale) /\ k # (m - scale) + 1 /\ (m + 1) - (k - 1) = 0
        BY <3>4
      <4> QED
        BY <1>1, <1>2, <2>3, <3>4, <4>1
    <3> QED
      BY <3>1, <3>2, <3>3, <3>4
  <2>6. t = Pointed(o, m + 1, scale + 1)
    <3>0. PICK a \in Nat : a = m + 1
      BY <2>4
    <3>b. PICK b \in 0 .. a : b = scale + 1
      BY <2>4, <3>0
    <3>1. a = m + 1 /\ b = scale + 1
      BY <3>0, <3>b
    <3>2. Len(t) = a + 1 /\ a - b = m - scale
      BY <2>3, <2>4, <3>1
    <3>3. \A k \in 1 .. a + 1 : t[k] = IF k <= a - b THEN Prefix(o, a - k) % 10
                      ELSE IF k = (a - b) + 1 THEN 10
                      ELSE Prefix(o, a - (k - 1)) % 10
      BY <2>5, <3>1, <3>2, Zenon
    <3>4. t = Pointed(o, a, b)
      BY <1>1, <2>3, <3>2, <3>3, PointedFits
    <3> QED
      BY <3>1, <3>4
  <2> QED
    BY <2>6 DEF t, w
<1> QED
  BY <1>4, <1>5

-----------------------------------------------------------------------------
\* Reading. What has been typed is the number that has been read, digit for digit. A
\* number has at most one digit more than fit behind the point, because a 0 in front stands
\* alone and any other first digit counts.
Follows(r, t) ==
    LET n == r.leading + r.scale IN
    /\ r.error = "none"
    /\ n <= MaxScale + 1 /\ Prefix(r.inner, n) = 0
    /\ \/ r.leading = 0
       \/ r.leading = 1 /\ Prefix(r.inner, n - 1) = 0
       \/ Prefix(r.inner, n - 1) >= 1
    /\ ~r.point => r.scale = 0
    /\ r.digit <=> n > 0
    /\ t = Signed(r.negative, Body(r.inner, n, r.scale, r.point))

LEMMA ReaderParts ==
    ASSUME NEW r \in Readers
    PROVE  /\ r.negative \in BOOLEAN /\ r.inner \in 0 .. UMax /\ r.inner \in Nat
           /\ r.scale \in 0 .. MaxScale /\ r.scale \in Nat
           /\ r.point \in BOOLEAN /\ r.digit \in BOOLEAN /\ r.leading \in Nat
           /\ r.scale \in 0 .. r.leading + r.scale
BY Powers DEF Readers

LEMMA BodyIs ==
    ASSUME NEW n \in 0 .. UMax, NEW m \in Nat, NEW scale \in 0 .. m, NEW point \in BOOLEAN
    PROVE  Body(n, m, scale, point) \in Seq(0 .. 12)
<1>1. Whole(n, m) \in Seq(0 .. 12)
  BY WholeIs, SeqMonotonic
<1>2. Pointed(n, m, scale) \in Seq(0 .. 12)
  BY PointedIs, SeqMonotonic
<1> QED
  BY <1>1, <1>2 DEF Body

LEMMA ReadDigitIs ==
    ASSUME NEW r \in Readers, r.error = "none", NEW d \in 0 .. 9, ReadDigit(r, d).error = "none"
    PROVE  LET z == ReadDigit(r, d) IN
           /\ 10 * r.inner + d <= UMax
           /\ ~(~r.point /\ r.leading = 1 /\ r.inner = 0)
           /\ ~(r.point /\ r.scale = MaxScale)
           /\ z.error = "none" /\ z.negative = r.negative /\ z.point = r.point /\ z.digit = TRUE
           /\ z.inner = 10 * r.inner + d
           /\ z.scale = IF r.point THEN r.scale + 1 ELSE r.scale
           /\ z.leading = IF r.point THEN r.leading ELSE r.leading + 1
<1> DEFINE tens == CheckedMul(r.inner, 10)
<1> DEFINE sum == CheckedAdd(tens.value, d)
<1> DEFINE z == [r EXCEPT !.digit = TRUE, !.inner = sum.value,
                          !.scale = IF r.point THEN r.scale + 1 ELSE r.scale,
                          !.leading = IF r.point THEN r.leading ELSE r.leading + 1]
<1>1. r.inner \in Nat /\ d \in Nat /\ UMax \in Nat
  BY ReaderParts, Powers
<1>2. \A e : Fail(r, e).error = e
  BY DEF Fail, Readers
<1>3. /\ ~(~r.point /\ r.leading = 1 /\ r.inner = 0)
      /\ tens.ok /\ sum.ok
      /\ ~(r.point /\ r.scale = MaxScale)
      /\ ReadDigit(r, d) = z
  <2> DEFINE a == ~r.point /\ r.leading = 1 /\ r.inner = 0
  <2> DEFINE b == ~tens.ok \/ ~sum.ok
  <2> DEFINE c == r.point /\ r.scale = MaxScale
  <2>1. ReadDigit(r, d) = IF a THEN Fail(r, "InvalidFormat") ELSE IF b THEN Fail(r, "Overflow")
                          ELSE IF c THEN Fail(r, "ScaleOverflow") ELSE z
    BY Zenon DEF ReadDigit
  <2>2. Fail(r, "InvalidFormat").error # "none" /\ Fail(r, "Overflow").error # "none"
        /\ Fail(r, "ScaleOverflow").error # "none"
    BY <1>2
  <2> HIDE DEF z
  <2>3. ~a /\ ~b /\ ~c /\ ReadDigit(r, d) = z
    BY <2>1, <2>2, Zenon
  <2> QED
    BY <2>3, Zenon
<1>4. tens.value = r.inner * 10
  BY <1>1, <1>3, CheckedMulIs
<1>5. tens.value \in Nat
  BY <1>1, <1>4
<1>6. tens.value + d <= UMax
  BY <1>1, <1>3, <1>5, CheckedAddIs
<1>7. sum.value = tens.value + d
  <2>1. sum = Ok(tens.value + d)
    BY <1>1, <1>5, <1>6 DEF CheckedAdd
  <2> QED
    BY <2>1 DEF Ok
<1>8. tens.value + d = 10 * r.inner + d
  BY <1>1, <1>4
<1> HIDE DEF tens, sum
<1>9. /\ z.error = "none" /\ z.negative = r.negative /\ z.point = r.point /\ z.digit = TRUE
      /\ z.inner = sum.value
      /\ z.scale = IF r.point THEN r.scale + 1 ELSE r.scale
      /\ z.leading = IF r.point THEN r.leading ELSE r.leading + 1
  BY DEF Readers
<1> HIDE DEF z
<1> QED
  BY <1>3, <1>6, <1>7, <1>8, <1>9

LEMMA ReadPointIs ==
    ASSUME NEW r \in Readers, r.error = "none", ReadPoint(r).error = "none"
    PROVE  LET z == ReadPoint(r) IN
           /\ ~r.point
           /\ z.error = "none" /\ z.negative = r.negative /\ z.point /\ z.digit = r.digit
           /\ z.inner = r.inner /\ z.scale = r.scale /\ z.leading = r.leading
<1>1. Fail(r, "InvalidFormat").error = "InvalidFormat"
  BY DEF Fail, Readers
<1>2. ~r.point /\ ReadPoint(r) = [r EXCEPT !.point = TRUE]
  BY <1>1 DEF ReadPoint
<1> QED
  BY <1>2 DEF Readers

\* A character that is accepted is one more character of the text.
LEMMA ReadFollows ==
    ASSUME NEW r \in Readers, NEW t, Follows(r, t), NEW c \in Chars, ReadChar(r, c).error = "none"
    PROVE  Follows(ReadChar(r, c), Append(t, c))
<1> DEFINE z == ReadChar(r, c)
<1> DEFINE n == r.leading + r.scale
<1>1. /\ r.error = "none"
      /\ n <= MaxScale + 1 /\ Prefix(r.inner, n) = 0
      /\ r.leading = 0 \/ (r.leading = 1 /\ Prefix(r.inner, n - 1) = 0) \/ Prefix(r.inner, n - 1) >= 1
      /\ ~r.point => r.scale = 0
      /\ r.digit <=> n > 0
      /\ t = Signed(r.negative, Body(r.inner, n, r.scale, r.point))
  BY Zenon DEF Follows
<1>2. /\ r.negative \in BOOLEAN /\ r.inner \in 0 .. UMax /\ r.inner \in Nat
      /\ r.scale \in 0 .. MaxScale /\ r.scale \in Nat
      /\ r.point \in BOOLEAN /\ r.digit \in BOOLEAN /\ r.leading \in Nat
      /\ n \in Nat /\ r.scale \in 0 .. n /\ MaxScale \in Nat /\ MaxScale >= 1
  BY ReaderParts, Powers
<1>3. Append(t, c) = Signed(r.negative, Append(Body(r.inner, n, r.scale, r.point), c))
  <2>1. Body(r.inner, n, r.scale, r.point) \in Seq(0 .. 12) /\ c \in 0 .. 12
    BY <1>2, BodyIs DEF Chars
  <2> QED
    BY <1>1, <1>2, <2>1, SignedAppend
<1>4. CASE c = Dot
  <2>1. z = ReadPoint(r)
    BY <1>1, <1>4 DEF ReadChar
  <2>2. /\ ~r.point
        /\ z.error = "none" /\ z.negative = r.negative /\ z.point /\ z.digit = r.digit
        /\ z.inner = r.inner /\ z.scale = r.scale /\ z.leading = r.leading
    BY <1>1, <2>1, ReadPointIs
  <2> HIDE DEF z
  <2>3. Append(Body(r.inner, n, r.scale, r.point), c) = Body(z.inner, n, z.scale, z.point)
    <3>1. Body(r.inner, n, r.scale, r.point) = Whole(r.inner, n)
      BY <2>2, Zenon DEF Body
    <3>2. Body(z.inner, n, z.scale, z.point) = Pointed(r.inner, n, 0)
      BY <1>1, <2>2, Zenon DEF Body
    <3> QED
      BY <1>2, <1>4, <3>1, <3>2, PointAppended DEF Dot
  <2>4. z.leading + z.scale = n /\ r.scale = 0 /\ (z.digit <=> n > 0)
    BY <1>1, <2>2, Zenon
  <2> HIDE DEF n
  <2>5. Follows(z, Append(t, c))
    BY <1>1, <1>3, <2>2, <2>3, <2>4, Zenon DEF Follows
  <2> QED
    BY <2>5 DEF z
<1>5. CASE c \in Digits /\ c # Dot
  <2>1. z = ReadDigit(r, c) /\ c \in 0 .. 9
    BY <1>1, <1>5 DEF ReadChar, Digits
  <2>2. /\ 10 * r.inner + c <= UMax
        /\ ~(~r.point /\ r.leading = 1 /\ r.inner = 0)
        /\ ~(r.point /\ r.scale = MaxScale)
        /\ z.error = "none" /\ z.negative = r.negative /\ z.point = r.point /\ z.digit = TRUE
        /\ z.inner = 10 * r.inner + c
        /\ z.scale = IF r.point THEN r.scale + 1 ELSE r.scale
        /\ z.leading = IF r.point THEN r.leading ELSE r.leading + 1
    <3>1. ReadDigit(r, c).error = "none"
      BY <2>1, Zenon
    <3> DEFINE y == ReadDigit(r, c)
    <3>2. /\ 10 * r.inner + c <= UMax
          /\ ~(~r.point /\ r.leading = 1 /\ r.inner = 0)
          /\ ~(r.point /\ r.scale = MaxScale)
          /\ y.error = "none" /\ y.negative = r.negative /\ y.point = r.point /\ y.digit = TRUE
          /\ y.inner = 10 * r.inner + c
          /\ y.scale = IF r.point THEN r.scale + 1 ELSE r.scale
          /\ y.leading = IF r.point THEN r.leading ELSE r.leading + 1
      BY <1>1, <2>1, <3>1, ReadDigitIs, Zenon
    <3>3. y = z
      BY <2>1
    <3> HIDE DEF y, z
    <3> QED
      BY <3>2, <3>3
  <2> HIDE DEF z
  <2>3. PICK o : o = 10 * r.inner + c
    OBVIOUS
  <2>4. /\ o \in 0 .. UMax /\ r.inner < Pow10[MaxScale]
        /\ \A j \in Nat : Prefix(o, j + 1) = Prefix(r.inner, j)
    BY <1>2, <2>1, <2>2, <2>3, PrefixGrows
  <2>5. z.leading + z.scale = n + 1 /\ z.inner = o
    BY <1>2, <2>2, <2>3
  <2>6. Prefix(o, n + 1) = 0
    BY <1>1, <1>2, <2>4
  <2>7. n >= 1 => Prefix(o, (n + 1) - 1) = Prefix(r.inner, n - 1)
    <3>1. n >= 1 => n - 1 \in Nat /\ (n - 1) + 1 = (n + 1) - 1
      BY <1>2
    <3> QED
      BY <2>4, <3>1
  <2>8. n + 1 <= MaxScale + 1
    <3> SUFFICES ASSUME n = MaxScale + 1 PROVE FALSE
      BY <1>1, <1>2
    <3>1. Prefix(r.inner, MaxScale) = 0
      <4>1. MaxScale \in 0 .. MaxScale
        BY <1>2
      <4>2. PICK p \in Nat : p = Pow10[MaxScale]
        BY <4>1, Powers
      <4>3. Prefix(r.inner, MaxScale) = r.inner \div p
        BY <1>2, <4>2 DEF Prefix
      <4> QED
        BY <1>2, <2>4, <4>2, <4>3
    <3>2. Prefix(r.inner, n - 1) = 0
      <4>1. n - 1 = MaxScale
        BY <1>2
      <4> QED
        BY <3>1, <4>1
    <3>3. r.leading = 0 \/ r.leading = 1
      BY <1>1, <3>2
    <3>4. r.scale = MaxScale
      BY <1>2, <3>3
    <3>5. r.point
      BY <1>1, <1>2, <3>4
    <3> QED
      BY <2>2, <3>4, <3>5
  <2>9. \/ z.leading = 0
        \/ z.leading = 1 /\ Prefix(o, (n + 1) - 1) = 0
        \/ Prefix(o, (n + 1) - 1) >= 1
    <3>0. Prefix(o, (n + 1) - 1) \in Nat
      <4>1. (n + 1) - 1 = n /\ Prefix(o, n) \in Nat
        BY <1>2, <2>4, PrefixIs
      <4> QED
        BY <4>1
    <3>1. CASE r.leading = 0 /\ ~r.point
      BY <1>2, <2>2, <3>0, <3>1
    <3>2. CASE r.leading = 0 /\ r.point
      BY <2>2, <3>2
    <3>3. CASE r.leading # 0
      <4>1. n >= 1
        BY <1>2, <3>3
      <4>2. CASE r.point
        BY <1>1, <2>2, <2>7, <3>3, <4>1, <4>2
      <4>3. CASE ~r.point
        <5>1. Prefix(r.inner, n - 1) >= 1
          <6> SUFFICES ASSUME ~(Prefix(r.inner, n - 1) >= 1) PROVE FALSE
            OBVIOUS
          <6>1. r.leading = 1 /\ Prefix(r.inner, n - 1) = 0
            BY <1>1, <3>3
          <6>2. r.scale = 0 /\ n - 1 = 0
            BY <1>1, <1>2, <4>3, <6>1
          <6>3. r.inner = 0
            BY <1>2, <6>1, <6>2, PrefixIs
          <6> QED
            BY <2>2, <4>3, <6>1, <6>3
        <5> QED
          BY <2>7, <4>1, <5>1
      <4> QED
        BY <4>2, <4>3
    <3> QED
      BY <3>1, <3>2, <3>3
  <2>10. Append(Body(r.inner, n, r.scale, r.point), c) = Body(z.inner, n + 1, z.scale, z.point)
    <3>1. CASE r.point
      <4>1. Append(Pointed(r.inner, n, r.scale), c) = Pointed(o, n + 1, r.scale + 1)
        BY <1>2, <2>1, <2>2, <2>3, DigitAppended
      <4> QED
        BY <2>2, <2>5, <3>1, <4>1, Zenon DEF Body
    <3>2. CASE ~r.point
      <4>1. Append(Whole(r.inner, n), c) = Whole(o, n + 1)
        BY <1>2, <2>1, <2>2, <2>3, DigitAppended
      <4> QED
        BY <2>2, <2>5, <3>2, <4>1, Zenon DEF Body
    <3> QED
      BY <3>1, <3>2
  <2>11. (z.digit <=> n + 1 > 0) /\ (~z.point => z.scale = 0)
    BY <1>1, <1>2, <2>2
  <2> HIDE DEF n
  <2>12. Follows(z, Append(t, c))
    BY <1>3, <2>2, <2>5, <2>6, <2>8, <2>9, <2>10, <2>11, Zenon DEF Follows
  <2> QED
    BY <2>12 DEF z
<1>6. CASE c \notin Digits /\ c # Dot
  <2>1. z = Fail(r, "InvalidFormat")
    BY <1>1, <1>6, Zenon DEF ReadChar
  <2>2. Fail(r, "InvalidFormat").error = "InvalidFormat"
    BY DEF Fail, Readers
  <2> QED
    BY <2>1, <2>2
<1> QED
  BY <1>4, <1>5, <1>6

LEMMA FollowsFromStart == Follows(Unread, <<>>) /\ Follows(Minused, <<Minus>>)
<1>1. 0 \in 0 .. UMax /\ MaxScale \in Nat
  BY Powers
<1>2. Prefix(0, 0) = 0 /\ 0 + 0 = 0 /\ 0 <= MaxScale + 1 /\ ~(0 > 0)
  BY <1>1, PrefixIs
<1>3. Whole(0, 0) = <<>>
  BY DEF Whole
<1>4. Signed(FALSE, <<>>) = <<>> /\ Signed(TRUE, <<>>) = <<Minus>>
  BY DEF Signed
<1>5. /\ Unread.error = "none" /\ Unread.negative = FALSE /\ Unread.inner = 0 /\ Unread.scale = 0
      /\ Unread.point = FALSE /\ Unread.digit = FALSE /\ Unread.leading = 0
  BY DEF Unread
<1>6. /\ Minused.error = "none" /\ Minused.negative = TRUE /\ Minused.inner = 0 /\ Minused.scale = 0
      /\ Minused.point = FALSE /\ Minused.digit = FALSE /\ Minused.leading = 0
  BY DEF Minused, Unread
<1>7. Body(0, 0, 0, FALSE) = <<>>
  BY <1>3 DEF Body
<1>8. Follows(Unread, <<>>)
  BY <1>2, <1>4, <1>5, <1>7, Zenon DEF Follows
<1>9. Follows(Minused, <<Minus>>)
  BY <1>2, <1>4, <1>6, <1>7, Zenon DEF Follows
<1> QED
  BY <1>8, <1>9

LEMMA AlwaysFollows == Spec => []Follows(reader, typed)
<1>1. Init => Follows(reader, typed)
  BY FollowsFromStart DEF Init
<1>2. Inv /\ Follows(reader, typed) /\ [Next]_vars => Follows(reader, typed)'
  <2> SUFFICES ASSUME Inv, Follows(reader, typed), [Next]_vars PROVE Follows(reader, typed)'
    OBVIOUS
  <2>1. ASSUME reader' = Unread, typed' = <<>> PROVE Follows(reader, typed)'
    BY <2>1, FollowsFromStart, Zenon DEF Follows
  <2>2. ASSUME UNCHANGED <<reader, typed>> PROVE Follows(reader, typed)'
    BY <2>2, Zenon DEF Follows
  <2>3. CASE ReadSign
    <3>1. reader' = Minused /\ typed' = <<Minus>>
      BY <2>3 DEF ReadSign
    <3> QED
      BY <3>1, FollowsFromStart, Zenon DEF Follows
  <2>4. ASSUME NEW c \in TypedChars, ReadNext(c) PROVE Follows(reader, typed)'
    <3>1. reader \in Readers /\ c \in Chars
      BY OperandsAssumption DEF Inv
    <3>2. CASE ReadChar(reader, c).error = "none"
      <4>1. reader' = ReadChar(reader, c) /\ typed' = Append(typed, c)
        BY <2>4, <3>2, Zenon DEF ReadNext
      <4>2. Follows(ReadChar(reader, c), Append(typed, c))
        BY <3>1, <3>2, ReadFollows
      <4> QED
        BY <4>1, <4>2, Zenon DEF Follows
    <3>3. CASE ReadChar(reader, c).error # "none"
      BY <2>1, <2>4, <3>3, Zenon DEF ReadNext
    <3> QED
      BY <3>2, <3>3
  <2>5. CASE EndRead
    BY <2>1, <2>5 DEF EndRead
  <2>6. CASE Change \/ (\E y \in Operands : StartDiv(y)) \/ DivDigit \/ EndDiv \/ UNCHANGED vars
    BY <2>2, <2>6, Zenon DEF Change, StartDiv, DivDigit, EndDiv, vars
  <2> QED
    BY <2>3, <2>4, <2>5, <2>6 DEF Next
<1> QED
  BY <1>1, <1>2, AlwaysInv, PTL DEF Spec

LEMMA InsertAtIs ==
    ASSUME NEW S, NEW t \in Seq(S), NEW i \in 1 .. Len(t), NEW e \in S
    PROVE  /\ InsertAt(t, i, e) \in Seq(S) /\ Len(InsertAt(t, i, e)) = Len(t) + 1
           /\ \A k \in 1 .. Len(t) + 1 :
                InsertAt(t, i, e)[k] = IF k < i THEN t[k] ELSE IF k = i THEN e ELSE t[k - 1]
<1>1. PICK l \in Nat : l = Len(t)
  BY LenProperties
<1>2. \A k \in 1 .. l : t[k] \in S
  BY <1>1, ElementOfSeq
<1>3. i \in Int /\ i >= 1 /\ i <= l /\ i - 1 \in Int
  BY <1>1
<1> DEFINE a == SubSeq(t, 1, i - 1)
<1> DEFINE b == SubSeq(t, i, l)
<1>4. a \in Seq(S) /\ Len(a) = i - 1 /\ \A k \in 1 .. i - 1 : a[k] = t[k]
  <2>1. \A k \in 1 .. i - 1 : t[k] \in S
    BY <1>2, <1>3
  <2>2. /\ a \in Seq(S) /\ Len(a) = (IF 1 <= i - 1 THEN ((i - 1) - 1) + 1 ELSE 0)
        /\ \A k \in 1 .. ((i - 1) - 1) + 1 : a[k] = t[(1 + k) - 1]
    BY <1>3, <2>1, SubSeqProperties
  <2> HIDE DEF a
  <2>3. ((i - 1) - 1) + 1 = i - 1 /\ \A k \in 1 .. i - 1 : (1 + k) - 1 = k
    BY <1>3
  <2>4. (IF 1 <= i - 1 THEN ((i - 1) - 1) + 1 ELSE 0) = i - 1
    BY <1>3
  <2> QED
    BY <2>2, <2>3, <2>4
<1>5. b \in Seq(S) /\ Len(b) = (l - i) + 1 /\ \A k \in 1 .. (l - i) + 1 : b[k] = t[(i + k) - 1]
  <2>1. \A k \in i .. l : t[k] \in S
    BY <1>2, <1>3
  <2>2. /\ b \in Seq(S) /\ Len(b) = (IF i <= l THEN (l - i) + 1 ELSE 0)
        /\ \A k \in 1 .. (l - i) + 1 : b[k] = t[(i + k) - 1]
    BY <1>3, <2>1, SubSeqProperties
  <2> QED
    BY <1>3, <2>2
<1>6. InsertAt(t, i, e) = a \o <<e>> \o b
  BY <1>1, Zenon DEF InsertAt
<1> HIDE DEF a, b
<1>7. <<e>> \in Seq(S) /\ Len(<<e>>) = 1 /\ <<e>>[1] = e
  OBVIOUS
<1> DEFINE u == a \o <<e>>
<1>8. u \in Seq(S) /\ Len(u) = i /\ \A k \in 1 .. i : u[k] = IF k < i THEN t[k] ELSE e
  <2>1. /\ u \in Seq(S) /\ Len(u) = (i - 1) + 1
        /\ \A k \in 1 .. (i - 1) + 1 : u[k] = IF k <= i - 1 THEN a[k] ELSE <<e>>[k - (i - 1)]
    BY <1>4, <1>7, ConcatProperties
  <2> HIDE DEF u
  <2>2. (i - 1) + 1 = i
    BY <1>3
  <2>3. ASSUME NEW k \in 1 .. i PROVE u[k] = IF k < i THEN t[k] ELSE e
    <3>1. CASE k < i
      BY <1>3, <1>4, <2>1, <2>2, <3>1
    <3>2. CASE k = i
      <4>1. ~(k <= i - 1) /\ k - (i - 1) = 1 /\ ~(k < i)
        BY <1>3, <3>2
      <4>2. u[k] = <<e>>[k - (i - 1)]
        BY <2>1, <2>2, <4>1
      <4>3. u[k] = <<e>>[1]
        BY <4>1, <4>2, Zenon
      <4>4. u[k] = e
        BY <1>7, <4>3, Zenon
      <4> QED
        BY <4>1, <4>4, Zenon
    <3> QED
      BY <1>3, <3>1, <3>2
  <2> QED
    BY <2>1, <2>2, <2>3
<1> HIDE DEF u
<1> DEFINE v == u \o b
<1>9. /\ v \in Seq(S) /\ Len(v) = l + 1
      /\ \A k \in 1 .. l + 1 : v[k] = IF k < i THEN t[k] ELSE IF k = i THEN e ELSE t[k - 1]
  <2>1. PICK o \in Nat : o = (l - i) + 1
    BY <1>3
  <2>a. PICK j \in Nat : j = i
    BY <1>3
  <2>b. u \in Seq(S) /\ Len(u) = j /\ b \in Seq(S) /\ Len(b) = o
    BY <1>5, <1>8, <2>1, <2>a
  <2>c. /\ (u \o b) \in Seq(S) /\ Len(u \o b) = j + o
        /\ \A k \in 1 .. j + o : (u \o b)[k] = IF k <= j THEN u[k] ELSE b[k - j]
    BY <2>b, ConcatProperties
  <2>2. /\ v \in Seq(S) /\ Len(v) = i + o
        /\ \A k \in 1 .. i + o : v[k] = IF k <= i THEN u[k] ELSE b[k - i]
    BY <2>a, <2>c
  <2> HIDE DEF v
  <2>3. i + o = l + 1
    BY <1>3, <2>1
  <2>4. ASSUME NEW k \in 1 .. l + 1
        PROVE  v[k] = IF k < i THEN t[k] ELSE IF k = i THEN e ELSE t[k - 1]
    <3>1. CASE k <= i
      BY <1>3, <1>8, <2>2, <2>3, <3>1
    <3>2. CASE k > i
      <4>1. k - i \in 1 .. (l - i) + 1 /\ (i + (k - i)) - 1 = k - 1
        BY <1>3, <3>2
      <4>2. v[k] = b[k - i]
        BY <1>3, <2>2, <2>3, <3>2
      <4>3. b[k - i] = t[k - 1]
        BY <1>5, <4>1
      <4> QED
        BY <1>3, <3>2, <4>2, <4>3
    <3> QED
      BY <1>3, <3>1, <3>2
  <2> QED
    BY <2>2, <2>3, <2>4
<1>10. InsertAt(t, i, e) = v
  BY <1>6 DEF u, v
<1> HIDE DEF v
<1> QED
  BY <1>1, <1>9, <1>10

LEMMA Prepended ==
    ASSUME NEW S, NEW e \in S, NEW p \in Seq(S), NEW l \in Nat, Len(p) = l
    PROVE  LET t == <<e>> \o p IN
           t \in Seq(S) /\ Len(t) = l + 1 /\ t[1] = e /\ \A k \in 1 .. l : t[k + 1] = p[k]
<1> DEFINE m == <<e>>
<1>1. PICK o \in Nat : o = 1
  OBVIOUS
<1>2. m \in Seq(S) /\ Len(m) = o /\ m[1] = e
  BY <1>1
<1> HIDE DEF m
<1>3. /\ (m \o p) \in Seq(S) /\ Len(m \o p) = o + l
      /\ \A k \in 1 .. o + l : (m \o p)[k] = IF k <= o THEN m[k] ELSE p[k - o]
  BY <1>2, ConcatProperties
<1> DEFINE t == m \o p
<1> HIDE DEF t
<1>4. t \in Seq(S) /\ Len(t) = l + 1 /\ t[1] = e /\ \A k \in 1 .. l : t[k + 1] = p[k]
  <2>1. /\ t \in Seq(S) /\ Len(t) = o + l
        /\ \A k \in 1 .. o + l : t[k] = IF k <= o THEN m[k] ELSE p[k - o]
    BY <1>3 DEF t
  <2>2. t[1] = e
    BY <1>1, <1>2, <2>1
  <2>3. ASSUME NEW k \in 1 .. l PROVE t[k + 1] = p[k]
    <3>1. k + 1 \in 1 .. o + l /\ ~(k + 1 <= o) /\ (k + 1) - o = k
      BY <1>1
    <3> QED
      BY <2>1, <3>1
  <2> QED
    BY <1>1, <2>1, <2>2, <2>3
<1> QED
  BY <1>4 DEF t, m

\* A 0 is written before the point where none was typed.
LEMMA MissingZero ==
    ASSUME NEW n \in 0 .. UMax, NEW scale \in Nat, Prefix(n, scale) = 0, NEW negative \in BOOLEAN
    PROVE  LET t == Signed(negative, Pointed(n, scale, scale))
               point == IF Head(t) = Minus THEN 2 ELSE 1
           IN  /\ t[point] = Dot
               /\ Signed(negative, Pointed(n, scale + 1, scale)) = InsertAt(t, point, 0)
<1> DEFINE p == Pointed(n, scale, scale)
<1> DEFINE q == Pointed(n, scale + 1, scale)
<1> DEFINE t == Signed(negative, p)
<1> DEFINE z == Signed(negative, q)
<1>1. /\ p \in Seq(0 .. 10) /\ Len(p) = scale + 1
      /\ \A k \in 1 .. scale + 1 : p[k] = IF k = 1 THEN 10 ELSE Prefix(n, scale - (k - 1)) % 10
  <2>1. scale \in 0 .. scale /\ scale - scale = 0 /\ (scale - scale) + 1 = 1
    OBVIOUS
  <2> QED
    BY <2>1, PointedIs
<1>2. /\ q \in Seq(0 .. 10) /\ Len(q) = (scale + 1) + 1
      /\ \A k \in 1 .. (scale + 1) + 1 :
            q[k] = IF k = 1 THEN 0 ELSE IF k = 2 THEN 10 ELSE Prefix(n, (scale + 1) - (k - 1)) % 10
  <2>1. scale \in 0 .. scale + 1 /\ (scale + 1) - scale = 1 /\ ((scale + 1) - scale) + 1 = 2 /\ scale + 1 \in Nat
    OBVIOUS
  <2>2. /\ q \in Seq(0 .. 10) /\ Len(q) = (scale + 1) + 1
        /\ \A k \in 1 .. (scale + 1) + 1 :
              q[k] = IF k <= (scale + 1) - scale THEN Prefix(n, (scale + 1) - k) % 10
                     ELSE IF k = ((scale + 1) - scale) + 1 THEN 10
                     ELSE Prefix(n, (scale + 1) - (k - 1)) % 10
    BY <2>1, PointedIs
  <2> HIDE DEF q
  <2>3. (scale + 1) - 1 = scale /\ 0 % 10 = 0
    OBVIOUS
  <2>4. q[1] = 0
    BY <2>1, <2>2, <2>3
  <2> QED
    BY <2>1, <2>2, <2>4
<1> HIDE DEF p, q
<1>3. p[1] = 10 /\ q[1] = 0
  BY <1>1, <1>2
<1>4. ASSUME NEW k \in 1 .. scale + 1 PROVE q[k + 1] = p[k]
  <2>1. k + 1 \in 1 .. (scale + 1) + 1 /\ k + 1 # 1
    OBVIOUS
  <2>2. CASE k = 1
    BY <1>1, <1>2, <2>1, <2>2
  <2>3. CASE k # 1
    <3>1. k + 1 # 2 /\ (scale + 1) - ((k + 1) - 1) = scale - (k - 1)
      BY <2>3
    <3> QED
      BY <1>1, <1>2, <2>1, <2>3, <3>1
  <2> QED
    BY <2>2, <2>3
<1>5. p \in Seq(0 .. 12) /\ q \in Seq(0 .. 12)
  BY <1>1, <1>2, SeqMonotonic
<1>6. CASE negative
  <2>2. t = <<11>> \o p /\ z = <<11>> \o q
    BY <1>6, Zenon DEF Signed, Minus
  <2> HIDE DEF t, z
  <2>1. 11 \in 0 .. 12
    OBVIOUS
  <2>3. t \in Seq(0 .. 12) /\ Len(t) = (scale + 1) + 1 /\ t[1] = 11 /\ \A k \in 1 .. scale + 1 : t[k + 1] = p[k]
    <3>1. PICK l \in Nat : l = scale + 1
      OBVIOUS
    <3>2. PICK S : S = 0 .. 12
      OBVIOUS
    <3>3. PICK e \in S : e = 11
      BY <3>2
    <3>4. p \in Seq(S) /\ Len(p) = l
      BY <1>1, <1>5, <3>1, <3>2
    <3> DEFINE y == <<e>> \o p
    <3>5. y \in Seq(S) /\ Len(y) = l + 1 /\ y[1] = e /\ \A k \in 1 .. l : y[k + 1] = p[k]
      BY <3>4, Prepended
    <3>6. y = t
      BY <2>2, <3>3, Zenon
    <3> HIDE DEF y
    <3> QED
      BY <3>1, <3>2, <3>3, <3>5, <3>6, Zenon
  <2>4. /\ z \in Seq(0 .. 12) /\ Len(z) = ((scale + 1) + 1) + 1 /\ z[1] = 11
        /\ \A k \in 1 .. (scale + 1) + 1 : z[k + 1] = q[k]
    <3>1. PICK l \in Nat : l = (scale + 1) + 1
      OBVIOUS
    <3>2. PICK S : S = 0 .. 12
      OBVIOUS
    <3>3. PICK e \in S : e = 11
      BY <3>2
    <3>4. q \in Seq(S) /\ Len(q) = l
      BY <1>2, <1>5, <3>1, <3>2
    <3> DEFINE y == <<e>> \o q
    <3>5. y \in Seq(S) /\ Len(y) = l + 1 /\ y[1] = e /\ \A k \in 1 .. l : y[k + 1] = q[k]
      BY <3>4, Prepended
    <3>6. y = z
      BY <2>2, <3>3, Zenon
    <3> HIDE DEF y
    <3> QED
      BY <3>1, <3>2, <3>3, <3>5, <3>6, Zenon
  <2>5. t[1] = 11 /\ t[2] = 10
    <3>1. 1 \in 1 .. scale + 1 /\ 1 + 1 = 2
      OBVIOUS
    <3> QED
      BY <1>3, <2>3, <3>1
  <2>6. Head(t) = 11
    BY <2>3, <2>5
  <2>7. 2 \in 1 .. Len(t) /\ 0 \in 0 .. 12
    BY <2>3
  <2> DEFINE i == InsertAt(t, 2, 0)
  <2>8. /\ i \in Seq(0 .. 12) /\ Len(i) = Len(t) + 1
        /\ \A k \in 1 .. Len(t) + 1 : i[k] = IF k < 2 THEN t[k] ELSE IF k = 2 THEN 0 ELSE t[k - 1]
    <3>1. PICK S : S = 0 .. 12
      OBVIOUS
    <3>2. PICK h \in 1 .. Len(t), e \in S : h = 2 /\ e = 0
      BY <2>3, <2>7, <3>1
    <3>3. t \in Seq(S)
      BY <2>3, <2>7, <3>1
    <3>4. /\ InsertAt(t, h, e) \in Seq(S) /\ Len(InsertAt(t, h, e)) = Len(t) + 1
          /\ \A k \in 1 .. Len(t) + 1 :
                InsertAt(t, h, e)[k] = IF k < h THEN t[k] ELSE IF k = h THEN e ELSE t[k - 1]
      BY <3>3, InsertAtIs
    <3>5. InsertAt(t, h, e) = i
      BY <3>2, Zenon
    <3> QED
      BY <3>1, <3>2, <3>4, <3>5, Zenon
  <2> HIDE DEF i
  <2>9. Len(i) = Len(z) /\ Len(z) = scale + 3
    BY <2>3, <2>4, <2>8
  <2>10. ASSUME NEW k \in 1 .. scale + 3 PROVE z[k] = i[k]
    <3>1. CASE k = 1
      BY <2>3, <2>4, <2>8, <3>1
    <3>2. CASE k = 2
      <4>1. 1 \in 1 .. (scale + 1) + 1 /\ 1 + 1 = 2
        OBVIOUS
      <4>2. z[2] = 0
        BY <1>3, <2>4, <4>1
      <4> QED
        BY <2>3, <2>8, <3>2, <4>2
    <3>3. CASE k >= 3
      <4>1. /\ k - 1 \in 1 .. (scale + 1) + 1 /\ (k - 1) - 1 \in 1 .. scale + 1
            /\ (k - 1) + 1 = k /\ ((k - 1) - 1) + 1 = k - 1
        BY <3>3
      <4>2. i[k] = t[k - 1]
        BY <2>3, <2>8, <3>3
      <4>3. t[k - 1] = p[(k - 1) - 1]
        BY <2>3, <4>1
      <4>4. z[k] = q[k - 1]
        BY <2>4, <4>1
      <4>5. q[k - 1] = p[(k - 1) - 1]
        BY <1>4, <4>1
      <4> QED
        BY <4>2, <4>3, <4>4, <4>5
    <3> QED
      BY <3>1, <3>2, <3>3
  <2>11. z = i
    <3>1. \A k \in 1 .. Len(z) : z[k] = i[k]
      BY <2>9, <2>10
    <3>2. PICK S : S = 0 .. 12
      OBVIOUS
    <3>3. z \in Seq(S) /\ i \in Seq(S) /\ Len(z) = Len(i)
      BY <2>4, <2>8, <2>9, <3>2, Zenon
    <3> QED
      BY <3>1, <3>3, SeqEqual
  <2> QED
    BY <2>5, <2>6, <2>11 DEF Minus, Dot, i, t, z, p, q
<1>7. CASE ~negative
  <2>1. t = p /\ z = q
    BY <1>7, Zenon DEF Signed
  <2> HIDE DEF t, z
  <2>2. Head(t) = 10 /\ t[1] = 10
    BY <1>1, <1>3, <2>1
  <2>3. 1 \in 1 .. Len(t) /\ 0 \in 0 .. 12
    BY <1>1, <2>1
  <2> DEFINE i == InsertAt(t, 1, 0)
  <2>4. /\ i \in Seq(0 .. 12) /\ Len(i) = Len(t) + 1
        /\ \A k \in 1 .. Len(t) + 1 : i[k] = IF k < 1 THEN t[k] ELSE IF k = 1 THEN 0 ELSE t[k - 1]
    <3>1. PICK S : S = 0 .. 12
      OBVIOUS
    <3>2. PICK h \in 1 .. Len(t), e \in S : h = 1 /\ e = 0
      BY <1>5, <2>1, <2>3, <3>1
    <3>3. t \in Seq(S)
      BY <1>5, <2>1, <2>3, <3>1
    <3>4. /\ InsertAt(t, h, e) \in Seq(S) /\ Len(InsertAt(t, h, e)) = Len(t) + 1
          /\ \A k \in 1 .. Len(t) + 1 :
                InsertAt(t, h, e)[k] = IF k < h THEN t[k] ELSE IF k = h THEN e ELSE t[k - 1]
      BY <3>3, InsertAtIs
    <3>5. InsertAt(t, h, e) = i
      BY <3>2, Zenon
    <3> QED
      BY <3>1, <3>2, <3>4, <3>5, Zenon
  <2> HIDE DEF i
  <2>5. Len(i) = Len(z) /\ Len(z) = (scale + 1) + 1
    BY <1>1, <1>2, <2>1, <2>4
  <2>6. ASSUME NEW k \in 1 .. (scale + 1) + 1 PROVE z[k] = i[k]
    <3>1. CASE k = 1
      BY <1>1, <1>3, <2>1, <2>4, <3>1
    <3>2. CASE k >= 2
      <4>1. k - 1 \in 1 .. scale + 1 /\ (k - 1) + 1 = k
        BY <3>2
      <4>2. i[k] = t[k - 1]
        BY <1>1, <2>1, <2>4, <3>2
      <4>3. q[k] = p[k - 1]
        BY <1>4, <4>1
      <4> QED
        BY <2>1, <4>2, <4>3
    <3> QED
      BY <3>1, <3>2
  <2>7. z = i
    BY <1>5, <2>1, <2>4, <2>5, <2>6, SeqEqual
  <2> QED
    BY <2>2, <2>7 DEF Minus, Dot, i, t, z, p, q
<1> QED
  BY <1>6, <1>7

LEMMA ReadsBack ==
    ASSUME NEW r \in Readers, NEW t, Follows(r, t), ReadEnd(r).ok
    PROVE  LET x == ReadEnd(r).value
               point == IF Head(t) = Minus THEN 2 ELSE 1
           IN  \/ x = Zero
               \/ Display(x) = t
               \/ t[point] = Dot /\ Display(x) = InsertAt(t, point, 0)
<1> DEFINE n == r.leading + r.scale
<1> DEFINE sign == IF r.negative THEN -1 ELSE 1
<1> DEFINE x == ReadEnd(r).value
<1> DEFINE m == Width(r.inner, r.scale)
<1>1. /\ r.error = "none"
      /\ n <= MaxScale + 1 /\ Prefix(r.inner, n) = 0
      /\ r.leading = 0 \/ (r.leading = 1 /\ Prefix(r.inner, n - 1) = 0) \/ Prefix(r.inner, n - 1) >= 1
      /\ ~r.point => r.scale = 0
      /\ r.digit <=> n > 0
      /\ t = Signed(r.negative, Body(r.inner, n, r.scale, r.point))
  BY Zenon DEF Follows
<1>2. /\ r.negative \in BOOLEAN /\ r.inner \in 0 .. UMax /\ r.inner \in Nat
      /\ r.scale \in 0 .. MaxScale /\ r.scale \in Nat
      /\ r.point \in BOOLEAN /\ r.digit \in BOOLEAN /\ r.leading \in Nat
      /\ n \in Nat /\ r.scale \in 0 .. n /\ MaxScale \in Nat /\ MaxScale >= 1 /\ UMax \in Nat
  BY ReaderParts, Powers
<1>3. /\ r.digit /\ ~(r.point /\ r.scale = 0)
      /\ ReadEnd(r) = FromRaw(r.inner, r.scale, sign)
  <2>1. \A e : Err(e).ok = FALSE
    BY DEF Err
  <2>2. ReadEnd(r) = IF ~r.digit \/ (r.point /\ r.scale = 0) \/ (r.inner = 0 /\ r.negative)
                       THEN Err("InvalidFormat") ELSE FromRaw(r.inner, r.scale, sign)
    BY <1>1, Zenon DEF ReadEnd
  <2> HIDE DEF sign
  <2> QED
    BY <2>1, <2>2, Zenon
<1>4. sign \in {-1, 1} /\ sign # 0 /\ (sign = -1 <=> r.negative)
  BY <1>2
<1> HIDE DEF sign
<1>5. CASE r.inner = 0
  <2>1. FromRaw(r.inner, r.scale, sign) = Ok(Zero)
    BY <1>2, <1>4, <1>5 DEF FromRaw
  <2>2. x = Zero
    BY <1>3, <2>1, OkIs
  <2> QED
    BY <2>2, Zenon
<1>6. CASE r.inner # 0
  <2>1. r.inner \in 1 .. UMax /\ ~(r.scale > MaxScale)
    BY <1>2, <1>6
  <2>2. FromRaw(r.inner, r.scale, sign) = Ok([inner |-> r.inner, scale |-> r.scale, sign |-> sign])
    BY <1>4, <1>6, <2>1 DEF FromRaw
  <2>3. x = [inner |-> r.inner, scale |-> r.scale, sign |-> sign]
    BY <1>3, <2>2, OkIs
  <2> HIDE DEF x
  <2>4. x \in Decimals /\ x.inner = r.inner /\ x.scale = r.scale /\ x.sign = sign
    BY <1>2, <1>4, <2>1, <2>3 DEF Decimals
  <2>5. Display(x) = Signed(x.sign = -1, Body(x.inner, Width(x.inner, x.scale), x.scale, x.scale > 0))
    BY <1>4, <2>4, DisplayIs
  <2>6. Display(x) = Signed(r.negative, Body(r.inner, m, r.scale, r.scale > 0))
    BY <1>4, <2>4, <2>5, Zenon DEF Signed
  <2>7. Body(r.inner, m, r.scale, r.scale > 0) = Body(r.inner, m, r.scale, r.point)
    <3>1. r.point <=> r.scale > 0
      BY <1>1, <1>2, <1>3
    <3> QED
      BY <3>1, Zenon DEF Body
  <2>8. /\ m \in 1 .. MaxScale + 1 /\ m \in Nat /\ r.scale + 1 <= m
        /\ \A l \in Nat : l >= 1 /\ Prefix(r.inner, l) = 0 /\ Prefix(r.inner, l - 1) >= 1 /\ l > r.scale => m = l
        /\ Prefix(r.inner, r.scale) = 0 => m = r.scale + 1
    BY <1>2, <2>1, WidthIs
  <2> HIDE DEF m
  <2>9. CASE r.leading # 0
    <3>1. n >= 1 /\ n > r.scale
      BY <1>2, <2>9
    <3>2. CASE Prefix(r.inner, n - 1) >= 1
      <4>1. m = n
        BY <1>1, <1>2, <2>8, <3>1, <3>2
      <4> QED
        BY <1>1, <2>6, <2>7, <4>1, Zenon DEF x
    <3>3. CASE r.leading = 1 /\ Prefix(r.inner, n - 1) = 0
      <4>1. n - 1 = r.scale /\ r.scale + 1 = n
        BY <1>2, <3>3
      <4>2. m = n
        BY <2>8, <3>3, <4>1
      <4> QED
        BY <1>1, <2>6, <2>7, <4>2, Zenon DEF x
    <3> QED
      BY <1>1, <2>9, <3>2, <3>3, Zenon
  <2>10. CASE r.leading = 0
    <3>1. n = r.scale /\ r.point
      BY <1>1, <1>2, <1>3, <2>10
    <3>2. m = r.scale + 1 /\ Prefix(r.inner, r.scale) = 0
      BY <1>1, <2>8, <3>1
    <3>3. t = Signed(r.negative, Pointed(r.inner, r.scale, r.scale))
      BY <1>1, <3>1, Zenon DEF Body
    <3>4. Display(x) = Signed(r.negative, Pointed(r.inner, r.scale + 1, r.scale))
      BY <2>6, <2>7, <3>1, <3>2, Zenon DEF Body
    <3> DEFINE point == IF Head(t) = Minus THEN 2 ELSE 1
    <3>5. t[point] = Dot /\ Display(x) = InsertAt(t, point, 0)
      <4> DEFINE s == Signed(r.negative, Pointed(r.inner, r.scale, r.scale))
      <4> DEFINE h == IF Head(s) = Minus THEN 2 ELSE 1
      <4>1. /\ s[h] = Dot
            /\ Signed(r.negative, Pointed(r.inner, r.scale + 1, r.scale)) = InsertAt(s, h, 0)
        BY <1>2, <3>2, MissingZero, Zenon
      <4> QED
        BY <3>3, <3>4, <4>1, Zenon
    <3> QED
      BY <3>5, Zenon DEF x
  <2> QED
    BY <2>9, <2>10
<1> QED
  BY <1>5, <1>6

\* What is read is written back as it was typed, for every text, width and scale.
THEOREM ReadingIsFaithful == Spec => []ReadsFaithfully
<1>1. Inv /\ Follows(reader, typed) => ReadsFaithfully
  <2>1. Inv => reader \in Readers
    BY DEF Inv
  <2> QED
    BY <2>1, ReadsBack, Zenon DEF ReadsFaithfully
<1> QED
  BY <1>1, AlwaysInv, AlwaysFollows, PTL

-----------------------------------------------------------------------------
\* The loop over a text. A fold is a function on the sets of places, so the characters
\* that are read are those at the first places.

Turn(b, s, g, T) == IF T = {} THEN b ELSE ReadChar(g[T \ {Max(T)}], s[Max(T)])
FoldsOver(b, s, n, g) == g = [T \in SUBSET (1 .. n) |-> Turn(b, s, g, T)]

LEMMA LastPlace ==
    ASSUME NEW n \in Nat, NEW T \in SUBSET (1 .. n + 1), n + 1 \in T
    PROVE  Max(T) = n + 1
<1>1. \A y \in T : n + 1 >= y
  OBVIOUS
<1>2. \E x \in T : \A y \in T : x >= y
  BY <1>1
<1>3. Max(T) \in T /\ \A y \in T : Max(T) >= y
  BY <1>2, Zenon DEF Max
<1>4. Max(T) \in 1 .. n + 1 /\ Max(T) >= n + 1
  BY <1>3
<1> QED
  BY <1>4

LEMMA FoldExists ==
    ASSUME NEW b, NEW s, NEW n \in Nat
    PROVE  \E g : FoldsOver(b, s, n, g)
<1> DEFINE Bad == {l \in Nat : ~ \E g : FoldsOver(b, s, l, g)}
<1> SUFFICES ASSUME Bad # {} PROVE FALSE
  OBVIOUS
<1>1. PICK l \in Bad : \A o \in Bad : l <= o
  BY LeastNumber
<1>2. CASE l = 0
  <2> DEFINE h == [T \in SUBSET (1 .. l) |-> b]
  <2>1. ASSUME NEW T \in SUBSET (1 .. l) PROVE Turn(b, s, h, T) = b
    <3>1. T = {}
      BY <1>2
    <3> QED
      BY <3>1, Zenon DEF Turn
  <2>2. h = [T \in SUBSET (1 .. l) |-> Turn(b, s, h, T)]
    BY <2>1, Zenon
  <2> HIDE DEF h
  <2>3. FoldsOver(b, s, l, h)
    BY <2>2, Zenon DEF FoldsOver
  <2> QED
    BY <1>1, <2>3
<1>3. CASE l # 0
  <2>1. PICK m \in Nat : l = m + 1
    <3>1. l - 1 \in Nat /\ l = (l - 1) + 1
      BY <1>1, <1>3
    <3> QED
      BY <3>1
  <2>2. m \notin Bad
    BY <1>1, <2>1
  <2>3. PICK g : FoldsOver(b, s, m, g)
    BY <2>2
  <2> DEFINE h == [T \in SUBSET (1 .. m + 1) |->
                     IF m + 1 \in T THEN ReadChar(g[T \ {m + 1}], s[m + 1]) ELSE g[T]]
  <2>4. ASSUME NEW T \in SUBSET (1 .. m) PROVE h[T] = g[T] /\ g[T] = Turn(b, s, g, T)
    <3>1. T \in SUBSET (1 .. m + 1) /\ m + 1 \notin T
      OBVIOUS
    <3>2. h[T] = g[T]
      BY <3>1, Zenon
    <3>3. g[T] = Turn(b, s, g, T)
      BY <2>3, Zenon DEF FoldsOver
    <3> QED
      BY <3>2, <3>3
  <2>5. ASSUME NEW T \in SUBSET (1 .. m + 1) PROVE h[T] = Turn(b, s, h, T)
    <3>1. CASE m + 1 \in T
      <4>1. Max(T) = m + 1 /\ T # {}
        BY <3>1, LastPlace
      <4>2. T \ {m + 1} \in SUBSET (1 .. m)
        OBVIOUS
      <4>3. h[T \ {m + 1}] = g[T \ {m + 1}]
        BY <2>4, <4>2
      <4>4. h[T] = ReadChar(g[T \ {m + 1}], s[m + 1])
        BY <3>1, Zenon
      <4> HIDE DEF h
      <4> QED
        BY <4>1, <4>3, <4>4, Zenon DEF Turn
    <3>2. CASE m + 1 \notin T
      <4>1. T \in SUBSET (1 .. m)
        BY <3>2
      <4>2. h[T] = Turn(b, s, g, T)
        BY <2>4, <4>1
      <4>3. T \ {Max(T)} \in SUBSET (1 .. m)
        BY <4>1
      <4>4. h[T \ {Max(T)}] = g[T \ {Max(T)}]
        BY <2>4, <4>3
      <4> HIDE DEF h
      <4> QED
        BY <4>2, <4>4, Zenon DEF Turn
    <3> QED
      BY <3>1, <3>2
  <2>6. h = [T \in SUBSET (1 .. m + 1) |-> h[T]]
    BY Zenon
  <2> HIDE DEF h
  <2>7. h = [T \in SUBSET (1 .. m + 1) |-> Turn(b, s, h, T)]
    BY <2>5, <2>6, Zenon
  <2>8. FoldsOver(b, s, l, h)
    BY <2>1, <2>7, Zenon DEF FoldsOver
  <2> QED
    BY <1>1, <2>8
<1> QED
  BY <1>2, <1>3

Loop(b, s) == FoldLeft(ReadChar, b, s)

LEMMA FromStrIs ==
    ASSUME NEW t
    PROVE  FromStr(t) = ReadEnd(IF t # <<>> /\ Head(t) = Minus THEN Loop(Minused, Tail(t))
                                ELSE Loop(Unread, t))
BY Zenon DEF FromStr, Loop

\* The reader before the first character is b, and after the last one what the loop returns.
Looped(b, s, n) ==
    \E r : /\ r[0] = b
           /\ \A i \in 0 .. n - 1 : r[i + 1] = ReadChar(r[i], s[i + 1])
           /\ Loop(b, s) = r[n]

LEMMA LoopIs ==
    ASSUME NEW b, NEW s, NEW n \in Nat, DOMAIN s = 1 .. n
    PROVE  Looped(b, s, n)
<1> DEFINE g == CHOOSE g : g = [T \in SUBSET (DOMAIN s) |->
                                 IF T = {} THEN b ELSE ReadChar(g[T \ {Max(T)}], s[Max(T)])]
<1>1. Loop(b, s) = g[DOMAIN s]
  BY Zenon DEF Loop, FoldLeft, MapThenFoldSet
<1>2. FoldsOver(b, s, n, g)
  <2>1. \E f : f = [T \in SUBSET (1 .. n) |->
                     IF T = {} THEN b ELSE ReadChar(f[T \ {Max(T)}], s[Max(T)])]
    <3>1. PICK f : FoldsOver(b, s, n, f)
      BY FoldExists
    <3>2. f = [T \in SUBSET (1 .. n) |->
                 IF T = {} THEN b ELSE ReadChar(f[T \ {Max(T)}], s[Max(T)])]
      BY <3>1, Zenon DEF FoldsOver, Turn
    <3> QED
      BY <3>2, Zenon
  <2>2. g = [T \in SUBSET (1 .. n) |->
              IF T = {} THEN b ELSE ReadChar(g[T \ {Max(T)}], s[Max(T)])]
    BY <2>1, Zenon
  <2> HIDE DEF g
  <2> QED
    BY <2>2, Zenon DEF FoldsOver, Turn
<1> HIDE DEF g
<1> DEFINE r == [i \in 0 .. n |-> g[1 .. i]]
<1>3. r[0] = b
  <2>1. 1 .. 0 = {} /\ 0 \in 0 .. n
    OBVIOUS
  <2>2. r[0] = g[{}]
    BY <2>1
  <2>3. {} \in SUBSET (1 .. n)
    OBVIOUS
  <2>4. g[{}] = Turn(b, s, g, {})
    BY <1>2, <2>3, Zenon DEF FoldsOver
  <2> QED
    BY <2>2, <2>4, Zenon DEF Turn
<1>4. ASSUME NEW i \in 0 .. n - 1 PROVE r[i + 1] = ReadChar(r[i], s[i + 1])
  <2>1. i \in Nat /\ i \in 0 .. n /\ i + 1 \in 0 .. n
    OBVIOUS
  <2> DEFINE T == 1 .. i + 1
  <2>2. T \in SUBSET (1 .. n) /\ T \in SUBSET (1 .. i + 1) /\ i + 1 \in T /\ T # {} /\ T \ {i + 1} = 1 .. i
    OBVIOUS
  <2>3. Max(T) = i + 1
    BY <2>1, <2>2, LastPlace
  <2>4. g[T] = Turn(b, s, g, T)
    BY <1>2, <2>2, Zenon DEF FoldsOver
  <2>5. g[T] = ReadChar(g[1 .. i], s[i + 1])
    BY <2>2, <2>3, <2>4, Zenon DEF Turn
  <2>6. r[i + 1] = g[T] /\ r[i] = g[1 .. i]
    BY <2>1, Zenon
  <2> HIDE DEF r
  <2> QED
    BY <2>5, <2>6, Zenon
<1>5. Loop(b, s) = r[n]
  <2>1. n \in 0 .. n
    OBVIOUS
  <2> QED
    BY <1>1, <2>1, Zenon
<1> QED
  BY <1>3, <1>4, <1>5, Zenon DEF Looped

-----------------------------------------------------------------------------
\* A written decimal is read back. The reader has the digits that it has seen.

BeforePoint(r, n, m, k) ==
    /\ r \in Readers /\ r.error = "none"
    /\ r.inner = Prefix(n, m - k) /\ r.scale = 0 /\ r.leading = k
    /\ ~r.point /\ (r.digit <=> k > 0)
BehindPoint(r, n, m, scale, k) ==
    /\ r \in Readers /\ r.error = "none"
    /\ r.inner = Prefix(n, m - k) /\ r.scale = k - (m - scale) /\ r.leading = m - scale
    /\ r.point /\ r.digit

LEMMA DigitIsRead ==
    ASSUME NEW r \in Readers, r.error = "none", NEW d \in 0 .. 9, 10 * r.inner + d <= UMax,
           ~(~r.point /\ r.leading = 1 /\ r.inner = 0), ~(r.point /\ r.scale = MaxScale)
    PROVE  ReadDigit(r, d).error = "none"
<1> DEFINE tens == CheckedMul(r.inner, 10)
<1> DEFINE sum == CheckedAdd(tens.value, d)
<1> DEFINE z == [r EXCEPT !.digit = TRUE, !.inner = sum.value,
                          !.scale = IF r.point THEN r.scale + 1 ELSE r.scale,
                          !.leading = IF r.point THEN r.leading ELSE r.leading + 1]
<1>1. PICK i \in Nat : i = r.inner
  BY ReaderParts
<1>2. UMax \in Nat /\ 10 * i + d <= UMax
  BY <1>1, Powers
<1>3. tens = Ok(i * 10)
  <2>1. i <= UMax \div 10
    BY <1>2
  <2> QED
    BY <1>1, <2>1 DEF CheckedMul
<1>4. tens.ok /\ tens.value = i * 10
  BY <1>3, OkIs
<1>5. sum = Ok(i * 10 + d)
  <2>1. i * 10 <= UMax - d
    BY <1>2
  <2> HIDE DEF tens
  <2> QED
    BY <1>4, <2>1 DEF CheckedAdd
<1>6. sum.ok
  BY <1>5, OkIs
<1>7. z.error = "none"
  BY DEF Readers
<1> HIDE DEF tens, sum
<1>8. ReadDigit(r, d) = z
  BY <1>4, <1>6, Zenon DEF ReadDigit, tens, sum
<1> QED
  BY <1>7, <1>8, Zenon

LEMMA ReadBeforePoint ==
    ASSUME NEW n \in 0 .. UMax, NEW m \in Nat, NEW k \in 0 .. m - 1, NEW r, BeforePoint(r, n, m, k),
           k = 1 => Prefix(n, m - 1) >= 1
    PROVE  LET z == ReadChar(r, Prefix(n, m - (k + 1)) % 10) IN
           BeforePoint(z, n, m, k + 1) /\ z.negative = r.negative
<1>1. PICK j \in Nat : j = m - (k + 1) /\ j + 1 = m - k
  BY m - (k + 1) \in Nat /\ (m - (k + 1)) + 1 = m - k
<1>2. PICK d \in 0 .. 9 : d = Prefix(n, j) % 10
  BY PrefixIs
<1>3. /\ r \in Readers /\ r.error = "none"
      /\ r.inner = Prefix(n, j + 1) /\ r.scale = 0 /\ r.leading = k
      /\ ~r.point
  BY <1>1, Zenon DEF BeforePoint
<1>4. n \in Nat /\ n <= UMax /\ UMax \in Nat /\ r.inner \in Nat
  BY <1>3, Powers, ReaderParts
<1>5. 10 * r.inner + d = Prefix(n, j) /\ Prefix(n, j) <= n
  BY <1>2, <1>3, PrefixIs
<1>6. 10 * r.inner + d <= UMax
  BY <1>4, <1>5
<1>7. ~(~r.point /\ r.leading = 1 /\ r.inner = 0)
  <2> SUFFICES ASSUME k = 1 PROVE r.inner # 0
    BY <1>3
  <2>1. j + 1 = m - 1
    BY <1>1
  <2> QED
    BY <1>3, <2>1
<1> DEFINE y == ReadDigit(r, d)
<1>8. y.error = "none"
  BY <1>3, <1>6, <1>7, DigitIsRead
<1>9. /\ y.error = "none" /\ y.negative = r.negative /\ y.point = r.point /\ y.digit = TRUE
      /\ y.inner = 10 * r.inner + d
      /\ y.scale = IF r.point THEN r.scale + 1 ELSE r.scale
      /\ y.leading = IF r.point THEN r.leading ELSE r.leading + 1
  BY <1>3, <1>8, ReadDigitIs
<1>10. ReadChar(r, d) = y /\ d \in Chars
  <2>1. d # Dot /\ d \in Digits /\ d \in Chars
    BY DEF Dot, Digits, Chars
  <2> QED
    BY <1>3, <2>1, Zenon DEF ReadChar
<1>11. y \in Readers
  BY <1>3, <1>10, ReadersStay
<1> HIDE DEF y
<1>12. k + 1 > 0 /\ m - (k + 1) = j
  BY <1>1
<1>13. y.scale = 0 /\ y.leading = k + 1 /\ y.inner = Prefix(n, j) /\ ~y.point /\ y.digit
  BY <1>3, <1>5, <1>9
<1>14. BeforePoint(y, n, m, k + 1)
  BY <1>9, <1>11, <1>12, <1>13, Zenon DEF BeforePoint
<1> QED
  BY <1>1, <1>2, <1>9, <1>10, <1>14, Zenon

LEMMA ReadThePoint ==
    ASSUME NEW n \in 0 .. UMax, NEW m \in Nat, NEW scale \in 0 .. m - 1, NEW r,
           BeforePoint(r, n, m, m - scale)
    PROVE  LET z == ReadChar(r, 10) IN
           BehindPoint(z, n, m, scale, m - scale) /\ z.negative = r.negative
<1> DEFINE y == ReadPoint(r)
<1>1. /\ r \in Readers /\ r.error = "none"
      /\ r.inner = Prefix(n, m - (m - scale)) /\ r.scale = 0 /\ r.leading = m - scale
      /\ ~r.point /\ (r.digit <=> m - scale > 0)
  BY Zenon DEF BeforePoint
<1>2. y = [r EXCEPT !.point = TRUE]
  BY <1>1, Zenon DEF ReadPoint
<1>3. y.error = "none"
  BY <1>1, <1>2 DEF Readers
<1>4. /\ y.negative = r.negative /\ y.point /\ y.digit = r.digit
      /\ y.inner = r.inner /\ y.scale = r.scale /\ y.leading = r.leading
  BY <1>1, <1>3, ReadPointIs
<1>5. ReadChar(r, 10) = y /\ 10 \in Chars
  BY <1>1 DEF ReadChar, Dot, Chars
<1>6. y \in Readers
  BY <1>1, <1>5, ReadersStay
<1> HIDE DEF y
<1>7. (m - scale) - (m - scale) = 0 /\ m - scale > 0
  OBVIOUS
<1>8. BehindPoint(y, n, m, scale, m - scale)
  BY <1>1, <1>3, <1>4, <1>6, <1>7, Zenon DEF BehindPoint
<1> QED
  BY <1>4, <1>5, <1>8, Zenon

LEMMA ReadBehindPoint ==
    ASSUME NEW n \in 0 .. UMax, NEW m \in Nat, NEW scale \in 0 .. MaxScale, scale <= m,
           NEW k \in m - scale .. m - 1, NEW r, BehindPoint(r, n, m, scale, k)
    PROVE  LET z == ReadChar(r, Prefix(n, m - (k + 1)) % 10) IN
           BehindPoint(z, n, m, scale, k + 1) /\ z.negative = r.negative
<1>0. MaxScale \in Nat /\ scale \in Nat
  BY Powers
<1>1. PICK j \in Nat : j = m - (k + 1) /\ j + 1 = m - k
  BY <1>0, m - (k + 1) \in Nat /\ (m - (k + 1)) + 1 = m - k
<1>2. PICK d \in 0 .. 9 : d = Prefix(n, j) % 10
  BY PrefixIs
<1>3. /\ r \in Readers /\ r.error = "none"
      /\ r.inner = Prefix(n, j + 1) /\ r.scale = k - (m - scale) /\ r.leading = m - scale
      /\ r.point
  BY <1>1, Zenon DEF BehindPoint
<1>4. n \in Nat /\ n <= UMax /\ UMax \in Nat /\ r.inner \in Nat
  BY <1>3, Powers, ReaderParts
<1>5. 10 * r.inner + d = Prefix(n, j) /\ Prefix(n, j) <= n
  BY <1>2, <1>3, PrefixIs
<1>6. 10 * r.inner + d <= UMax
  BY <1>4, <1>5
<1>7. ~(r.point /\ r.scale = MaxScale)
  BY <1>0, <1>3
<1> DEFINE y == ReadDigit(r, d)
<1>8. y.error = "none"
  BY <1>3, <1>6, <1>7, DigitIsRead
<1>9. /\ y.error = "none" /\ y.negative = r.negative /\ y.point = r.point /\ y.digit = TRUE
      /\ y.inner = 10 * r.inner + d
      /\ y.scale = IF r.point THEN r.scale + 1 ELSE r.scale
      /\ y.leading = IF r.point THEN r.leading ELSE r.leading + 1
  BY <1>3, <1>8, ReadDigitIs
<1>10. ReadChar(r, d) = y /\ d \in Chars
  <2>1. d # Dot /\ d \in Digits /\ d \in Chars
    BY DEF Dot, Digits, Chars
  <2> QED
    BY <1>3, <2>1, Zenon DEF ReadChar
<1>11. y \in Readers
  BY <1>3, <1>10, ReadersStay
<1> HIDE DEF y
<1>12. (k - (m - scale)) + 1 = (k + 1) - (m - scale) /\ m - (k + 1) = j
  BY <1>0, <1>1
<1>13. y.scale = (k + 1) - (m - scale) /\ y.leading = m - scale /\ y.inner = Prefix(n, j) /\ y.point /\ y.digit
  BY <1>3, <1>5, <1>9, <1>12
<1>14. BehindPoint(y, n, m, scale, k + 1)
  BY <1>9, <1>11, <1>12, <1>13, Zenon DEF BehindPoint
<1> QED
  BY <1>1, <1>2, <1>9, <1>10, <1>14, Zenon

LEMMA BodyIsRead ==
    ASSUME NEW n \in 0 .. UMax, NEW m \in Nat, NEW scale \in 0 .. MaxScale, scale + 1 <= m,
           Prefix(n, m) = 0, m = scale + 1 \/ Prefix(n, m - 1) >= 1,
           NEW b \in {Unread, Minused}
    PROVE  LET z == Loop(b, Body(n, m, scale, scale > 0)) IN
           /\ z \in Readers /\ z.error = "none" /\ z.negative = b.negative
           /\ z.inner = n /\ z.scale = scale /\ z.digit /\ (z.point <=> scale > 0)
<1>1. scale \in Nat /\ MaxScale \in Nat /\ m - scale \in Nat /\ m >= 1 /\ m - scale >= 1
  BY Powers
<1>2. BeforePoint(b, n, m, 0)
  <2>1. /\ b.error = "none" /\ b.inner = 0 /\ b.scale = 0 /\ b.leading = 0
        /\ b.point = FALSE /\ b.digit = FALSE
    BY DEF Minused, Unread
  <2>2. b \in Readers /\ m - 0 = m /\ ~(0 > 0)
    BY ReadersStart
  <2> QED
    BY <2>1, <2>2, Zenon DEF BeforePoint
<1>3. Prefix(n, m - m) = n /\ m > 0
  <2>1. m - m = 0
    OBVIOUS
  <2> QED
    BY <1>1, <2>1, PrefixIs
<1>4. CASE scale = 0
  <2> DEFINE s == Whole(n, m)
  <2>1. s \in Seq(0 .. 10) /\ Len(s) = m /\ \A k \in 1 .. m : s[k] = Prefix(n, m - k) % 10
    BY WholeIs
  <2>2. Body(n, m, scale, scale > 0) = s
    <3>1. ~(scale > 0)
      BY <1>4
    <3> QED
      BY <3>1, Zenon DEF Body
  <2> HIDE DEF s
  <2>3. DOMAIN s = 1 .. m
    BY <2>1
  <2>a. Looped(b, s, m)
    BY <2>3, LoopIs
  <2>4. PICK r : /\ r[0] = b
                 /\ \A i \in 0 .. m - 1 : r[i + 1] = ReadChar(r[i], s[i + 1])
                 /\ Loop(b, s) = r[m]
    BY <2>a, Zenon DEF Looped
  <2> DEFINE Good(i) == BeforePoint(r[i], n, m, i) /\ r[i].negative = b.negative
  <2>5. ASSUME NEW i \in 0 .. m - 1, Good(i) PROVE Good(i + 1)
    <3>1. i = 1 => Prefix(n, m - 1) >= 1
      BY <1>4
    <3>2. s[i + 1] = Prefix(n, m - (i + 1)) % 10
      <4>1. i + 1 \in 1 .. m
        OBVIOUS
      <4> QED
        BY <2>1, <4>1
    <3> DEFINE z == ReadChar(r[i], Prefix(n, m - (i + 1)) % 10)
    <3>3. BeforePoint(z, n, m, i + 1) /\ z.negative = r[i].negative
      BY <2>5, <3>1, ReadBeforePoint
    <3>4. r[i + 1] = z
      BY <2>4, <3>2
    <3> HIDE DEF z
    <3> QED
      BY <2>5, <3>3, <3>4, Zenon
  <2>6. Good(0)
    BY <1>2, <2>4, Zenon
  <2> HIDE DEF Good
  <2>7. Good(m)
    <3> DEFINE Bad == {i \in 0 .. m : ~ Good(i)}
    <3> SUFFICES ASSUME Bad # {} PROVE FALSE
      BY <1>1
    <3>1. PICK i \in Bad : \A o \in Bad : i <= o
      <4>1. Bad \subseteq Nat
        OBVIOUS
      <4> QED
        BY <4>1, LeastNumber
    <3>2. i # 0
      BY <2>6, <3>1
    <3>3. PICK o \in 0 .. m - 1 : o + 1 = i
      BY <3>1, <3>2, i - 1 \in 0 .. m - 1 /\ (i - 1) + 1 = i
    <3>4. Good(o)
      <4>1. ~(i <= o) /\ o \in 0 .. m
        BY <3>3
      <4> QED
        BY <3>1, <4>1
    <3> QED
      BY <2>5, <3>1, <3>3, <3>4
  <2>8. /\ r[m] \in Readers /\ r[m].error = "none" /\ r[m].inner = Prefix(n, m - m) /\ r[m].scale = 0
        /\ ~r[m].point /\ (r[m].digit <=> m > 0) /\ r[m].negative = b.negative
    BY <2>7, Zenon DEF Good, BeforePoint
  <2>9. ~(scale > 0)
    BY <1>4
  <2> QED
    BY <1>3, <1>4, <2>2, <2>4, <2>8, <2>9, Zenon
<1>5. CASE scale # 0
  <2> DEFINE s == Pointed(n, m, scale)
  <2>1. /\ s \in Seq(0 .. 10) /\ Len(s) = m + 1
        /\ \A k \in 1 .. m + 1 : s[k] = IF k <= m - scale THEN Prefix(n, m - k) % 10
                                      ELSE IF k = (m - scale) + 1 THEN 10
                                      ELSE Prefix(n, m - (k - 1)) % 10
    <3>1. scale \in 0 .. m
      BY <1>1
    <3> QED
      BY <3>1, PointedIs
  <2>2. Body(n, m, scale, scale > 0) = s
    <3>1. scale > 0
      BY <1>1, <1>5
    <3> QED
      BY <3>1, Zenon DEF Body
  <2> HIDE DEF s
  <2>3. DOMAIN s = 1 .. m + 1 /\ m + 1 \in Nat /\ (m + 1) - 1 = m
    BY <2>1
  <2>a. Looped(b, s, m + 1)
    BY <2>3, LoopIs
  <2>4. PICK r : /\ r[0] = b
                 /\ \A i \in 0 .. (m + 1) - 1 : r[i + 1] = ReadChar(r[i], s[i + 1])
                 /\ Loop(b, s) = r[m + 1]
    BY <2>a, Zenon DEF Looped
  <2> DEFINE Good(i) == /\ i <= m - scale => BeforePoint(r[i], n, m, i)
                        /\ i > m - scale => BehindPoint(r[i], n, m, scale, i - 1)
                        /\ r[i].negative = b.negative
  <2>5. ASSUME NEW i \in 0 .. m, Good(i) PROVE Good(i + 1)
    <3>0. r[i + 1] = ReadChar(r[i], s[i + 1]) /\ i + 1 \in 1 .. m + 1 /\ (i + 1) - 1 = i
      BY <2>3, <2>4
    <3>1. CASE i < m - scale
      <4>1. i + 1 <= m - scale /\ i <= m - scale /\ ~(i + 1 > m - scale) /\ i \in 0 .. m - 1
        BY <1>1, <3>1
      <4>2. s[i + 1] = Prefix(n, m - (i + 1)) % 10
        BY <2>1, <3>0, <4>1
      <4>3. i = 1 => Prefix(n, m - 1) >= 1
        <5>1. i = 1 => m # scale + 1
          BY <1>1, <3>1
        <5> QED
          BY <5>1
      <4> DEFINE z == ReadChar(r[i], Prefix(n, m - (i + 1)) % 10)
      <4>4. BeforePoint(r[i], n, m, i)
        BY <2>5, <4>1, Zenon
      <4>5. BeforePoint(z, n, m, i + 1) /\ z.negative = r[i].negative
        BY <4>1, <4>3, <4>4, ReadBeforePoint
      <4>6. r[i + 1] = z
        BY <3>0, <4>2
      <4> HIDE DEF z
      <4> QED
        BY <2>5, <4>1, <4>5, <4>6, Zenon
    <3>2. CASE i = m - scale
      <4>1. i + 1 = (m - scale) + 1 /\ ~(i + 1 <= m - scale) /\ i <= m - scale /\ scale \in 0 .. m - 1
        BY <1>1, <3>2
      <4>2. s[i + 1] = 10
        BY <2>1, <3>0, <4>1
      <4>3. BeforePoint(r[i], n, m, m - scale)
        BY <2>5, <3>2, <4>1, Zenon
      <4> DEFINE z == ReadChar(r[i], 10)
      <4>4. BehindPoint(z, n, m, scale, m - scale) /\ z.negative = r[i].negative
        BY <4>1, <4>3, ReadThePoint
      <4>5. r[i + 1] = z
        BY <3>0, <4>2
      <4> HIDE DEF z
      <4> QED
        BY <2>5, <3>0, <3>2, <4>1, <4>4, <4>5, Zenon
    <3>3. CASE i > m - scale
      <4>1. /\ i + 1 > m - scale /\ ~(i + 1 <= m - scale) /\ i + 1 # (m - scale) + 1
            /\ i - 1 \in m - scale .. m - 1 /\ (i - 1) + 1 = i /\ scale <= m
        BY <1>1, <3>3
      <4>2. s[i + 1] = Prefix(n, m - i) % 10
        <5>1. s[i + 1] = Prefix(n, m - ((i + 1) - 1)) % 10
          BY <2>1, <3>0, <4>1
        <5> QED
          BY <3>0, <5>1
      <4>3. BehindPoint(r[i], n, m, scale, i - 1)
        BY <2>5, <3>3, Zenon
      <4> DEFINE z == ReadChar(r[i], Prefix(n, m - i) % 10)
      <4>4. BehindPoint(z, n, m, scale, i) /\ z.negative = r[i].negative
        <5>1. PICK k \in m - scale .. m - 1 : k = i - 1 /\ k + 1 = i
          BY <4>1
        <5> DEFINE y == ReadChar(r[i], Prefix(n, m - (k + 1)) % 10)
        <5>2. BehindPoint(r[i], n, m, scale, k)
          BY <4>3, <5>1, Zenon
        <5>3. BehindPoint(y, n, m, scale, k + 1) /\ y.negative = r[i].negative
          BY <4>1, <5>2, ReadBehindPoint
        <5> QED
          BY <5>1, <5>3, Zenon
      <4>5. r[i + 1] = z
        BY <3>0, <4>2
      <4> HIDE DEF z
      <4> QED
        BY <2>5, <3>0, <4>1, <4>4, <4>5, Zenon
    <3> QED
      BY <1>1, <3>1, <3>2, <3>3
  <2>6. Good(0)
    <3>1. ~(0 > m - scale)
      BY <1>1
    <3> QED
      BY <1>2, <2>4, <3>1, Zenon
  <2> HIDE DEF Good
  <2>7. Good(m + 1)
    <3> DEFINE Bad == {i \in 0 .. m + 1 : ~ Good(i)}
    <3> SUFFICES ASSUME Bad # {} PROVE FALSE
      BY <1>1
    <3>1. PICK i \in Bad : \A o \in Bad : i <= o
      <4>1. Bad \subseteq Nat
        OBVIOUS
      <4> QED
        BY <4>1, LeastNumber
    <3>2. i # 0
      BY <2>6, <3>1
    <3>3. PICK o \in 0 .. m : o + 1 = i
      BY <3>1, <3>2, i - 1 \in 0 .. m /\ (i - 1) + 1 = i
    <3>4. Good(o)
      <4>1. ~(i <= o) /\ o \in 0 .. m + 1
        BY <3>3
      <4> QED
        BY <3>1, <4>1
    <3> QED
      BY <2>5, <3>1, <3>3, <3>4
  <2>8. m + 1 > m - scale /\ (m + 1) - 1 = m /\ m - (m - scale) = scale /\ scale > 0
    BY <1>1, <1>5
  <2>9. BehindPoint(r[m + 1], n, m, scale, m) /\ r[m + 1].negative = b.negative
    BY <2>7, <2>8, Zenon DEF Good
  <2>10. /\ r[m + 1] \in Readers /\ r[m + 1].error = "none" /\ r[m + 1].inner = Prefix(n, m - m)
         /\ r[m + 1].scale = m - (m - scale) /\ r[m + 1].point /\ r[m + 1].digit
    BY <2>9, Zenon DEF BehindPoint
  <2> QED
    BY <1>3, <2>2, <2>4, <2>8, <2>9, <2>10, Zenon
<1> QED
  BY <1>4, <1>5

\* What is written for a number is read as its digits, its scale and its sign.
LEMMA WrittenIsRead ==
    ASSUME NEW n \in 0 .. UMax, NEW m \in Nat, NEW scale \in 0 .. MaxScale, scale + 1 <= m,
           Prefix(n, m) = 0, m = scale + 1 \/ Prefix(n, m - 1) >= 1,
           NEW negative \in BOOLEAN, ~(n = 0 /\ negative)
    PROVE  FromStr(Signed(negative, Body(n, m, scale, scale > 0)))
             = FromRaw(n, scale, IF negative THEN -1 ELSE 1)
<1> DEFINE s == Body(n, m, scale, scale > 0)
<1> DEFINE b == IF negative THEN Minused ELSE Unread
<1> DEFINE z == Loop(b, s)
<1>1. scale \in Nat /\ scale \in 0 .. m
  BY Powers
<1>2. s # <<>> /\ s \in Seq(0 .. 12) /\ Head(s) # Minus
  <2>1. CASE scale > 0
    <3>1. s = Pointed(n, m, scale)
      BY <2>1, Zenon DEF Body
    <3> HIDE DEF s
    <3>2. s \in Seq(0 .. 10) /\ Len(s) = m + 1
      BY <1>1, <3>1, PointedIs
    <3>3. s # <<>> /\ Head(s) \in 0 .. 10 /\ s \in Seq(0 .. 12)
      BY <3>2, SeqMonotonic
    <3> QED
      BY <3>3 DEF Minus
  <2>2. CASE ~(scale > 0)
    <3>1. s = Whole(n, m)
      BY <2>2, Zenon DEF Body
    <3> HIDE DEF s
    <3>2. s \in Seq(0 .. 10) /\ Len(s) = m
      BY <3>1, WholeIs
    <3>3. s # <<>> /\ Head(s) \in 0 .. 10 /\ s \in Seq(0 .. 12)
      BY <1>1, <3>2, SeqMonotonic
    <3> QED
      BY <3>3 DEF Minus
  <2> QED
    BY <2>1, <2>2
<1>3. /\ z \in Readers /\ z.error = "none" /\ z.negative = b.negative
      /\ z.inner = n /\ z.scale = scale /\ z.digit /\ (z.point <=> scale > 0)
  <2>1. b \in {Unread, Minused}
    BY Zenon
  <2> HIDE DEF b
  <2> QED
    BY <2>1, BodyIsRead
<1>4. z.negative <=> negative
  <2>1. Minused.negative = TRUE /\ Unread.negative = FALSE
    BY DEF Minused, Unread
  <2> HIDE DEF z
  <2> QED
    BY <1>3, <2>1, Zenon
<1>5. ReadEnd(z) = FromRaw(n, scale, IF negative THEN -1 ELSE 1)
  <2> HIDE DEF z
  <2>1. ~(z.point /\ z.scale = 0)
    BY <1>1, <1>3
  <2> QED
    BY <1>3, <1>4, <2>1, Zenon DEF ReadEnd
<1>6. FromStr(Signed(negative, s)) = ReadEnd(z)
  <2> DEFINE t == Signed(negative, s)
  <2>1. FromStr(t) = ReadEnd(IF t # <<>> /\ Head(t) = Minus THEN Loop(Minused, Tail(t))
                             ELSE Loop(Unread, t))
    BY FromStrIs
  <2>2. CASE negative
    <3>1. t = <<Minus>> \o s
      BY <2>2, Zenon DEF Signed
    <3>2. <<Minus>> \o s # <<>> /\ Head(<<Minus>> \o s) = Minus /\ Tail(<<Minus>> \o s) = s
      <4> HIDE DEF s
      <4> QED
        BY <1>2 DEF Minus
    <3>3. t # <<>> /\ Head(t) = Minus /\ Tail(t) = s
      BY <3>1, <3>2, Zenon
    <3>4. z = Loop(Minused, s)
      BY <2>2, Zenon
    <3> HIDE DEF s, t, z
    <3>5. FromStr(t) = ReadEnd(z)
      BY <2>1, <3>3, <3>4, Zenon
    <3> QED
      BY <3>5 DEF t
  <2>3. CASE ~negative
    <3>1. t = s
      BY <2>3, Zenon DEF Signed
    <3>2. z = Loop(Unread, s)
      BY <2>3, Zenon
    <3>3. t # <<>> /\ Head(t) # Minus
      BY <1>2, <3>1, Zenon
    <3> HIDE DEF s, t, z
    <3>4. FromStr(t) = ReadEnd(z)
      BY <2>1, <3>1, <3>2, <3>3, Zenon
    <3> QED
      BY <3>4 DEF t
  <2> QED
    BY <2>2, <2>3
<1> QED
  BY <1>5, <1>6

LEMMA ZeroIsWritten == Display(Zero) = Signed(FALSE, Body(0, 1, 0, 0 > 0))
<1>1. 0 \in 0 .. UMax /\ 1 \in Nat /\ MaxScale \in Nat
  BY Powers
<1> DEFINE T == {j \in 0 .. MaxScale : j = 0 \/ 0 \div Pow10[j] > 0}
<1>2. T = {0}
  <2>1. ASSUME NEW j \in 0 .. MaxScale PROVE ~(0 \div Pow10[j] > 0)
    <3>1. PICK p \in Nat \ {0} : p = Pow10[j]
      BY Powers
    <3> QED
      BY <3>1
  <2> QED
    BY <1>1, <2>1
<1>3. Max(T) = 0
  <2>1. \E x \in T : \A y \in T : x >= y
    BY <1>2
  <2>2. Max(T) \in T
    BY <2>1, Zenon DEF Max
  <2> QED
    BY <1>2, <2>2
<1>4. Numeral(0) = [i \in 1 .. 0 + 1 |-> (0 \div Pow10[(0 + 1) - i]) % 10]
  BY <1>3, Zenon DEF Numeral
<1>5. Whole(0, 1) = [i \in 1 .. 1 |-> (0 \div Pow10[1 - i]) % 10]
  <2>1. ASSUME NEW i \in 1 .. 1 PROVE Prefix(0, 1 - i) = 0 \div Pow10[1 - i]
    <3>1. ~(1 - i > MaxScale)
      BY <1>1
    <3> QED
      BY <3>1, Zenon DEF Prefix
  <2> QED
    BY <2>1, Zenon DEF Whole
<1>6. Numeral(0) = Whole(0, 1)
  <2>1. 0 + 1 = 1
    OBVIOUS
  <2> QED
    BY <1>4, <1>5, <2>1, Zenon
<1>7. Whole(0, 1) \in Seq(0 .. 10)
  BY <1>1, WholeIs
<1>8. Zero.inner = 0 /\ Zero.scale = 0 /\ Zero.sign = 0 /\ 0 # -1
  BY DEF Zero
<1>9. Display(Zero) = <<>> \o Numeral(0)
  BY <1>8, Zenon DEF Display
<1>10. Display(Zero) = Whole(0, 1)
  BY <1>6, <1>7, <1>9, ConcatEmptySeq
<1>11. ~(0 > 0)
  OBVIOUS
<1> QED
  BY <1>10, <1>11, Zenon DEF Signed, Body

LEMMA RoundTripIs ==
    ASSUME NEW x \in Decimals
    PROVE  FromStr(Display(x)) = Ok(x)
<1>1. CASE x = Zero
  <2>1. 0 \in 0 .. UMax /\ 1 \in Nat /\ MaxScale \in Nat /\ 0 \in 0 .. MaxScale /\ 0 + 1 <= 1 /\ 1 = 0 + 1
    BY Powers
  <2>2. Prefix(0, 1) = 0
    <3>1. Prefix(0, 1) \in Nat /\ Prefix(0, 1) <= 0
      BY <2>1, PrefixIs
    <3> QED
      BY <3>1
  <2>3. FromStr(Signed(FALSE, Body(0, 1, 0, 0 > 0))) = FromRaw(0, 0, IF FALSE THEN -1 ELSE 1)
    BY <2>1, <2>2, WrittenIsRead, Zenon
  <2>4. FromRaw(0, 0, 1) = Ok(Zero)
    BY <2>1 DEF FromRaw
  <2> QED
    BY <1>1, <2>3, <2>4, ZeroIsWritten, Zenon
<1>2. CASE x # Zero
  <2>1. PICK n \in 1 .. UMax, scale \in 0 .. MaxScale : n = x.inner /\ scale = x.scale
    BY <1>2 DEF Decimals
  <2>2. x = [inner |-> n, scale |-> scale, sign |-> x.sign] /\ x.sign \in {-1, 1}
    BY <1>2, <2>1 DEF Decimals
  <2>3. n \in 0 .. UMax /\ n # 0 /\ ~(scale > MaxScale) /\ scale \in Nat
    BY Powers
  <2>4. PICK m \in Nat : /\ m = Width(n, scale) /\ scale + 1 <= m /\ Prefix(n, m) = 0
                         /\ m = scale + 1 \/ Prefix(n, m - 1) >= 1
    BY WidthIs
  <2>5. PICK negative \in BOOLEAN : negative <=> x.sign = -1
    BY Zenon
  <2>6. Display(x) = Signed(negative, Body(n, m, scale, scale > 0))
    <3>1. x.sign # 0
      BY <2>2
    <3>2. Display(x) = Signed(x.sign = -1, Body(n, m, scale, scale > 0))
      BY <2>1, <2>4, <3>1, DisplayIs, Zenon
    <3> QED
      BY <2>5, <3>2, Zenon DEF Signed
  <2>7. FromStr(Signed(negative, Body(n, m, scale, scale > 0))) = FromRaw(n, scale, IF negative THEN -1 ELSE 1)
    BY <2>3, <2>4, WrittenIsRead
  <2>8. (IF negative THEN -1 ELSE 1) = x.sign
    BY <2>2, <2>5
  <2>9. FromRaw(n, scale, x.sign) = Ok(x)
    <3>1. ~(x.sign = 0 /\ n # 0)
      BY <2>2
    <3> QED
      BY <2>2, <2>3, <3>1, Zenon DEF FromRaw
  <2> QED
    BY <2>6, <2>7, <2>8, <2>9, Zenon
<1> QED
  BY <1>1, <1>2

\* What is written is read back as it was, for every amount, width and scale.
THEOREM TextsRoundTrip == Spec => []RoundTrip
<1>1. Inv => RoundTrip
  <2>1. Inv => held \in Decimals
    BY DEF Inv
  <2> QED
    BY <2>1, RoundTripIs, Zenon DEF RoundTrip
<1> QED
  BY <1>1, AlwaysInv, PTL
=============================================================================

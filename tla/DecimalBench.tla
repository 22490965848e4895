---------------------------- MODULE DecimalBench ----------------------------
(***************************************************************************)
(* Runs the unit tests of decimals, prices and quantities on the model. A  *)
(* decimal is written as its text, which tells inner, scale and sign.      *)
(***************************************************************************)
EXTENDS DecimalText

Glyphs == <<"0", "1", "2", "3", "4", "5", "6", "7", "8", "9", ".", "-">>
CharOf(c) == IF \E i \in DOMAIN Glyphs : Glyphs[i] = c
             THEN (CHOOSE i \in DOMAIN Glyphs : Glyphs[i] = c) - 1 ELSE Letter
Text(s) == [i \in 1 .. Len(s) |-> CharOf(SubSeq(s, i, i))]
D(s) == FromStr(Text(s)).value

\* u128::MAX, the numbers beside it, and parts of it, as texts.
Largest == "340282365"
OneLess == "340282364"
OneMore == "340282366"
AHalf == "170141182"
AThird == "113427455"
Minus1(s) == "-" \o s

-----------------------------------------------------------------------------
\* Decimal::div with its loop: at most MAX_SCALE turns.
Div(x, y) ==
    LET Turn(r, i) == IF r.ok /\ MoreDigits(r.value) THEN NextDigit(r.value, y) ELSE r
        worked == FoldLeft(Turn, Ok(DivStart(x, y)), [i \in 1 .. MaxScale |-> i])
    IN  IF y.sign = 0 THEN Err("DivisionByZero")
        ELSE IF x.sign = 0 THEN Ok(Zero)
        ELSE IF worked.ok THEN DivEnd(worked.value, x, y) ELSE worked

Calc(op, x, y) ==
    CASE op = "add" -> Add(x, y)
      [] op = "sub" -> Sub(x, y)
      [] op = "mul" -> Mul(x, y)
      [] op = "div" -> Div(x, y)

\* Price and Quantity hand their results to Checked of module Amounts.
Owner(kind) == INSTANCE Amounts WITH
    held <- Zero, divisor <- Zero, work <- DivStart(Zero, D("1")), reader <- Unread,
    typed <- <<>>, Operands <- {}, TypedChars <- {}, MaxTyped <- 0

\* A call of a test: parse reads a text, new takes a decimal.
Call(kind, x, op, y) ==
    Owner(kind)!Checked(
        CASE op = "parse"      -> FromStr(Text(x))
          [] op = "new"        -> Ok(D(x))
          [] op = "normalized" -> Ok(Normalized(D(x)))
          [] OTHER             -> Calc(op, D(x), D(y)))

Equal(r, s) == r.ok /\ s.ok /\ EqualTo(r.value, s.value)

\* What a test asserts of a call: "is" to the digit, "equals" as a number.
Asserted(kind, row) ==
    LET x == row[1]  op == row[2]  y == row[3]  is == row[4]  z == row[5]
        r == Call(kind, x, op, y)
    IN  CASE is = "is"              -> r.ok /\ Display(r.value) = Text(z)
          [] is = "equals"          -> Equal(r, Ok(D(z)))
          [] is = "fails with"      -> r = Err(z)
          [] is = "is not negative" -> r.ok /\ r.value.sign # -1
          [] is = "commutes"        -> Equal(r, Call(kind, y, op, x))
          [] is = "opposes"         -> Equal(r, Ok(Negated(Call(kind, y, op, x).value)))
          [] is = "undone by"       -> Equal(Calc(z, r.value, D(y)), Ok(D(x)))
          [] is = "associates with" ->
                Equal(Calc(op, r.value, D(z)), Calc(op, D(x), Calc(op, D(y), D(z)).value))
          [] is = "times"           ->
                Equal(Mul(D(z), r.value), Calc(op, Mul(D(z), D(x)).value, Mul(D(z), D(y)).value))

\* What a test asserts of two decimals.
Compared(row) ==
    LET x == D(row[1])  y == D(row[3]) IN
    CASE row[2] = "="  -> EqualTo(x, y) /\ Cmp(x, y) = 0
      [] row[2] = "#"  -> ~EqualTo(x, y)
      [] row[2] = "<"  -> Cmp(x, y) = -1 /\ Cmp(y, x) = 1
      [] row[2] = "hashes as"      -> HashKey(x) = HashKey(y)
      [] row[2] = "hashes unlike"  -> HashKey(x) # HashKey(y)

\* What a test asserts of from_raw: <<inner, scale, sign, ok, text or error>>.
Raw(row) ==
    LET r == FromRaw(row[1], row[2], row[3]) IN
    IF row[4] THEN r.ok /\ Display(r.value) = Text(row[5]) ELSE r = Err(row[5])

\* The neighbours in a list that is in order.
InOrder(s) == {<<s[i], "<", s[i + 1]>> : i \in 1 .. Len(s) - 1}

Each(xs, op, is) == {<<x, op, "", is, x>> : x \in xs}
Failing(xs, op, error) == {<<x, op, "", "fails with", error>> : x \in xs}
=============================================================================

----------------------------- MODULE DecimalText ----------------------------
(***************************************************************************)
(* Decimals as text: FromStr and Display. A text is a sequence of          *)
(* characters; a digit is its number.                                      *)
(*                                                                         *)
(* An operator named X_Y stands before X and says how X might be wrong; it *)
(* is not used.                                                            *)
(***************************************************************************)
EXTENDS Decimal

Digits == 0 .. 9
Dot == 10
Minus == 11
Letter == 12        \* any other character, a plus sign or a blank too
Chars == 0 .. 12

-----------------------------------------------------------------------------
\* What from_str keeps while it reads; `error` is the error it returned with.
Unread == [negative |-> FALSE, inner |-> 0, scale |-> 0, point |-> FALSE, digit |-> FALSE,
           leading |-> 0, error |-> "none"]
Readers == [negative : BOOLEAN, inner : 0 .. UMax, scale : 0 .. MaxScale, point : BOOLEAN,
            digit : BOOLEAN, leading : Nat, error : {"none"} \cup DecimalErrors]
Minused == [Unread EXCEPT !.negative = TRUE]
Fail(r, e) == [r EXCEPT !.error = e]

ReadPoint(r) == IF r.point THEN Fail(r, "InvalidFormat") ELSE [r EXCEPT !.point = TRUE]

ReadDigit_LeadingZeros(r, d) ==
    LET tens == CheckedMul(r.inner, 10)
        sum == CheckedAdd(tens.value, d)
    IN  IF ~tens.ok \/ ~sum.ok THEN Fail(r, "Overflow")
        ELSE IF r.point /\ r.scale = MaxScale THEN Fail(r, "ScaleOverflow")
        ELSE [r EXCEPT !.digit = TRUE, !.inner = sum.value,
                       !.scale = IF r.point THEN r.scale + 1 ELSE r.scale]
ReadDigit(r, d) ==
    LET tens == CheckedMul(r.inner, 10)
        sum == CheckedAdd(tens.value, d)
    IN  IF ~r.point /\ r.leading = 1 /\ r.inner = 0 THEN Fail(r, "InvalidFormat")
        ELSE IF ~tens.ok \/ ~sum.ok THEN Fail(r, "Overflow")
        ELSE IF r.point /\ r.scale = MaxScale THEN Fail(r, "ScaleOverflow")
        ELSE [r EXCEPT !.digit = TRUE, !.inner = sum.value,
                       !.scale = IF r.point THEN r.scale + 1 ELSE r.scale,
                       !.leading = IF r.point THEN r.leading ELSE r.leading + 1]

ReadChar(r, c) ==
    IF r.error # "none" THEN r
    ELSE IF c = Dot THEN ReadPoint(r)
    ELSE IF c \in Digits THEN ReadDigit(r, c)
    ELSE Fail(r, "InvalidFormat")

\* After the last character
ReadEnd(r) ==
    IF r.error # "none" THEN Err(r.error)
    ELSE IF ~r.digit \/ (r.point /\ r.scale = 0) \/ (r.inner = 0 /\ r.negative)
      THEN Err("InvalidFormat")
    ELSE FromRaw(r.inner, r.scale, IF r.negative THEN -1 ELSE 1)

FromStr(text) ==
    ReadEnd(IF text # <<>> /\ Head(text) = Minus THEN FoldLeft(ReadChar, Minused, Tail(text))
            ELSE FoldLeft(ReadChar, Unread, text))

-----------------------------------------------------------------------------
\* The decimal digits of a number: u128::to_string.
Numeral(n) ==
    LET length == Max({j \in 0 .. MaxScale : j = 0 \/ n \div Pow10[j] > 0}) + 1
    IN  [i \in 1 .. length |-> (n \div Pow10[length - i]) % 10]

Display_Unpadded(x) ==
    LET s == Numeral(x.inner)
        split == Len(s) - x.scale
    IN  (IF x.sign = -1 THEN <<Minus>> ELSE <<>>) \o
        (IF x.scale = 0 THEN s
         ELSE IF split <= 0 THEN <<0, Dot>> \o s
         ELSE SubSeq(s, 1, split) \o <<Dot>> \o SubSeq(s, split + 1, Len(s)))
Display(x) ==
    LET s == Numeral(x.inner)
        split == Len(s) - x.scale
    IN  (IF x.sign = -1 THEN <<Minus>> ELSE <<>>) \o
        (IF x.scale = 0 THEN s
         ELSE IF split <= 0 THEN <<0, Dot>> \o [i \in 1 .. -split |-> 0] \o s
         ELSE SubSeq(s, 1, split) \o <<Dot>> \o SubSeq(s, split + 1, Len(s)))
=============================================================================

---------------------------- MODULE DecimalTests ----------------------------
(***************************************************************************)
(* The unit tests of decimal.rs, a table for each group of them; a row is  *)
(* what one assertion says. u128::MAX is Largest; a literal that has more  *)
(* digits than fit below it is shortened so that it exceeds it, or falls   *)
(* short of it and of MAX_SCALE, as it does in the test.                   *)
(***************************************************************************)
EXTENDS DecimalBench

FromRawTests ==
    {<<12345, 2, 1, TRUE, "123.45">>, <<42, 1, -1, TRUE, "-4.2">>, <<0, 5, 1, TRUE, "0">>,
     <<1, 5, 0, FALSE, "MismatchedSign">>, <<1, MaxScale + 1, 1, FALSE, "ScaleOverflow">>,
     <<1, MaxScale, 1, TRUE, "0.00000001">>}

FromStrTests ==
    Each({"123", "-456", "123.45", "-4.2", "0", "0.5", "-0.5", "1.00"}, "parse", "is")
    \cup {<<".5", "parse", "", "is", "0.5">>, <<"-.5", "parse", "", "is", "-0.5">>}
    \cup Failing({"-0", "-0.0", "007", "00", "1.", "  42.5  "}, "parse", "InvalidFormat")

FromStrEdgeTests ==
    Failing({"", ".", "1.2.3", "abc", "-", "+123"}, "parse", "InvalidFormat")
    \cup Failing({OneMore}, "parse", "Overflow")
    \cup Failing({"0.0000000001"}, "parse", "ScaleOverflow")
    \cup Each({Largest}, "parse", "is")
    \cup Each({"0", "1", "-1", "123.45", "-123.45", "0.5", ".5", "-.5", "0.001", "100.00",
               "0.00000001"}, "parse", "equals")

NormalizedTests ==
    {<<"1.00", "normalized", "", "is", "1">>, <<"-12.00", "normalized", "", "is", "-12">>}
    \cup Each({"500", "0", "1.5"}, "normalized", "is")

\* <<inner, from, to, result>>; rescale_up returns None where it overflows.
RescaleUpTests ==
    {<<5, 0, 2, Ok(500)>>, <<123, 2, 7, Ok(12300000)>>, <<42, 3, 3, Ok(42)>>,
     <<UMax, 0, 1, Err("Overflow")>>}

-----------------------------------------------------------------------------
PartialEqTests ==
    {<<"1.0", "=", "1.0">>, <<"1.00", "=", "1.0">>, <<"1", "=", "1.0">>, <<"1", "=", "1.00">>,
     <<"1.0", "#", "-1.0">>, <<"1.0", "#", "2.0">>, <<"1.5", "#", "1.05">>, <<"0", "=", "0">>,
     <<"-1.00", "=", "-1.0">>, <<"0", "#", "1">>, <<"0", "#", "-1">>}

HashTests ==
    {<<x, "hashes as", y>> : x \in {"1", "1.0", "1.00"}, y \in {"1", "1.0", "1.00"}}
    \cup {<<x, "hashes as", "-1">> : x \in {"-1.0", "-1.00"}}
    \cup {<<"0", "hashes as", "0">>, <<"123.45", "hashes unlike", "-123.45">>,
          <<"0", "hashes unlike", "1">>}

OrdTests ==
    {<<"0", "=", "0">>, <<"1.00", "=", "1.0">>, <<"1.0", "=", "1">>, <<"1.00", "=", "1">>}
    \cup {<<"0", "<", "1.0">>, <<"-1.0", "<", "0">>, <<"-1.0", "<", "1.0">>, <<"1.0", "<", "2.0">>,
          <<"-2.0", "<", "-1.0">>, <<"1.09", "<", "1.1">>, <<"-1.1", "<", "-1.09">>,
          <<"1.999", "<", "2">>, <<"-3.14", "<", "2.718">>}

\* Two numbers that one of, or neither of which fits at the scale of the other.
OrdOverflowTests ==
    InOrder(<<"-2.5", "-1.0", "0", "0.1", "1.00", "2.5">>)
    \cup {<<"0.00000001", "<", Largest>>, <<Minus1(Largest), "<", "-0.00000001">>}
    \cup {<<"3402.82365", "=", "3402.82365">>, <<"34028236.4", "<", "34028236.5">>,
          <<"-34028236.5", "<", "-34028236.4">>, <<"3.40282365", "<", "34028.2365">>,
          <<"-34028.2365", "<", "-3.40282365">>, <<"1.00000", "<", "10000">>}
    \cup InOrder(<<Minus1(Largest), "-100.00000", "-1", "0", "0.00000001", "1", "100.00000",
                   Largest>>)

-----------------------------------------------------------------------------
AddTests ==
    {<<"0", "add", x, "equals", x>> : x \in {"0", "5.5", "-3"}}
    \cup {<<x, "add", "0", "equals", x>> : x \in {"7", "-9"}}
    \cup {<<"1.5", "add", "2.5", "equals", "4.0">>, <<"-1.5", "add", "-2.5", "equals", "-4.0">>,
          <<"1.0", "add", "0.5", "equals", "1.5">>, <<"1.1", "add", "1.09", "equals", "2.19">>,
          <<"100", "add", "0.001", "equals", "100.001">>,
          <<"-1.0", "add", "-0.5", "equals", "-1.5">>,
          <<"-1.1", "add", "-1.09", "equals", "-2.19">>}

AddSignsTests ==
    {<<"3.5", "add", "-2.5", "equals", "1.0">>, <<"2.5", "add", "-3.5", "equals", "-1.0">>,
     <<"-3.5", "add", "2.5", "equals", "-1.0">>, <<"1.1", "add", "-1.09", "equals", "0.01">>,
     <<"-1.1", "add", "1.09", "equals", "-0.01">>}
    \cup {<<x, "add", "-" \o x, "equals", "0">> : x \in {"5", "1000.12345"}}
    \cup {<<"1.00", "add", "-1.0", "equals", "0">>}
    \cup {<<"1000.12345", "add", "-1000.12344", "is", "0.00001">>}
    \cup {<<Largest, "add", x, "fails with", "Overflow">> : x \in {"0.1", "0.00000001", "1"}}
    \cup {<<"0.00000001", "add", Largest, "fails with", "Overflow">>}

AddEdgeTests ==
    {<<OneLess, "add", "1", "is", Largest>>,
     <<Minus1(OneLess), "add", "-1", "is", Minus1(Largest)>>,
     <<Minus1(Largest), "add", "-1", "fails with", "Overflow">>,
     <<"123.45", "add", "-67.89", "commutes", "">>}
    \cup {<<x, "add", "0", "equals", x>> : x \in {"0", "1", "-1", "999.999", "-0.001"}}
    \cup {<<"0", "add", x, "equals", x>> : x \in {"0", "1", "-1", "999.999", "-0.001"}}
    \cup {<<x, "add", Minus1(x), "equals", "0">> : x \in {"42", "0.001", "9999999"}}
    \cup {<<"-17.5", "add", "17.5", "equals", "0">>}
    \cup {<<"0.00000003", "add", "0.00000002", "is", "0.00000005">>,
          <<"-0.00000003", "add", "-0.00000002", "is", "-0.00000005">>,
          <<"0.00000005", "add", "-0.00000002", "is", "0.00000003">>}

SubTests ==
    {<<"0", "sub", "0", "is", "0">>, <<"0", "sub", "5.5", "is", "-5.5">>,
     <<"0", "sub", "-3", "is", "3">>}
    \cup {<<x, "sub", "0", "equals", x>> : x \in {"7", "-9"}}
    \cup {<<x, "sub", x, "is", "0">> : x \in {"42.5", "-42.5"}}
    \cup {<<"3", "sub", "1", "equals", "2">>, <<"1", "sub", "3", "equals", "-2">>,
          <<"-3", "sub", "-1", "equals", "-2">>, <<"-1", "sub", "-3", "equals", "2">>,
          <<"3", "sub", "-1", "equals", "4">>, <<"-3", "sub", "1", "equals", "-4">>}

SubScaleTests ==
    {<<"1.1", "sub", "1.09", "equals", "0.01">>, <<"1.09", "sub", "1.1", "equals", "-0.01">>,
     <<Largest, "sub", "-0.00000001", "fails with", "Overflow">>,
     <<"7.3", "sub", "2.1", "opposes", "">>,
     <<"100.5", "add", "23.25", "undone by", "sub">>,
     <<"23.25", "add", "100.5", "undone by", "sub">>,
     <<"0.00000005", "sub", "0.00000002", "is", "0.00000003">>,
     <<"0.00000003", "sub", "-0.00000002", "is", "0.00000005">>}

-----------------------------------------------------------------------------
MulTests ==
    {<<"0", "mul", x, "is", "0">> : x \in {"5", "0", "-5"}} \cup {<<"5", "mul", "0", "is", "0">>}
    \cup {<<"42.5", "mul", "1", "equals", "42.5">>, <<"1", "mul", "42.5", "equals", "42.5">>,
          <<"1", "mul", "1", "equals", "1">>, <<"42.5", "mul", "-1", "equals", "-42.5">>,
          <<"-42.5", "mul", "-1", "equals", "42.5">>, <<"-1", "mul", "-1", "equals", "1">>,
          <<"2", "mul", "3", "equals", "6">>, <<"0.5", "mul", "0.5", "equals", "0.25">>,
          <<"-0.5", "mul", "0.5", "equals", "-0.25">>, <<"-0.5", "mul", "-0.5", "equals", "0.25">>,
          <<"0.1", "mul", "0.1", "equals", "0.01">>,
          <<"0.0001", "mul", "0.0001", "is", "0.00000001">>,
          <<"1.00", "mul", "1.00", "equals", "1">>,
          <<"0.0031", "mul", "0.000011", "is", "0.00000003">>}

\* Products whose scale exceeds MAX_SCALE: zeros are stripped, then digits dropped.
MulEdgeTests ==
    {<<"0.00013", "mul", "0.00007", "is", "0">>,
     <<Largest, "mul", "2", "fails with", "Overflow">>, <<AHalf, "mul", "2", "is", OneLess>>,
     <<"0.0002", "mul", "0.0003", "is", "0.00000006">>,
     <<"123.45", "mul", "-67.89", "commutes", "">>,
     <<"-0.0031", "mul", "0.000011", "is", "-0.00000003">>,
     <<"-0.00013", "mul", "-0.00007", "is", "0">>,
     <<"0.002", "mul", "0.03", "is", "0.00006">>,
     <<"0.010000", "mul", "0.010000", "is", "0.0001">>,
     <<"0.00000003", "mul", "0.00000004", "is", "0">>,
     <<"0.00000005", "mul", AThird, "fails with", "Overflow">>}

DivTests ==
    {<<x, "div", "0", "fails with", "DivisionByZero">> : x \in {"5", "-5", "0"}}
    \cup {<<"0", "div", y, "is", "0">> : y \in {"5", "-5"}}
    \cup {<<"6", "div", "3", "equals", "2">>, <<"10", "div", "4", "equals", "2.5">>,
          <<"1", "div", "2", "equals", "0.5">>, <<"1", "div", "4", "equals", "0.25">>,
          <<"1", "div", "8", "is", "0.125">>, <<"1", "div", "3", "is", "0.33333333">>,
          <<"1", "div", "7", "is", "0.14285714">>}
    \cup {<<x, "div", x, "equals", "1">> : x \in {"42.5", "-42.5", "1.00", "0.001"}}

DivSignsTests ==
    {<<x, "div", "1", "equals", x>> : x \in {"42.5", "-42.5"}}
    \cup {<<"42.5", "div", "-1", "equals", "-42.5">>, <<"-42.5", "div", "-1", "equals", "42.5">>,
          <<"-6", "div", "3", "equals", "-2">>, <<"6", "div", "-3", "equals", "-2">>,
          <<"-6", "div", "-3", "equals", "2">>, <<"0.2", "div", "0.01", "equals", "20">>,
          <<"2", "div", "0.001", "equals", "2000">>, <<"0.01", "div", "0.2", "equals", "0.05">>,
          <<"0.001", "div", "1", "equals", "0.001">>, <<"0.01", "div", "2", "equals", "0.005">>,
          <<"1", "div", Largest, "is", "0">>, <<Largest, "div", "1", "is", Largest>>,
          <<Largest, "div", "0.00000001", "fails with", "Overflow">>,
          <<"1", "div", "1000000", "is", "0.000001">>}

DivScaleTests ==
    {<<"0.00000006", "div", "0.00000002", "is", "3">>,
     <<"0.00000001", "div", "0.00000003", "is", "0.33333333">>,
     <<"0.01", "div", "3", "is", "0.00333333">>, <<"0.00000001", "div", "7", "is", "0">>,
     <<"42.5", "div", "1", "is", "42.5">>, <<"42.5", "div", "-1", "is", "-42.5">>,
     <<"0.01", "div", "0.2", "is", "0.05">>, <<"15", "div", "5", "is", "3">>,
     <<AHalf, "div", "100000", "is not negative", "">>,
     <<"1", "div", "700", "is", "0.00142857">>, <<"10", "div", "3", "is", "3.33333333">>,
     <<"100", "div", "3", "fails with", "Overflow">>,
     <<"100000", "div", "3", "fails with", "Overflow">>}

PropertyTests ==
    {<<"4", "add", "5", "times", "3">>, <<"100", "div", "25", "undone by", "mul">>}
    \cup {<<"-1", "mul", x, "equals", Minus1(x)>> : x \in {"42.5", "0.001", "1000000"}}

AlgebraTests ==
    {<<p[1], "add", p[2], "commutes", "">> :
        p \in {<<"0", "0">>, <<"1.5", "2.5">>, <<"-3.14", "2.718">>, <<"100.001", "0.001">>,
               <<"999.9999", "-888.8888">>}}
    \cup {<<p[1], "mul", p[2], "commutes", "">> :
        p \in {<<"1", "1">>, <<"2.5", "4">>, <<"-0.5", "0.25">>, <<"123.456", "-0.001">>}}
    \cup {<<p[1], "add", p[2], "associates with", p[3]>> :
        p \in {<<"1", "2", "3">>, <<"0.1", "0.2", "0.3">>, <<"-5.5", "3.3", "2.2">>,
               <<"1000.001", "2000.002", "-3000.003">>}}
    \cup {<<p[1], "div", p[2], "undone by", "mul">> :
        p \in {<<"10", "2">>, <<"100", "25">>, <<"-60", "5">>, <<"42", "7">>,
               <<"1000000", "1000">>}}
=============================================================================

----------------------------- MODULE AmountTests ----------------------------
(***************************************************************************)
(* The unit tests of price.rs and quantity.rs as tables, in the form of    *)
(* module DecimalTests.                                                    *)
(***************************************************************************)
EXTENDS DecimalBench

PriceSumTests ==
    Each({"123.45", "0", "-67.89"}, "new", "equals")
    \cup {<<"2.5", "add", "3.5", "equals", "6.0">>, <<"42.5", "add", "0", "equals", "42.5">>,
          <<"0", "add", "42.5", "equals", "42.5">>, <<Largest, "add", "1", "fails with", "Overflow">>,
          <<"10.0", "add", "-4.0", "equals", "6.0">>, <<"5.0", "sub", "3.0", "equals", "2.0">>,
          <<"42.5", "sub", "0", "equals", "42.5">>, <<"7.25", "sub", "7.25", "equals", "0">>,
          <<"3.0", "sub", "5.0", "equals", "-2.0">>}

PriceProductTests ==
    {<<"2.5", "mul", "4.0", "equals", "10.0">>, <<"42.5", "mul", "0", "equals", "0">>,
     <<"42.5", "mul", "1", "equals", "42.5">>, <<"-2.0", "mul", "3.0", "equals", "-6.0">>,
     <<"-2.0", "mul", "-3.0", "equals", "6.0">>, <<Largest, "mul", "2", "fails with", "Overflow">>,
     <<"6.0", "div", "3.0", "equals", "2.0">>, <<"42.5", "div", "1", "equals", "42.5">>,
     <<"7.0", "div", "7.0", "equals", "1">>, <<"5.0", "div", "0", "fails with", "DivisionByZero">>,
     <<"-6.0", "div", "3.0", "equals", "-2.0">>}

PriceOrderTests ==
    {<<"1.00", "=", "1.0">>, <<"1.0", "#", "2.0">>, <<"0", "=", "0">>, <<"0", "#", "1">>,
     <<"0", "#", "-1">>, <<"1.00", "hashes as", "1.0">>, <<"1.0", "hashes unlike", "2.0">>,
     <<"-1.0", "<", "0">>, <<"0", "<", "1.0">>, <<"-1.0", "<", "1.0">>}
    \cup InOrder(<<"-2.5", "-1.0", "0", "0.1", "1.00", "2.5">>)

PriceTextTests ==
    Each({"0", "1", "-1", "123.45", "-123.45", "-67.89", "0.5", "-0.5", "0.001"}, "parse", "is")
    \cup Failing({"abc", ""}, "parse", "InvalidFormat")

-----------------------------------------------------------------------------
QuantitySumTests ==
    Each({"100.5", "0"}, "new", "equals") \cup Failing({"-1.0"}, "new", "Negative")
    \cup {<<"2.5", "add", "3.5", "equals", "6.0">>, <<"42.5", "add", "0", "equals", "42.5">>,
          <<"0", "add", "42.5", "equals", "42.5">>, <<Largest, "add", "1", "fails with", "Overflow">>,
          <<"0.1", "add", "0.2", "is not negative", "">>}

QuantityDifferenceTests ==
    {<<"5.0", "sub", "3.0", "equals", "2.0">>, <<"42.5", "sub", "0", "equals", "42.5">>,
     <<"7.25", "sub", "7.25", "equals", "0">>, <<"0", "sub", "0", "equals", "0">>,
     <<"3.0", "sub", "5.0", "fails with", "Negative">>,
     <<"0", "sub", "1.0", "fails with", "Negative">>, <<"1.00", "sub", "1.0", "equals", "0">>,
     <<"1.1", "sub", "1.09", "equals", "0.01">>}

QuantityProductTests ==
    {<<"2.5", "mul", "4.0", "equals", "10.0">>, <<"42.5", "mul", "0", "equals", "0">>,
     <<"42.5", "mul", "1", "equals", "42.5">>, <<"999.999", "mul", "0.001", "is not negative", "">>,
     <<Largest, "mul", "2", "fails with", "Overflow">>, <<"6.0", "div", "3.0", "equals", "2.0">>,
     <<"42.5", "div", "1", "equals", "42.5">>, <<"7.0", "div", "7.0", "equals", "1">>,
     <<"5.0", "div", "0", "fails with", "DivisionByZero">>,
     <<"1.0", "div", "3.0", "is not negative", "">>}

QuantityOrderTests ==
    {<<"1.00", "=", "1.0">>, <<"1.0", "#", "2.0">>, <<"0", "=", "0">>, <<"0", "#", "1">>,
     <<"1.00", "hashes as", "1.0">>, <<"1.0", "hashes unlike", "2.0">>,
     <<"0", "hashes as", "0">>, <<"1.0", "<", "2.0">>, <<"0", "<", "0.001">>,
     <<"2.718", "<", "3.14">>, <<"0", "<", "0.1">>, <<"0.1", "<", "1.0">>, <<"1.00", "<", "2.5">>}

QuantityTextTests ==
    Each({"0", "1", "123.45", "0.5", "0.001", "100.00"}, "parse", "is")
    \cup Failing({"-1.0", "-0.5"}, "parse", "Negative")
    \cup Failing({"-0", "abc", ""}, "parse", "InvalidFormat")
=============================================================================

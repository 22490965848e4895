------------------------------ MODULE UnitTests -----------------------------
(***************************************************************************)
(* The unit tests of the values (decimals, prices, quantities, durations,  *)
(* timestamps, the simulated clock), run on the model one after the other  *)
(* in any order: what the tests assert of the code holds of the model.     *)
(***************************************************************************)
EXTENDS Integers

Powers == <<1, 10, 100, 1000, 10000, 100000, 1000000, 10000000, 100000000>>

\* u128::MAX has 39 digits, of which 9 are left; a second has 2^3 nanoseconds.
Decimals == INSTANCE DecimalTests WITH
    UMax <- 340282365, MaxScale <- 8, Pow10 <- [j \in 0 .. 8 |-> Powers[j + 1]]
Amounts == INSTANCE AmountTests WITH
    UMax <- 340282365, MaxScale <- 8, Pow10 <- [j \in 0 .. 8 |-> Powers[j + 1]]
Times == INSTANCE TimeTests WITH
    IMax <- 17014118, U64Max <- 1844674, SecMax <- 922337, NanosPerSec <- 8, Thousand <- 2

VARIABLES
    group,  \* the test that runs: what it is a test of,
    row     \* and one of its assertions

vars == <<group, row>>

Asserts ==
    [from_raw   |-> Decimals!FromRawTests,
     rescale_up |-> Decimals!RescaleUpTests,
     decimal    |-> Decimals!FromStrTests \cup Decimals!FromStrEdgeTests
                    \cup Decimals!NormalizedTests \cup Decimals!AddTests
                    \cup Decimals!AddSignsTests \cup Decimals!AddEdgeTests
                    \cup Decimals!SubTests \cup Decimals!SubScaleTests \cup Decimals!MulTests
                    \cup Decimals!MulEdgeTests \cup Decimals!DivTests
                    \cup Decimals!DivSignsTests \cup Decimals!DivScaleTests
                    \cup Decimals!PropertyTests \cup Decimals!AlgebraTests,
     order      |-> Decimals!PartialEqTests \cup Decimals!HashTests \cup Decimals!OrdTests
                    \cup Decimals!OrdOverflowTests \cup Amounts!PriceOrderTests
                    \cup Amounts!QuantityOrderTests,
     price      |-> Amounts!PriceSumTests \cup Amounts!PriceProductTests
                    \cup Amounts!PriceTextTests,
     quantity   |-> Amounts!QuantitySumTests \cup Amounts!QuantityDifferenceTests
                    \cup Amounts!QuantityProductTests \cup Amounts!QuantityTextTests,
     time       |-> Times!ConstantTests \cup Times!SecondsTests \cup Times!SecondsRoundTripTests
                    \cup Times!MulTests \cup Times!AddTests \cup Times!SubTests
                    \cup Times!LaterTests \cup Times!EarlierTests \cup Times!SystemTimeTests
                    \cup Times!InstantOrderTests,
     sim_clock  |-> Times!SetTests \cup Times!TickTests \cup Times!AdvanceTests
                    \cup Times!SequenceTests]

\* cargo test runs the tests in any order.
Init == group = "from_raw" /\ row \in Asserts["from_raw"]
Next == group' \in DOMAIN Asserts /\ row' \in Asserts[group']

Spec == Init /\ [][Next]_vars

\* Every assertion of the unit tests that say something of a value holds of the model.
Passes ==
    CASE group = "from_raw"   -> Decimals!Raw(row)
      [] group = "rescale_up" -> Decimals!RescaleUp(row[1], row[2], row[3]) = row[4]
      [] group = "order"      -> Decimals!Compared(row)
      [] group = "time"       -> Times!Expected(row)
      [] group = "sim_clock"  -> Times!Shown(row)
      [] OTHER                -> Decimals!Asserted(group, row)
=============================================================================

----------------------------- MODULE MCDecimal ------------------------------
(***************************************************************************)
(* Amounts on a machine integer that holds two digits after the point.     *)
(***************************************************************************)
EXTENDS Amounts

Powers == <<1, 10, 100>>
MCPow10 == [j \in 0 .. MaxScale |-> Powers[j + 1]]

\* Small and large, with and without a zero at the end, up to the largest number.
Inners == {1, 3, 10, 13, 127}
MCOperands == {x \in Decimals : x.inner \in Inners} \cup {Zero}
=============================================================================

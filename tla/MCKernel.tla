------------------------------ MODULE MCKernel ------------------------------
(***************************************************************************)
(* Instances of Kernel for TLC.                                            *)
(***************************************************************************)
EXTENDS Kernel, TLC

\* Every entry over the types: self-loops, cycles, orphans, undeclared sends.
AllEntries == [on : Types, produces : SUBSET Types]

Symmetry == Permutations(Types)

\* A trading cascade: ticks make orders, orders make fills.  Fills have a silent
\* subscriber, and one that closes a cycle.
ChainTypes == {"tick", "order", "fill"}

ChainEntries ==
    {[on |-> "tick",  produces |-> {"order"}],
     [on |-> "order", produces |-> {"fill"}],
     [on |-> "fill",  produces |-> {}],
     [on |-> "fill",  produces |-> {"tick"}]}

\* Ticks make orders and fills at once; reducers consume the fills.
FanEntries ==
    {[on |-> "tick",  produces |-> {"order", "fill"}],
     [on |-> "order", produces |-> {"fill"}]}

Instants == 0 .. 1
=============================================================================

---------------------------- MODULE MCCycleCheck ----------------------------
(***************************************************************************)
(* CycleCheck on the graphs over a few nodes with a bounded number of      *)
(* edges.                                                                  *)
(***************************************************************************)
EXTENDS CycleCheck

CONSTANT MaxEdges

SmallInit == Init /\ Cardinality(edges) <= MaxEdges

SmallSpec == SmallInit /\ [][Next]_vars /\ WF_vars(Search)
=============================================================================

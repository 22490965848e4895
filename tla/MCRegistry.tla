----------------------------- MODULE MCRegistry -----------------------------
(***************************************************************************)
(* Instances of HandlerRegistry for TLC.                                   *)
(***************************************************************************)
EXTENDS HandlerRegistry, TLC

\* Types are told apart and nothing else.
TypeSymmetry == Permutations(Types)
=============================================================================

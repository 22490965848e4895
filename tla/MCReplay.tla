------------------------------ MODULE MCReplay ------------------------------
(***************************************************************************)
(* An instance of two kernels for TLC, with the constants of one.          *)
(***************************************************************************)
EXTENDS Replay, MCKernel
=============================================================================

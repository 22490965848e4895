------------------------------ MODULE Outcome -------------------------------
(***************************************************************************)
(* Result<T, E>: what a checked call returns.                              *)
(***************************************************************************)
Ok(v) == [ok |-> TRUE, value |-> v]
Err(e) == [ok |-> FALSE, error |-> e]

Outcomes(Values, Errors) == [ok : {TRUE}, value : Values] \cup [ok : {FALSE}, error : Errors]
=============================================================================

---------------------------- MODULE MessageGraph ----------------------------
(***************************************************************************)
(* The message graph that Kernel::run validates before its loop starts     *)
(* (graph.rs, with the views of the handler registry it is built from).    *)
(*                                                                         *)
(* A handler list hs is a sequence of records [on, produces]: the message  *)
(* type an entry subscribes to and the set of types it declared with       *)
(* .produces::<M>().  An edge <<s, t>> says that a handler of s may send t. *)
(***************************************************************************)
EXTENDS Integers, FiniteSets, Sequences

Subscribed(hs) == {hs[i].on : i \in DOMAIN hs}

Produced(hs) == UNION {hs[i].produces : i \in DOMAIN hs}

Edges(hs) == UNION {{hs[i].on} \X hs[i].produces : i \in DOMAIN hs}

\* The types with a consumer: a handler, or at least one of the rs[t] reducers.
Consumed(hs, rs) == Subscribed(hs) \cup {t \in DOMAIN rs : rs[t] > 0}

-----------------------------------------------------------------------------
(***************************************************************************)
(* A finite graph has no cycle iff its nodes can be ranked so that every   *)
(* edge goes down.  validate_no_cycles looks for a back edge depth first;  *)
(* module CycleCheck models that search step by step and shows that it     *)
(* answers exactly this question.                                          *)
(***************************************************************************)
Ranks(N) == [N -> 0 .. Cardinality(N) - 1]

Descends(rank, E) == \A e \in E : rank[e[2]] < rank[e[1]]

Acyclic(N, E) == \E rank \in Ranks(N) : Descends(rank, E)
=============================================================================

----------------------------- MODULE CycleCheck -----------------------------
(***************************************************************************)
(* graph::validate_no_cycles: the depth-first search that decides whether  *)
(* Kernel::run may start.  Module Kernel takes its answer to be the one of *)
(* Acyclic; here the search runs step by step, on every graph.             *)
(*                                                                         *)
(* HashSet and HashMap iterate in an arbitrary order, so which root and    *)
(* which neighbour comes next is a free choice.  An adjacency list may     *)
(* name a neighbour twice (two handlers declare the same production); the  *)
(* second time it is visited and off the path, so a set loses nothing.     *)
(*                                                                         *)
(* An operator named X_Y stands before X and says how X might be wrong; no *)
(* action uses it.                                                         *)
(***************************************************************************)
EXTENDS MessageGraph

CONSTANT Nodes

ASSUME NodesAssumption == IsFiniteSet(Nodes)

VARIABLES
    edges,      \* the graph under test
    roots,      \* all_nodes not looked at by the outer loop yet
    visited, on_path,
    path,       \* the nodes of the active calls of dfs_cycle, outermost first
    todo,       \* for each of them the neighbours its loop has still to look at
    verdict,    \* "searching"; "acyclic" (returns) or "cycle" (panics)
    rank,       \* history: how many nodes were finished before this one
    finished    \* history: the nodes whose call of dfs_cycle returned

vars == <<edges, roots, visited, on_path, path, todo, verdict, rank, finished>>

Succ(n) == {m \in Nodes : <<n, m>> \in edges}

Ends(E) == {e[1] : e \in E} \cup {e[2] : e \in E}

Init ==
    /\ edges \in SUBSET (Nodes \X Nodes)
    /\ roots = Ends(edges)
    /\ visited = {} /\ on_path = {} /\ path = <<>> /\ todo = <<>>
    /\ verdict = "searching"
    /\ rank = [n \in Nodes |-> 0] /\ finished = {}

Top == Len(path)

\* The head of dfs_cycle(n); below are the loops of the calls around it.
Call(n, below) ==
    /\ visited' = visited \cup {n}
    /\ on_path' = on_path \cup {n}
    /\ path' = Append(path, n)
    /\ todo' = Append(below, Succ(n))

\* The outer loop takes a node; it only starts a search from an unvisited one.
NextRoot ==
    /\ verdict = "searching" /\ path = <<>>
    /\ \E n \in roots :
         /\ roots' = roots \ {n}
         /\ \/ n \notin visited /\ Call(n, todo)
            \/ n \in visited /\ UNCHANGED <<visited, on_path, path, todo>>
    /\ UNCHANGED <<edges, verdict, rank, finished>>

\* A node of the active path: the edge to it closes a cycle.
OnPath_NotSelf(next) == next \in on_path \ {path[Top]}
OnPath_Visited(next) == next \in visited
OnPath(next) == next \in on_path

Closed_Open(next) == path
Closed(next) == Append(path, next)

Rest_Same(next) == todo
Rest(next) == [todo EXCEPT ![Top] = @ \ {next}]

\* The innermost call looks at one neighbour.
Look ==
    /\ verdict = "searching" /\ path # <<>>
    /\ \E next \in todo[Top] :
         \/ /\ OnPath(next)
            /\ path' = Closed(next)
            /\ verdict' = "cycle"
            /\ UNCHANGED <<visited, on_path, todo>>
         \/ /\ ~OnPath(next) /\ next \notin visited
            /\ Call(next, Rest(next))
            /\ UNCHANGED verdict
         \/ /\ ~OnPath(next) /\ next \in visited
            /\ todo' = Rest(next)
            /\ UNCHANGED <<visited, on_path, path, verdict>>
    /\ UNCHANGED <<edges, roots, rank, finished>>

\* A node leaves the path when its call returns.
OffPath_Left(n) == on_path
OffPath(n) == on_path \ {n}

\* The innermost call has looked at all neighbours and returns false.
Return ==
    /\ verdict = "searching" /\ path # <<>> /\ todo[Top] = {}
    /\ path' = SubSeq(path, 1, Top - 1)
    /\ todo' = SubSeq(todo, 1, Top - 1)
    /\ on_path' = OffPath(path[Top])
    /\ rank' = [rank EXCEPT ![path[Top]] = Cardinality(finished)]
    /\ finished' = finished \cup {path[Top]}
    /\ UNCHANGED <<edges, roots, visited, verdict>>

Accept ==
    /\ verdict = "searching" /\ path = <<>> /\ roots = {}
    /\ verdict' = "acyclic"
    /\ UNCHANGED <<edges, roots, visited, on_path, path, todo, rank, finished>>

Done == verdict # "searching" /\ UNCHANGED vars

Search == NextRoot \/ Look \/ Return \/ Accept

Next == Search \/ Done

Spec == Init /\ [][Next]_vars

FairSpec == Spec /\ WF_vars(Search)

-----------------------------------------------------------------------------
TypeOK ==
    /\ edges \subseteq Nodes \X Nodes
    /\ roots \subseteq Nodes /\ visited \subseteq Nodes /\ on_path \subseteq Nodes
    /\ path \in Seq(Nodes) /\ todo \in Seq(SUBSET Nodes)
    /\ verdict \in {"searching", "acyclic", "cycle"}
    /\ rank \in [Nodes -> Nat] /\ finished \subseteq Nodes

\* A graph that validate_no_cycles lets through has no cycle.
AcceptedIsAcyclic == verdict = "acyclic" => Acyclic(Nodes, edges)

\* validate_no_cycles panics on no graph without a cycle: reaching a node by two
\* ways is not mistaken for coming back to it.
RejectedIsCyclic == verdict = "cycle" => ~Acyclic(Nodes, edges)

\* cycle_description prints path from the first occurrence of its last node on:
\* that is a closed walk along edges of the graph.
ReportsACycle ==
    verdict = "cycle" =>
        \E start \in 1 .. Top - 1 :
            /\ path[start] = path[Top]
            /\ \A i \in start .. Top - 1 : <<path[i], path[i + 1]>> \in edges

\* The search from one root leaves nothing behind for the next: no node is still
\* marked as on the path, and whatever can be reached from a visited node is
\* visited, so that skipping visited nodes and roots misses no edge.
NothingLeftBehind ==
    verdict = "searching" /\ path = <<>> =>
        /\ on_path = {}
        /\ \A e \in edges : e[1] \in visited => e[2] \in visited

\* The search ends, whatever the graph.
SearchEnds == <>(verdict # "searching")

(***************************************************************************)
(* The inductive strengthening.                                            *)
(***************************************************************************)

\* Before the verdict on_path is what is on the path, each node once, with a
\* loop of its own, and every visited node is on it or finished.
PathInv ==
    /\ on_path = {path[i] : i \in DOMAIN path}
    /\ DOMAIN todo = DOMAIN path
    /\ \A i, j \in DOMAIN path : path[i] = path[j] => i = j
    /\ visited = on_path \cup finished
    /\ on_path \cap finished = {}

\* The finished nodes are ranked downwards: every edge out of one leads to one
\* that was finished before it.
RankInv ==
    /\ \A n \in finished : rank[n] < Cardinality(finished)
    /\ \A n \in finished, m \in Nodes :
          <<n, m>> \in edges => m \in finished /\ rank[m] < rank[n]

\* A neighbour a loop is done with is finished, or it is the next call.
LoopInv ==
    \A i \in DOMAIN path : \A m \in Succ(path[i]) :
        \/ m \in todo[i]
        \/ m \in finished
        \/ i + 1 \in DOMAIN path /\ m = path[i + 1]

\* Whatever ranks the graph downwards goes down along the path.
DescentInv ==
    \A r \in Ranks(Nodes) : Descends(r, edges) =>
        \A i, j \in DOMAIN path : i < j => r[path[j]] < r[path[i]]

\* The calls are nested along edges; the path of a cycle repeats one node, at its end.
WalkInv ==
    /\ \A i \in 1 .. Top - 1 : <<path[i], path[i + 1]>> \in edges
    /\ verdict = "cycle" =>
         /\ \A i, j \in 1 .. Top - 1 : path[i] = path[j] => i = j
         /\ \E start \in 1 .. Top - 1 : path[start] = path[Top]

IInv ==
    /\ TypeOK
    /\ verdict = "searching" =>
         /\ PathInv /\ RankInv /\ LoopInv
         /\ Ends(edges) \subseteq roots \cup visited
         /\ \A i \in DOMAIN path : todo[i] \subseteq Succ(path[i])
    /\ verdict # "cycle" => DescentInv
    /\ AcceptedIsAcyclic /\ RejectedIsCyclic
=============================================================================

-------------------------- MODULE CycleCheckProofs --------------------------
(***************************************************************************)
(* validate_no_cycles is right on every finite graph, in whatever order    *)
(* its hash sets are iterated.                                             *)
(***************************************************************************)
EXTENDS CycleCheck, NaturalFacts, FiniteSetTheorems, SequenceTheorems, TLAPS

\* What appending to a sequence and dropping its last element do.
LEMMA Push ==
    ASSUME NEW S, NEW s \in Seq(S), NEW x \in S
    PROVE  /\ Append(s, x) \in Seq(S)
           /\ Len(Append(s, x)) = Len(s) + 1
           /\ DOMAIN Append(s, x) = 1 .. Len(s) + 1
           /\ \A i \in DOMAIN s : Append(s, x)[i] = s[i]
           /\ Append(s, x)[Len(s) + 1] = x
BY AppendProperties

\* What is left of a sequence without its last element.
LEMMA Pop ==
    ASSUME NEW S, NEW s \in Seq(S), s # <<>>
    PROVE  /\ Len(s) \in Nat /\ Len(s) >= 1
           /\ SubSeq(s, 1, Len(s) - 1) \in Seq(S)
           /\ Len(SubSeq(s, 1, Len(s) - 1)) = Len(s) - 1
           /\ DOMAIN SubSeq(s, 1, Len(s) - 1) = 1 .. Len(s) - 1
           /\ \A i \in 1 .. Len(s) - 1 : SubSeq(s, 1, Len(s) - 1)[i] = s[i]
<1>1. Len(s) \in Nat /\ Len(s) >= 1
  BY EmptySeq
<1>2. \A i \in 1 .. Len(s) - 1 : s[i] \in S
  BY <1>1
<1> DEFINE n == Len(s) - 1
           q == SubSeq(s, 1, n)
<1>3. n \in Int /\ n >= 0 /\ n - 1 + 1 = n
  BY <1>1
<1>4. /\ q \in Seq(S)
      /\ Len(q) = IF 1 <= n THEN n - 1 + 1 ELSE 0
      /\ \A i \in 1 .. n - 1 + 1 : q[i] = s[1 + i - 1]
  <2> HIDE DEF n
  <2> QED
    BY <1>2, <1>3, SubSeqProperties DEF n
<1>5. \A i \in 1 .. n : q[i] = s[i]
  BY <1>1, <1>3, <1>4
<1> HIDE DEF n, q
<1>6. Len(q) = n /\ DOMAIN q = 1 .. n
  <2>1. Len(q) = n
    BY <1>3, <1>4
  <2> QED
    BY <1>4, <2>1
<1> QED
  BY <1>1, <1>4, <1>5, <1>6 DEF n, q

\* Replacing one element leaves the others.
LEMMA Replace ==
    ASSUME NEW S, NEW s \in Seq(S), NEW k \in DOMAIN s, NEW x \in S
    PROVE  /\ [s EXCEPT ![k] = x] \in Seq(S)
           /\ DOMAIN [s EXCEPT ![k] = x] = DOMAIN s
           /\ \A i \in DOMAIN s : [s EXCEPT ![k] = x][i] = IF i = k THEN x ELSE s[i]
BY ExceptSeq

\* Nodes that were finished before everything they point to cannot be on a cycle.
LEMMA FinishedRanks ==
    ASSUME TypeOK, RankInv, Ends(edges) \subseteq finished
    PROVE  Acyclic(Nodes, edges)
<1> DEFINE N == Cardinality(Nodes)
           r == [n \in Nodes |-> IF n \in finished THEN rank[n] ELSE 0]
<1>1. IsFiniteSet(finished) /\ Cardinality(finished) <= N /\ N \in Nat
      /\ Cardinality(finished) \in Nat
  BY NodesAssumption, FS_Subset, FS_CardinalityType DEF TypeOK
<1>2. ASSUME NEW n \in Nodes PROVE r[n] \in 0 .. N - 1
  <2>1. N # 0
    BY NodesAssumption, FS_EmptySet
  <2> QED
    BY <1>1, <2>1 DEF TypeOK, RankInv
<1>3. r \in Ranks(Nodes)
  BY <1>2 DEF Ranks
<1>4. ASSUME NEW e \in edges PROVE r[e[2]] < r[e[1]]
  <2>1. e = <<e[1], e[2]>> /\ e[1] \in Nodes /\ e[2] \in Nodes
    BY DEF TypeOK
  <2>2. e[1] \in finished /\ e[2] \in finished
    BY DEF Ends
  <2> QED
    BY <2>1, <2>2 DEF RankInv
<1> QED
  BY <1>3, <1>4 DEF Acyclic, Descends

\* Starting a call on a fresh neighbour of the innermost node, or on a root.
LEMMA CallKeepsInv ==
    ASSUME TypeOK, IInv, verdict = "searching", UNCHANGED <<edges, verdict, rank, finished>>,
           NEW n \in Nodes, n \notin visited,
           NEW below \in Seq(SUBSET Nodes), DOMAIN below = DOMAIN path,
           \A i \in DOMAIN path : below[i] \subseteq todo[i],
           \A i \in DOMAIN path : \A m \in todo[i] :
               m \in below[i] \/ (m = n /\ i = Top),
           path # <<>> => n \in Succ(path[Top]),
           roots' \subseteq Nodes, roots \subseteq roots' \cup {n},
           Call(n, below)
    PROVE  IInv'
<1> DEFINE k == Top + 1
<1>1. /\ path' \in Seq(Nodes) /\ Len(path') = k /\ DOMAIN path' = 1 .. k
      /\ \A i \in DOMAIN path : path'[i] = path[i]
      /\ path'[k] = n
      /\ Top \in Nat /\ DOMAIN path = 1 .. Top
  <2>1. path \in Seq(Nodes) /\ path' = Append(path, n)
    BY DEF TypeOK, Call
  <2> QED
    BY <2>1, Push DEF Top
<1>2. /\ todo' \in Seq(SUBSET Nodes) /\ DOMAIN todo' = 1 .. k
      /\ \A i \in DOMAIN path : todo'[i] = below[i]
      /\ todo'[k] = Succ(n)
  <2>1. Succ(n) \in SUBSET Nodes /\ todo' = Append(below, Succ(n)) /\ Len(below) = Top
    BY <1>1 DEF Call, Succ
  <2> QED
    BY <2>1, Push
<1>3. TypeOK'
  BY <1>1, <1>2 DEF TypeOK, Call
<1>4. PathInv'
  BY <1>1, <1>2 DEF PathInv, IInv, Call
<1>5. RankInv'
  BY DEF RankInv, IInv
<1>6. \A x \in Nodes : Succ(x)' = Succ(x)
  BY DEF Succ
<1>7. LoopInv'
  <2> SUFFICES ASSUME NEW i \in 1 .. k, NEW m \in Succ(path'[i])
               PROVE  \/ m \in todo'[i]
                      \/ m \in finished
                      \/ i + 1 \in 1 .. k /\ m = path'[i + 1]
    BY <1>1, <1>6 DEF LoopInv, Succ
  <2>1. CASE i = k
    BY <1>1, <1>2, <2>1
  <2>2. CASE i \in DOMAIN path /\ i < Top
    <3>1. i + 1 \in DOMAIN path
      BY <1>1, <2>2
    <3> QED
      BY <1>1, <1>2, <2>2, <3>1 DEF LoopInv, IInv
  <2>3. CASE i \in DOMAIN path /\ i = Top
    <3>1. i + 1 \notin DOMAIN path /\ i + 1 = k
      BY <1>1, <2>3
    <3>2. m \in todo[i] \/ m \in finished
      BY <1>1, <2>3, <3>1 DEF LoopInv, IInv
    <3> QED
      BY <1>1, <1>2, <2>3, <3>1, <3>2
  <2> QED
    BY <1>1, <2>1, <2>2, <2>3
<1>8. Ends(edges)' \subseteq (roots \cup visited)'
  BY DEF IInv, Call, Ends
<1>9. \A i \in DOMAIN path' : todo'[i] \subseteq Succ(path'[i])
  BY <1>1, <1>2 DEF IInv
<1>10. DescentInv'
  <2> SUFFICES ASSUME NEW r \in Ranks(Nodes), Descends(r, edges),
                      NEW i \in 1 .. k, NEW j \in 1 .. k, i < j
               PROVE  r[path'[j]] < r[path'[i]]
    BY <1>1 DEF DescentInv
  <2>0. \A a \in DOMAIN path, b \in DOMAIN path : a < b => r[path[b]] < r[path[a]]
    BY DEF IInv, DescentInv
  <2>1. CASE j \in DOMAIN path
    BY <1>1, <2>0, <2>1
  <2>2. CASE j = k
    <3>1. Top \in DOMAIN path /\ i \in DOMAIN path /\ i <= Top /\ path # <<>>
      BY <1>1, <2>2
    <3>2. r[n] < r[path[Top]]
      BY <3>1 DEF Descends, Succ
    <3>3. \A x \in Nodes : r[x] \in Int
      BY DEF Ranks
    <3>4. path[Top] \in Nodes /\ path[i] \in Nodes
      BY <3>1 DEF TypeOK
    <3>5. i = Top \/ r[path[Top]] < r[path[i]]
      BY <1>1, <2>0, <3>1
    <3> QED
      BY <1>1, <2>2, <3>1, <3>2, <3>3, <3>4, <3>5
  <2> QED
    BY <1>1, <2>1, <2>2
<1>11. verdict' = "searching"
  OBVIOUS
<1> QED
  BY <1>3, <1>4, <1>5, <1>6, <1>7, <1>8, <1>9, <1>10, <1>11, <1>1
     DEF IInv, AcceptedIsAcyclic, RejectedIsCyclic, Succ

\* Starting a search from a root, or skipping a visited one.
LEMMA RootKeepsInv ==
    ASSUME IInv, NextRoot
    PROVE  IInv'
<1>1. PICK n \in roots : /\ roots' = roots \ {n}
                        /\ \/ n \notin visited /\ Call(n, todo)
                           \/ n \in visited /\ UNCHANGED <<visited, on_path, path, todo>>
  BY DEF NextRoot
<1>2. /\ TypeOK /\ verdict = "searching" /\ UNCHANGED <<edges, verdict, rank, finished>>
      /\ path = <<>> /\ DOMAIN todo = DOMAIN path /\ DOMAIN path = {}
  BY DEF NextRoot, IInv, PathInv
<1>3. CASE n \notin visited /\ Call(n, todo)
  <2>1. n \in Nodes /\ todo \in Seq(SUBSET Nodes) /\ roots' \subseteq Nodes
        /\ roots \subseteq roots' \cup {n}
    BY <1>1, <1>2 DEF TypeOK
  <2> QED
    BY <1>2, <1>3, <2>1, CallKeepsInv
<1>4. CASE n \in visited /\ UNCHANGED <<visited, on_path, path, todo>>
  <2>1. \A x : Succ(x)' = Succ(x)
    BY <1>2 DEF Succ
  <2>2. Ends(edges)' \subseteq (roots \cup visited)'
    BY <1>1, <1>2, <1>4 DEF IInv, Ends
  <2>3. TypeOK'
    BY <1>1, <1>2, <1>4 DEF TypeOK
  <2> QED
    BY <1>2, <1>4, <2>1, <2>2, <2>3
       DEF IInv, PathInv, RankInv, LoopInv, DescentInv, AcceptedIsAcyclic, RejectedIsCyclic
<1> QED
  BY <1>1, <1>3, <1>4

\* Looking at a neighbour: an edge back to the path refutes every ranking; a fresh
\* node is a call; a visited one off the path is finished.
LEMMA LookKeepsInv ==
    ASSUME IInv, Look
    PROVE  IInv'
<1>1. PICK next \in todo[Top] :
         \/ next \in on_path /\ path' = Append(path, next) /\ verdict' = "cycle"
            /\ UNCHANGED <<visited, on_path, todo>>
         \/ next \notin visited /\ Call(next, Rest(next)) /\ UNCHANGED verdict
         \/ next \notin on_path /\ next \in visited /\ todo' = Rest(next)
            /\ UNCHANGED <<visited, on_path, path, verdict>>
  BY DEF Look, OnPath, Closed
<1>2. /\ TypeOK /\ verdict = "searching" /\ UNCHANGED <<edges, roots, rank, finished>>
      /\ path # <<>> /\ PathInv /\ RankInv /\ LoopInv /\ DescentInv
      /\ \A i \in DOMAIN path : todo[i] \subseteq Succ(path[i])
      /\ DOMAIN todo = DOMAIN path
  BY DEF Look, IInv, PathInv
<1>3. /\ Top \in Nat /\ Top >= 1 /\ DOMAIN path = 1 .. Top /\ Top \in DOMAIN path
      /\ path[Top] \in Nodes /\ next \in Succ(path[Top]) /\ next \in Nodes
  <2>1. path \in Seq(Nodes)
    BY <1>2 DEF TypeOK
  <2>2. Len(path) \in Nat /\ Len(path) >= 1
    BY <1>2, <2>1, Pop
  <2>3. DOMAIN path = 1 .. Top /\ Top \in DOMAIN path
    BY <2>1, <2>2 DEF Top
  <2> QED
    BY <1>1, <1>2, <2>1, <2>2, <2>3 DEF Succ, Top
<1>4. /\ Rest(next) \in Seq(SUBSET Nodes) /\ DOMAIN Rest(next) = DOMAIN path
      /\ \A i \in DOMAIN path : Rest(next)[i] = IF i = Top THEN todo[i] \ {next} ELSE todo[i]
  <2>1. todo \in Seq(SUBSET Nodes) /\ Top \in DOMAIN todo
    BY <1>2, <1>3 DEF TypeOK
  <2>2. todo[Top] \ {next} \in SUBSET Nodes
    BY <2>1
  <2> QED
    BY <1>2, <2>1, <2>2, Replace DEF Rest
<1>5. CASE /\ next \in on_path /\ path' = Append(path, next) /\ verdict' = "cycle"
           /\ UNCHANGED <<visited, on_path, todo>>
  <2>1. PICK i \in DOMAIN path : path[i] = next
    BY <1>2, <1>5 DEF PathInv
  <2>2. ASSUME NEW r \in Ranks(Nodes), Descends(r, edges) PROVE FALSE
    <3>1. r[next] < r[path[Top]]
      BY <1>3, <2>2 DEF Descends, Succ
    <3>2. i = Top \/ r[path[Top]] < r[path[i]]
      BY <1>2, <1>3, <2>2 DEF DescentInv
    <3>3. r[next] \in Int /\ r[path[Top]] \in Int
      BY <1>3 DEF Ranks
    <3> QED
      BY <2>1, <3>1, <3>2, <3>3
  <2>3. ~Acyclic(Nodes, edges)
    BY <2>2 DEF Acyclic
  <2>4. path' \in Seq(Nodes)
    BY <1>2, <1>3, <1>5, Push DEF TypeOK
  <2>5. TypeOK'
    BY <1>2, <1>5, <2>4 DEF TypeOK
  <2> QED
    BY <1>2, <1>5, <2>3, <2>5 DEF IInv, AcceptedIsAcyclic, RejectedIsCyclic
<1>6. CASE next \notin visited /\ Call(next, Rest(next)) /\ UNCHANGED verdict
  <2>1. /\ \A i \in DOMAIN path : Rest(next)[i] \subseteq todo[i]
        /\ \A i \in DOMAIN path : \A m \in todo[i] :
              m \in Rest(next)[i] \/ (m = next /\ i = Top)
    BY <1>4
  <2>2. roots' \subseteq Nodes /\ roots \subseteq roots' \cup {next}
    BY <1>2 DEF TypeOK
  <2> QED
    BY <1>2, <1>3, <1>4, <1>6, <2>1, <2>2, CallKeepsInv
<1>7. CASE /\ next \notin on_path /\ next \in visited /\ todo' = Rest(next)
           /\ UNCHANGED <<visited, on_path, path, verdict>>
  <2>1. next \in finished
    BY <1>2, <1>7 DEF PathInv
  <2>2. \A x : Succ(x)' = Succ(x)
    BY <1>2 DEF Succ
  <2>3. TypeOK'
    BY <1>2, <1>4, <1>7 DEF TypeOK
  <2>4. LoopInv'
    BY <1>2, <1>4, <1>7, <2>1, <2>2 DEF LoopInv
  <2>5. \A i \in DOMAIN path : todo'[i] \subseteq Succ(path[i])
    BY <1>2, <1>4, <1>7
  <2>6. PathInv' /\ RankInv' /\ DescentInv'
    BY <1>2, <1>4, <1>7 DEF PathInv, RankInv, DescentInv
  <2>7. Ends(edges)' \subseteq (roots \cup visited)'
    BY <1>2, <1>7 DEF IInv, Ends
  <2> QED
    BY <1>2, <1>7, <2>2, <2>3, <2>4, <2>5, <2>6, <2>7
       DEF IInv, AcceptedIsAcyclic, RejectedIsCyclic
<1> QED
  BY <1>1, <1>5, <1>6, <1>7

\* A call that returns has only finished neighbours, so its node ranks above them.
LEMMA ReturnKeepsInv ==
    ASSUME IInv, Return
    PROVE  IInv'
<1> DEFINE n == path[Top]
<1>1. /\ TypeOK /\ verdict = "searching" /\ UNCHANGED <<edges, roots, visited, verdict>>
      /\ path # <<>> /\ todo[Top] = {} /\ PathInv /\ RankInv /\ LoopInv /\ DescentInv
      /\ on_path' = on_path \ {n} /\ finished' = finished \cup {n}
      /\ rank' = [rank EXCEPT ![n] = Cardinality(finished)]
  BY DEF Return, OffPath, IInv
<1>2. /\ Top \in Nat /\ Top >= 1 /\ DOMAIN path = 1 .. Top
      /\ path' \in Seq(Nodes) /\ DOMAIN path' = 1 .. Top - 1
      /\ \A i \in 1 .. Top - 1 : path'[i] = path[i]
  <2>1. path \in Seq(Nodes) /\ path' = SubSeq(path, 1, Len(path) - 1)
    BY <1>1 DEF TypeOK, Return, Top
  <2> QED
    BY <1>1, <2>1, Pop DEF Top
<1>3. /\ todo' \in Seq(SUBSET Nodes) /\ DOMAIN todo' = 1 .. Top - 1
      /\ \A i \in 1 .. Top - 1 : todo'[i] = todo[i]
  <2>1. todo \in Seq(SUBSET Nodes) /\ DOMAIN todo = 1 .. Top
    BY <1>1, <1>2 DEF TypeOK, PathInv
  <2>2. Len(todo) = Top /\ todo # <<>>
    BY <1>2, <2>1
  <2>3. todo' = SubSeq(todo, 1, Len(todo) - 1)
    BY <2>2 DEF Return
  <2> QED
    BY <2>1, <2>2, <2>3, Pop
<1>4. n \in Nodes /\ n \in on_path /\ n \notin finished
  BY <1>1, <1>2 DEF TypeOK, PathInv
<1>5. /\ Cardinality(finished) \in Nat
      /\ Cardinality(finished \cup {n}) = Cardinality(finished) + 1
  <2>1. IsFiniteSet(finished)
    BY <1>1, NodesAssumption, FS_Subset DEF TypeOK
  <2> QED
    BY <1>4, <2>1, FS_CardinalityType, FS_AddElement
<1>6. \A m \in Nodes : <<n, m>> \in edges => m \in finished
  BY <1>1, <1>2 DEF LoopInv, Succ
<1>7. TypeOK'
  BY <1>1, <1>2, <1>3, <1>4, <1>5 DEF TypeOK
<1> HIDE DEF n
<1>8. /\ \A x \in finished : x # n /\ x \in Nodes /\ rank'[x] = rank[x]
      /\ rank'[n] = Cardinality(finished)
      /\ \A x \in Nodes : rank[x] \in Nat
  BY <1>1, <1>4 DEF TypeOK
<1>9. RankInv'
  <2>1. ASSUME NEW x \in finished' PROVE rank'[x] < Cardinality(finished')
    <3>1. rank'[x] = Cardinality(finished) \/ rank'[x] < Cardinality(finished)
      BY <1>1, <1>8, <2>1 DEF RankInv
    <3>2. rank'[x] \in Nat
      BY <1>1, <1>5, <1>8, <2>1
    <3> QED
      BY <1>1, <1>5, <3>1, <3>2
  <2>2. ASSUME NEW x \in finished', NEW m \in Nodes, <<x, m>> \in edges
        PROVE  m \in finished' /\ rank'[m] < rank'[x]
    <3>1. CASE x = n
      BY <1>1, <1>6, <1>8, <2>2, <3>1 DEF RankInv
    <3>2. CASE x \in finished
      BY <1>1, <1>8, <2>2, <3>2 DEF RankInv
    <3> QED
      BY <1>1, <2>2, <3>1, <3>2
  <2> QED
    BY <1>1, <2>1, <2>2 DEF RankInv
<1>10. PathInv'
  <2>1. \A i \in 1 .. Top - 1 : path[i] # n
    BY <1>1, <1>2 DEF PathInv, n
  <2>2. on_path' = {path'[i] : i \in DOMAIN path'}
    <3>1. \A i \in DOMAIN path : i = Top \/ i \in 1 .. Top - 1
      BY <1>2
    <3> QED
      BY <1>1, <1>2, <2>1, <3>1 DEF PathInv, n
  <2>3. \A i, j \in DOMAIN path' : path'[i] = path'[j] => i = j
    BY <1>1, <1>2 DEF PathInv
  <2>4. visited' = on_path' \cup finished' /\ on_path' \cap finished' = {}
    BY <1>1, <1>4 DEF PathInv
  <2> QED
    BY <1>2, <1>3, <2>2, <2>3, <2>4 DEF PathInv
<1>11. \A x : Succ(x)' = Succ(x)
  BY <1>1 DEF Succ
<1>12. LoopInv'
  <2> SUFFICES ASSUME NEW i \in 1 .. Top - 1, NEW m \in Succ(path[i])
               PROVE  \/ m \in todo[i]
                      \/ m \in finished'
                      \/ i + 1 \in 1 .. Top - 1 /\ m = path[i + 1]
    <3>1. \A i \in 1 .. Top - 1 : i + 1 \in 1 .. Top - 1 => path'[i + 1] = path[i + 1]
      BY <1>2
    <3> QED
      BY <1>2, <1>3, <1>11, <3>1 DEF LoopInv
  <2>1. m \in todo[i] \/ m \in finished \/ (i + 1 \in DOMAIN path /\ m = path[i + 1])
    BY <1>1, <1>2 DEF LoopInv
  <2>2. i + 1 = Top \/ i + 1 \in 1 .. Top - 1
    BY <1>2
  <2> QED
    BY <1>1, <2>1, <2>2 DEF n
<1>13. DescentInv'
  BY <1>1, <1>2 DEF DescentInv
<1>14. \A i \in DOMAIN path' : todo'[i] \subseteq Succ(path'[i])
  BY <1>2, <1>3 DEF IInv, Return
<1>15. Ends(edges)' \subseteq (roots \cup visited)'
  BY <1>1 DEF IInv, Ends
<1> QED
  BY <1>1, <1>7, <1>9, <1>10, <1>11, <1>12, <1>13, <1>14, <1>15
     DEF IInv, AcceptedIsAcyclic, RejectedIsCyclic

\* With all roots looked at every node is finished and the ranks go down all edges.
LEMMA AcceptKeepsInv ==
    ASSUME IInv, Accept
    PROVE  IInv'
<1>1. TypeOK /\ RankInv /\ Ends(edges) \subseteq finished
  <2>1. path = <<>> /\ PathInv
    BY DEF Accept, IInv
  <2>2. DOMAIN path = {}
    BY <2>1
  <2>3. visited = finished
    BY <2>1, <2>2 DEF PathInv
  <2> QED
    BY <2>3 DEF Accept, IInv
<1>2. Acyclic(Nodes, edges)
  BY <1>1, FinishedRanks
<1>3. UNCHANGED <<edges, path>> /\ verdict' = "acyclic" /\ TypeOK' /\ DescentInv
  BY DEF Accept, IInv, TypeOK
<1> QED
  BY <1>2, <1>3 DEF IInv, DescentInv, AcceptedIsAcyclic, RejectedIsCyclic

\* IInv holds in every state of the search.
LEMMA Inductive == Spec => []IInv
<1>1. Init => IInv
  <2> SUFFICES ASSUME Init PROVE IInv
    OBVIOUS
  <2>1. TypeOK
    BY DEF Init, TypeOK, Ends
  <2> QED
    BY <2>1 DEF Init, IInv, PathInv, RankInv, LoopInv, DescentInv, AcceptedIsAcyclic,
       RejectedIsCyclic
<1>2. IInv /\ [Next]_vars => IInv'
  <2> SUFFICES ASSUME IInv, [Next]_vars PROVE IInv'
    OBVIOUS
  <2>1. CASE UNCHANGED vars
    BY <2>1 DEF vars, IInv, TypeOK, PathInv, RankInv, LoopInv, DescentInv, AcceptedIsAcyclic,
       RejectedIsCyclic, Succ
  <2> QED
    BY <2>1, RootKeepsInv, LookKeepsInv, ReturnKeepsInv, AcceptKeepsInv DEF Next, Search, Done
<1> QED
  BY <1>1, <1>2, PTL DEF Spec

\* AcceptedIsAcyclic: Kernel::run starts its loop on no graph with a cycle.
THEOREM AcceptanceIsSound == Spec => []AcceptedIsAcyclic
<1>1. IInv => AcceptedIsAcyclic
  BY DEF IInv
<1> QED
  BY <1>1, Inductive, PTL

\* RejectedIsCyclic: Kernel::run refuses no graph for a cycle it does not have.
THEOREM RejectionIsSound == Spec => []RejectedIsCyclic
<1>1. IInv => RejectedIsCyclic
  BY DEF IInv
<1> QED
  BY <1>1, Inductive, PTL

-----------------------------------------------------------------------------
(***************************************************************************)
(* What is reported, and the closed walks that a ranking rules out.        *)
(***************************************************************************)

\* A call is nested in the call for a node with an edge to its own.
LEMMA CallKeepsWalk ==
    ASSUME TypeOK, WalkInv, verdict = "searching", UNCHANGED <<edges, verdict>>,
           NEW n \in Nodes, path # <<>> => n \in Succ(path[Top]),
           path' = Append(path, n)
    PROVE  WalkInv'
<1>1. /\ Len(path') = Top + 1 /\ path'[Top + 1] = n /\ Top \in Nat
      /\ \A i \in 1 .. Top : path'[i] = path[i]
  <2>1. path \in Seq(Nodes)
    BY DEF TypeOK
  <2> QED
    BY <2>1, Push DEF Top
<1>2. ASSUME NEW i \in 1 .. Top PROVE <<path'[i], path'[i + 1]>> \in edges
  <2>1. CASE i = Top
    <3>1. path # <<>>
      BY <1>1, <2>1 DEF Top
    <3> QED
      BY <1>1, <2>1, <3>1 DEF Succ
  <2>2. CASE i # Top
    <3>1. i \in 1 .. Top - 1 /\ i + 1 \in 1 .. Top
      BY <1>1, <2>2
    <3> QED
      BY <1>1, <3>1 DEF WalkInv
  <2> QED
    BY <2>1, <2>2
<1> QED
  BY <1>1, <1>2 DEF WalkInv, Top

\* An edge back to the path closes a walk that repeats no node but that one.
LEMMA ClosingKeepsWalk ==
    ASSUME TypeOK, PathInv, WalkInv, UNCHANGED edges,
           path # <<>>, NEW n \in Nodes, n \in Succ(path[Top]), n \in on_path,
           path' = Append(path, n)
    PROVE  WalkInv'
<1>1. /\ Len(path') = Top + 1 /\ path'[Top + 1] = n /\ Top \in Nat /\ Top >= 1
      /\ \A i \in 1 .. Top : path'[i] = path[i]
      /\ DOMAIN path = 1 .. Top
  <2>1. path \in Seq(Nodes)
    BY DEF TypeOK
  <2> QED
    BY <2>1, Push, Pop DEF Top
<1>2. ASSUME NEW i \in 1 .. Top PROVE <<path'[i], path'[i + 1]>> \in edges
  <2>1. CASE i = Top
    BY <1>1, <2>1 DEF Succ
  <2>2. CASE i # Top
    <3>1. i \in 1 .. Top - 1 /\ i + 1 \in 1 .. Top
      BY <1>1, <2>2
    <3> QED
      BY <1>1, <3>1 DEF WalkInv
  <2> QED
    BY <2>1, <2>2
<1>3. PICK start \in 1 .. Top : path[start] = n
  BY <1>1 DEF PathInv
<1>4. \A i, j \in 1 .. Top : path'[i] = path'[j] => i = j
  BY <1>1 DEF PathInv
<1>5. \E s \in 1 .. Top : path'[s] = path'[Top + 1]
  BY <1>1, <1>3
<1>6. Top' = Top + 1 /\ Top' - 1 = Top
  BY <1>1 DEF Top
<1> QED
  BY <1>2, <1>4, <1>5, <1>6 DEF WalkInv

LEMMA WalkStep ==
    ASSUME IInv, WalkInv, [Next]_vars
    PROVE  WalkInv'
<1>0. TypeOK
  BY DEF IInv
<1>1. CASE NextRoot
  <2>1. PICK n \in roots : \/ n \notin visited /\ Call(n, todo)
                           \/ n \in visited /\ UNCHANGED <<visited, on_path, path, todo>>
    BY <1>1 DEF NextRoot
  <2>2. verdict = "searching" /\ path = <<>> /\ UNCHANGED <<edges, verdict>> /\ n \in Nodes
    BY <1>0, <1>1 DEF NextRoot, TypeOK
  <2>3. CASE n \notin visited /\ Call(n, todo)
    BY <1>0, <2>2, <2>3, CallKeepsWalk DEF Call
  <2>4. CASE UNCHANGED path
    BY <2>2, <2>4 DEF WalkInv, Top
  <2> QED
    BY <2>1, <2>3, <2>4
<1>2. CASE Look
  <2>1. PICK next \in todo[Top] :
           \/ next \in on_path /\ path' = Append(path, next) /\ verdict' = "cycle"
           \/ path' = Append(path, next) /\ UNCHANGED verdict
           \/ UNCHANGED <<path, verdict>>
    BY <1>2 DEF Look, OnPath, Closed, Call
  <2>2. /\ verdict = "searching" /\ UNCHANGED edges /\ path # <<>> /\ PathInv
        /\ DOMAIN todo = DOMAIN path
        /\ \A i \in DOMAIN path : todo[i] \subseteq Succ(path[i])
    BY <1>2 DEF Look, IInv, PathInv
  <2>3. next \in Succ(path[Top]) /\ next \in Nodes
    <3>1. Top \in DOMAIN path
      BY <1>0, <2>2, Pop DEF TypeOK, Top
    <3> QED
      BY <2>2, <3>1 DEF Succ
  <2>4. CASE next \in on_path /\ path' = Append(path, next) /\ verdict' = "cycle"
    BY <1>0, <2>2, <2>3, <2>4, ClosingKeepsWalk
  <2>5. CASE path' = Append(path, next) /\ UNCHANGED verdict
    BY <1>0, <2>2, <2>3, <2>5, CallKeepsWalk
  <2>6. CASE UNCHANGED <<path, verdict>>
    BY <2>2, <2>6 DEF WalkInv, Top
  <2> QED
    BY <2>1, <2>4, <2>5, <2>6
<1>3. CASE Return
  <2>1. /\ verdict = "searching" /\ UNCHANGED <<edges, verdict>> /\ path # <<>>
        /\ path' = SubSeq(path, 1, Top - 1) /\ path \in Seq(Nodes)
    BY <1>0, <1>3 DEF Return, TypeOK
  <2>2. Top \in Nat /\ Top' = Top - 1 /\ \A i \in 1 .. Top - 1 : path'[i] = path[i]
    BY <2>1, Pop DEF Top
  <2>3. ASSUME NEW i \in 1 .. Top' - 1 PROVE <<path'[i], path'[i + 1]>> \in edges
    <3>1. i \in 1 .. Top - 1 /\ i + 1 \in 1 .. Top - 1
      BY <2>2
    <3> QED
      BY <2>2, <3>1 DEF WalkInv
  <2> QED
    BY <2>1, <2>3 DEF WalkInv
<1>4. CASE Accept
  BY <1>4 DEF Accept, WalkInv, Top
<1>5. CASE UNCHANGED vars
  BY <1>5 DEF vars, WalkInv, Top
<1> QED
  BY <1>1, <1>2, <1>3, <1>4, <1>5 DEF Next, Search, Done

LEMMA AlwaysWalk == Spec => [](IInv /\ WalkInv)
<1>1. Init => WalkInv
  BY DEF Init, WalkInv, Top
<1>2. IInv /\ WalkInv /\ [Next]_vars => WalkInv'
  BY WalkStep
<1> QED
  BY <1>1, <1>2, Inductive, PTL DEF Spec

\* ReportsACycle: what the panic of validate_no_cycles prints is a cycle.
THEOREM ReportIsACycle == Spec => []ReportsACycle
<1>1. IInv /\ WalkInv => ReportsACycle
  <2> SUFFICES ASSUME IInv, WalkInv, verdict = "cycle"
               PROVE  \E start \in 1 .. Top - 1 :
                        /\ path[start] = path[Top]
                        /\ \A i \in start .. Top - 1 : <<path[i], path[i + 1]>> \in edges
    BY DEF ReportsACycle
  <2>1. Top \in Nat
    BY DEF IInv, TypeOK, Top
  <2>2. PICK start \in 1 .. Top - 1 : path[start] = path[Top]
    BY DEF WalkInv
  <2>3. \A i \in start .. Top - 1 : i \in 1 .. Top - 1
    BY <2>1
  <2> QED
    BY <2>2, <2>3 DEF WalkInv
<1> QED
  BY <1>1, AlwaysWalk, PTL

\* NothingLeftBehind: each search from a root starts with a clean path, and what was
\* visited before it needs no second look.
THEOREM RootsStartClean == Spec => []NothingLeftBehind
<1>1. IInv => NothingLeftBehind
  <2> SUFFICES ASSUME IInv, verdict = "searching", path = <<>>
               PROVE  on_path = {} /\ \A e \in edges : e[1] \in visited => e[2] \in visited
    BY DEF NothingLeftBehind
  <2>1. on_path = {} /\ visited = finished
    <3>1. DOMAIN path = {}
      OBVIOUS
    <3> QED
      BY <3>1 DEF IInv, PathInv
  <2>2. ASSUME NEW e \in edges, e[1] \in finished PROVE e[2] \in finished
    <3>1. e = <<e[1], e[2]>> /\ e[2] \in Nodes
      BY DEF IInv, TypeOK
    <3> QED
      BY <2>2, <3>1 DEF IInv, RankInv
  <2> QED
    BY <2>1, <2>2
<1> QED
  BY <1>1, Inductive, PTL

\* A way along the edges that comes back to where it started, of whatever length.
ClosedWalk ==
    \E k \in Nat \ {0} : \E w \in [0 .. k -> Nodes] :
        /\ w[0] = w[k]
        /\ \A i \in 0 .. k - 1 : <<w[i], w[i + 1]>> \in edges

\* Where every edge goes down, no walk comes back: its lowest node has a successor.
LEMMA RankedHasNoClosedWalk ==
    ASSUME Acyclic(Nodes, edges)
    PROVE  ~ClosedWalk
<1> SUFFICES ASSUME NEW k \in Nat \ {0}, NEW w \in [0 .. k -> Nodes],
                    w[0] = w[k], \A i \in 0 .. k - 1 : <<w[i], w[i + 1]>> \in edges
             PROVE  FALSE
  BY DEF ClosedWalk
<1>1. Cardinality(Nodes) \in Nat
  BY NodesAssumption, FS_CardinalityType
<1>2. PICK r \in Ranks(Nodes) : Descends(r, edges)
  BY DEF Acyclic
<1>3. \A i \in 0 .. k : r[w[i]] \in Nat
  BY <1>1 DEF Ranks
<1> DEFINE T == {r[w[i]] : i \in 0 .. k}
<1>4. PICK m \in T : \A n \in T : m <= n
  <2>1. r[w[0]] \in T /\ T \subseteq Nat
    BY <1>1, <1>3
  <2> HIDE DEF T
  <2> QED
    BY <2>1, LeastNumber
<1>5. PICK i \in 0 .. k - 1 : r[w[i]] = m
  <2>1. PICK i \in 0 .. k : r[w[i]] = m
    BY <1>4
  <2>2. i \in 0 .. k - 1 \/ i = k
    BY <1>1
  <2>3. 0 \in 0 .. k - 1
    BY <1>1
  <2> QED
    BY <2>1, <2>2, <2>3
<1>6. i + 1 \in 0 .. k /\ i \in 0 .. k
  BY <1>1
<1>7. r[w[i + 1]] < r[w[i]]
  BY <1>2, <1>5 DEF Descends
<1>8. r[w[i]] <= r[w[i + 1]]
  BY <1>4, <1>5, <1>6
<1> QED
  BY <1>3, <1>6, <1>7, <1>8

\* The path that the search reports is such a walk.
LEMMA ReportIsClosedWalk ==
    ASSUME IInv, WalkInv, verdict = "cycle"
    PROVE  ClosedWalk
<1>1. Top \in Nat /\ path \in Seq(Nodes) /\ DOMAIN path = 1 .. Top
  BY DEF IInv, TypeOK, Top
<1>2. PICK start \in 1 .. Top - 1 : path[start] = path[Top]
  BY DEF WalkInv
<1> DEFINE k == Top - start
           w == [i \in 0 .. k |-> path[start + i]]
<1>3. k \in Nat /\ k >= 1 /\ start \in Nat /\ start >= 1 /\ start + k = Top
  BY <1>1
<1> HIDE DEF k
<1>4. w \in [0 .. k -> Nodes]
  <2>1. \A i \in 0 .. k : start + i \in 1 .. Top
    BY <1>1, <1>3
  <2> QED
    BY <1>1, <2>1
<1>5. w[0] = w[k]
  BY <1>1, <1>2, <1>3
<1>6. ASSUME NEW i \in 0 .. k - 1 PROVE <<w[i], w[i + 1]>> \in edges
  <2>1. /\ i \in 0 .. k /\ i + 1 \in 0 .. k /\ start + i \in 1 .. Top - 1
        /\ start + (i + 1) = (start + i) + 1
    BY <1>1, <1>3
  <2> QED
    BY <2>1 DEF WalkInv
<1>7. k \in Nat \ {0}
  BY <1>3
<1> HIDE DEF w
<1> QED
  BY <1>4, <1>5, <1>6, <1>7 DEF ClosedWalk

\* validate_no_cycles lets a graph through only if no message can come back to its own
\* type along declared productions, in however many hops, and panics only if one can.
THEOREM SearchDecidesClosedWalks ==
    Spec => [](/\ verdict = "acyclic" => ~ClosedWalk
               /\ verdict = "cycle" => ClosedWalk)
<1>1. IInv /\ WalkInv => /\ verdict = "acyclic" => ~ClosedWalk
                         /\ verdict = "cycle" => ClosedWalk
  BY RankedHasNoClosedWalk, ReportIsClosedWalk DEF IInv, AcceptedIsAcyclic
<1> QED
  BY <1>1, AlwaysWalk, PTL

-----------------------------------------------------------------------------
\* Progress. The prover does not reason about fairness; that no step of the search is taken
\* in vain, and that there is an end to them, is a fact about steps.

\* What the search has still to do: roots to take, nodes to finish, edges to look at, and
\* the answer.
Unseen ==
    {e \in edges : \/ e[1] \notin visited
                   \/ \E i \in DOMAIN todo : path[i] = e[1] /\ e[2] \in todo[i]}
Left ==
    Cardinality(roots) + Cardinality(Nodes \ finished) + Cardinality(Unseen)
        + (IF verdict = "searching" THEN 1 ELSE 0)

LEMMA Shrinks ==
    ASSUME NEW S, IsFiniteSet(S), NEW T \in SUBSET S
    PROVE  /\ Cardinality(S) \in Nat /\ Cardinality(T) \in Nat
           /\ Cardinality(T) <= Cardinality(S)
           /\ T # S => Cardinality(T) < Cardinality(S)
<1>1. Cardinality(S) \in Nat /\ IsFiniteSet(T) /\ Cardinality(T) <= Cardinality(S)
  BY FS_Subset, FS_CardinalityType
<1>2. Cardinality(T) \in Nat
  BY <1>1, FS_CardinalityType
<1>3. T # S => Cardinality(T) # Cardinality(S)
  BY FS_Subset
<1> QED
  BY <1>1, <1>2, <1>3

\* A call only adds edges of a node that was not visited before.
LEMMA CallSeesNoMore ==
    ASSUME IInv, verdict = "searching", UNCHANGED edges,
           NEW n \in Nodes, n \notin visited,
           NEW below \in Seq(SUBSET Nodes), DOMAIN below = DOMAIN path,
           \A i \in DOMAIN path : below[i] \subseteq todo[i],
           Call(n, below)
    PROVE  /\ Unseen' \subseteq Unseen
           /\ \A e \in Unseen' : \/ e[1] \notin visited
                                 \/ \E i \in DOMAIN path : path[i] = e[1] /\ e[2] \in below[i]
<1>1. /\ path \in Seq(Nodes) /\ DOMAIN todo = DOMAIN path
      /\ Top \in Nat /\ DOMAIN path = 1 .. Top
  BY DEF IInv, TypeOK, PathInv, Top
<1>2. /\ DOMAIN path' = 1 .. Top + 1
      /\ \A i \in DOMAIN path : path'[i] = path[i]
      /\ path'[Top + 1] = n
  <2>1. path' = Append(path, n)
    BY DEF Call
  <2> QED
    BY <1>1, <2>1, Push DEF Top
<1>3. /\ DOMAIN todo' = 1 .. Top + 1
      /\ \A i \in DOMAIN path : todo'[i] = below[i]
  <2>1. Succ(n) \in SUBSET Nodes /\ todo' = Append(below, Succ(n)) /\ Len(below) = Top
    BY <1>1 DEF Call, Succ
  <2> QED
    BY <1>1, <2>1, Push
<1>4. ASSUME NEW e \in Unseen'
      PROVE  /\ e \in edges
             /\ \/ e[1] \notin visited
                \/ \E i \in DOMAIN path : path[i] = e[1] /\ e[2] \in below[i]
  <2>1. /\ e \in edges
        /\ \/ e[1] \notin visited'
           \/ \E i \in DOMAIN todo' : path'[i] = e[1] /\ e[2] \in todo'[i]
    BY DEF Unseen
  <2>2. CASE e[1] \notin visited'
    BY <2>1, <2>2 DEF Call
  <2>3. ASSUME NEW i \in DOMAIN todo', path'[i] = e[1], e[2] \in todo'[i]
        PROVE  \/ e[1] \notin visited
               \/ \E j \in DOMAIN path : path[j] = e[1] /\ e[2] \in below[j]
    <3>1. CASE i = Top + 1
      BY <1>2, <2>3, <3>1
    <3>2. CASE i \in DOMAIN path
      BY <1>2, <1>3, <2>3, <3>2
    <3> QED
      BY <1>1, <1>3, <3>1, <3>2
  <2> QED
    BY <2>1, <2>2, <2>3
<1>5. ASSUME NEW e \in Unseen' PROVE e \in Unseen
  BY <1>1, <1>4 DEF Unseen
<1> QED
  BY <1>4, <1>5

\* No step of the search makes any of it more, and every step makes some of it less.
LEMMA StepsCount ==
    ASSUME IInv, Search
    PROVE  /\ roots' \subseteq roots /\ finished \subseteq finished' /\ Unseen' \subseteq Unseen
           /\ \/ roots' # roots
              \/ finished' # finished /\ finished' \subseteq Nodes
              \/ Unseen' # Unseen
              \/ verdict' # "searching"
           /\ verdict = "searching"
<1>1. CASE NextRoot
  <2>1. PICK n \in roots : /\ roots' = roots \ {n}
                          /\ \/ n \notin visited /\ Call(n, todo)
                             \/ n \in visited /\ UNCHANGED <<visited, on_path, path, todo>>
    BY <1>1 DEF NextRoot
  <2>2. /\ verdict = "searching" /\ UNCHANGED <<edges, verdict, rank, finished>>
        /\ n \in Nodes /\ todo \in Seq(SUBSET Nodes) /\ DOMAIN todo = DOMAIN path
    BY <1>1 DEF NextRoot, IInv, TypeOK, PathInv
  <2>3. CASE n \notin visited /\ Call(n, todo)
    <3>1. Unseen' \subseteq Unseen
      BY <2>2, <2>3, CallSeesNoMore
    <3> QED
      BY <2>1, <2>2, <3>1
  <2>4. CASE n \in visited /\ UNCHANGED <<visited, on_path, path, todo>>
    <3>1. Unseen' = Unseen
      BY <2>2, <2>4 DEF Unseen
    <3> QED
      BY <2>1, <2>2, <3>1
  <2> QED
    BY <2>1, <2>3, <2>4
<1>2. CASE Look
  <2>1. PICK next \in todo[Top] :
           \/ next \in on_path /\ path' = Append(path, next) /\ verdict' = "cycle"
              /\ UNCHANGED <<visited, on_path, todo>>
           \/ next \notin visited /\ Call(next, Rest(next)) /\ UNCHANGED verdict
           \/ next \notin on_path /\ next \in visited /\ todo' = Rest(next)
              /\ UNCHANGED <<visited, on_path, path, verdict>>
    BY <1>2 DEF Look, OnPath, Closed
  <2>2. /\ TypeOK /\ verdict = "searching" /\ UNCHANGED <<edges, roots, rank, finished>>
        /\ path # <<>> /\ PathInv
        /\ \A i \in DOMAIN path : todo[i] \subseteq Succ(path[i])
        /\ DOMAIN todo = DOMAIN path
    BY <1>2 DEF Look, IInv, PathInv
  <2>3. /\ Top \in Nat /\ Top >= 1 /\ DOMAIN path = 1 .. Top /\ Top \in DOMAIN path
        /\ path[Top] \in Nodes /\ next \in Succ(path[Top]) /\ next \in Nodes
        /\ path[Top] \in visited
    <3>1. path \in Seq(Nodes)
      BY <2>2 DEF TypeOK
    <3>2. Len(path) \in Nat /\ Len(path) >= 1
      BY <2>2, <3>1, Pop
    <3>3. DOMAIN path = 1 .. Top /\ Top \in DOMAIN path
      BY <3>1, <3>2 DEF Top
    <3> QED
      BY <2>1, <2>2, <3>1, <3>2, <3>3 DEF Succ, Top, PathInv
  <2>4. /\ Rest(next) \in Seq(SUBSET Nodes) /\ DOMAIN Rest(next) = DOMAIN path
        /\ \A i \in DOMAIN path : Rest(next)[i] = IF i = Top THEN todo[i] \ {next} ELSE todo[i]
    <3>1. todo \in Seq(SUBSET Nodes) /\ Top \in DOMAIN todo
      BY <2>2, <2>3 DEF TypeOK
    <3>2. todo[Top] \ {next} \in SUBSET Nodes
      BY <3>1
    <3> QED
      BY <2>2, <3>1, <3>2, Replace DEF Rest
  <2> DEFINE e == <<path[Top], next>>
  <2>5. e \in Unseen
    BY <2>1, <2>2, <2>3 DEF Unseen, Succ
  <2>6. ~ \E i \in DOMAIN path : path[i] = e[1] /\ e[2] \in Rest(next)[i]
    <3> SUFFICES ASSUME NEW i \in DOMAIN path, path[i] = path[Top], next \in Rest(next)[i]
                 PROVE  FALSE
      OBVIOUS
    <3>1. i = Top
      BY <2>2, <2>3 DEF PathInv
    <3> QED
      BY <2>4, <3>1
  <2>7. CASE /\ next \in on_path /\ path' = Append(path, next) /\ verdict' = "cycle"
             /\ UNCHANGED <<visited, on_path, todo>>
    <3>1. \A i \in DOMAIN path : path'[i] = path[i]
      BY <2>2, <2>3, <2>7, Push DEF TypeOK
    <3>2. Unseen' = Unseen
      BY <2>2, <2>7, <3>1 DEF Unseen
    <3> QED
      BY <2>2, <2>7, <3>2
  <2>8. CASE next \notin visited /\ Call(next, Rest(next)) /\ UNCHANGED verdict
    <3>1. \A i \in DOMAIN path : Rest(next)[i] \subseteq todo[i]
      BY <2>4
    <3>2. /\ Unseen' \subseteq Unseen
          /\ \A x \in Unseen' : \/ x[1] \notin visited
                                \/ \E i \in DOMAIN path : path[i] = x[1] /\ x[2] \in Rest(next)[i]
      BY <2>2, <2>3, <2>4, <2>8, <3>1, CallSeesNoMore
    <3>3. e \notin Unseen'
      BY <2>3, <2>6, <3>2
    <3> QED
      BY <2>2, <2>5, <3>2, <3>3
  <2>9. CASE /\ next \notin on_path /\ next \in visited /\ todo' = Rest(next)
             /\ UNCHANGED <<visited, on_path, path, verdict>>
    <3>1. ASSUME NEW x \in Unseen' PROVE x \in Unseen
      BY <2>2, <2>4, <2>9 DEF Unseen
    <3>2. e \notin Unseen'
      BY <2>2, <2>3, <2>4, <2>6, <2>9 DEF Unseen
    <3> QED
      BY <2>2, <2>5, <3>1, <3>2
  <2> QED
    BY <2>1, <2>7, <2>8, <2>9
<1>3. CASE Return
  <2> DEFINE n == path[Top]
  <2>1. /\ TypeOK /\ verdict = "searching" /\ UNCHANGED <<edges, roots, visited, verdict>>
        /\ path # <<>> /\ PathInv /\ finished' = finished \cup {n}
    BY <1>3 DEF Return, IInv
  <2>2. /\ Top \in Nat /\ Top >= 1 /\ DOMAIN path = 1 .. Top
        /\ DOMAIN path' = 1 .. Top - 1
        /\ \A i \in 1 .. Top - 1 : path'[i] = path[i]
    <3>1. path \in Seq(Nodes) /\ path' = SubSeq(path, 1, Len(path) - 1)
      BY <1>3, <2>1 DEF TypeOK, Return, Top
    <3> QED
      BY <2>1, <3>1, Pop DEF Top
  <2>3. /\ DOMAIN todo' = 1 .. Top - 1 /\ DOMAIN todo = 1 .. Top
        /\ \A i \in 1 .. Top - 1 : todo'[i] = todo[i]
    <3>1. todo \in Seq(SUBSET Nodes) /\ DOMAIN todo = 1 .. Top
      BY <2>1, <2>2 DEF TypeOK, PathInv
    <3>2. Len(todo) = Top /\ todo # <<>>
      BY <2>2, <3>1
    <3>3. todo' = SubSeq(todo, 1, Len(todo) - 1)
      BY <1>3, <3>2 DEF Return
    <3> QED
      BY <3>1, <3>2, <3>3, Pop
  <2>4. n \in Nodes /\ n \notin finished
    BY <2>1, <2>2 DEF TypeOK, PathInv
  <2>5. ASSUME NEW x \in Unseen' PROVE x \in Unseen
    <3>1. /\ x \in edges
          /\ \/ x[1] \notin visited
             \/ \E i \in 1 .. Top - 1 : path[i] = x[1] /\ x[2] \in todo[i]
      BY <2>1, <2>2, <2>3 DEF Unseen
    <3>2. \A i \in 1 .. Top - 1 : i \in DOMAIN todo
      BY <2>2, <2>3
    <3> QED
      BY <3>1, <3>2 DEF Unseen
  <2> QED
    BY <2>1, <2>4, <2>5 DEF TypeOK
<1>4. CASE Accept
  <2>1. Unseen' = Unseen
    BY <1>4 DEF Accept, Unseen
  <2> QED
    BY <1>4, <2>1 DEF Accept
<1> QED
  BY <1>1, <1>2, <1>3, <1>4 DEF Search

\* validate_no_cycles cannot go on for ever: each turn of its loops, each call and each
\* return leaves it less to do, and there is never less than nothing.
THEOREM EveryStepCounts == Spec => [][Search => Left \in Nat /\ Left' \in Nat /\ Left' < Left]_vars
<1>1. IInv /\ [Next]_vars => [Search => Left \in Nat /\ Left' \in Nat /\ Left' < Left]_vars
  <2> SUFFICES ASSUME IInv, Search
               PROVE  Left \in Nat /\ Left' \in Nat /\ Left' < Left
    OBVIOUS
  <2>1. /\ IsFiniteSet(roots) /\ IsFiniteSet(Nodes \ finished) /\ IsFiniteSet(Unseen)
    <3>1. IsFiniteSet(Nodes \X Nodes)
      BY NodesAssumption, FS_Product
    <3>2. Unseen \in SUBSET (Nodes \X Nodes) /\ roots \in SUBSET Nodes
          /\ Nodes \ finished \in SUBSET Nodes
      BY DEF IInv, TypeOK, Unseen
    <3> QED
      BY <3>1, <3>2, NodesAssumption, FS_Subset
  <2>2. /\ roots' \in SUBSET roots /\ Nodes \ finished' \in SUBSET (Nodes \ finished)
        /\ Unseen' \in SUBSET Unseen
        /\ \/ roots' # roots
           \/ Nodes \ finished' # Nodes \ finished
           \/ Unseen' # Unseen
           \/ verdict' # "searching"
        /\ verdict = "searching"
    <3>1. finished \subseteq Nodes
      BY DEF IInv, TypeOK
    <3>2. ASSUME finished' \subseteq Nodes, Nodes \ finished' = Nodes \ finished PROVE finished' = finished
      BY <3>1, <3>2
    <3> QED
      BY <3>2, StepsCount
  <2>3. PICK a \in Nat, b \in Nat, c \in Nat :
          /\ a = Cardinality(roots) /\ b = Cardinality(Nodes \ finished) /\ c = Cardinality(Unseen)
    BY <2>1, FS_CardinalityType
  <2>4. PICK x \in Nat : x = Cardinality(roots') /\ x <= a /\ (roots' # roots => x < a)
    BY <2>1, <2>2, <2>3, Shrinks
  <2>5. PICK y \in Nat : /\ y = Cardinality(Nodes \ finished') /\ y <= b
                         /\ (Nodes \ finished' # Nodes \ finished => y < b)
    BY <2>1, <2>2, <2>3, Shrinks
  <2>6. PICK z \in Nat : z = Cardinality(Unseen') /\ z <= c /\ (Unseen' # Unseen => z < c)
    BY <2>1, <2>2, <2>3, Shrinks
  <2>7. Left = a + b + c + 1
    BY <2>2, <2>3 DEF Left
  <2>8. Left' = x + y + z + (IF verdict' = "searching" THEN 1 ELSE 0)
    BY <2>4, <2>5, <2>6 DEF Left
  <2> QED
    BY <2>2, <2>4, <2>5, <2>6, <2>7, <2>8
<1> QED
  BY <1>1, Inductive, PTL DEF Spec
=============================================================================

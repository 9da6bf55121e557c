------------------------- MODULE GraphTraversal_proofs -------------------------
(***************************************************************************)
(* For every graph, query and order of edges: the types of a walk, its     *)
(* bounds, and what its end means.  The invariant says what has been done  *)
(* with the nodes taken so far: their matching edges are admitted or still *)
(* to be looked at, nothing else is, and the walk only stops in the midst  *)
(* of a node.                                                              *)
(***************************************************************************)
EXTENDS GraphTraversal, FiniteSetTheorems, TLAPS

(* A node that has edges left to look at is above the largest depth, and    *)
(* they are edges of its own that have not been admitted.                   *)
Expanding ==
  todo # {} => /\ next > 0 /\ Current.depth < query.maxDepth
               /\ todo \subseteq Incident(query, Current.node) \ edges

Expanded ==
  \A i \in 1..next : visits[i].depth < query.maxDepth =>
    Incident(query, visits[i].node) \subseteq edges \union (IF i = next THEN todo ELSE {})

OnlyExpanded ==
  \A e \in edges : \E i \in 1..next :
    visits[i].depth < query.maxDepth /\ e \in Incident(query, visits[i].node)

StopsAtAnEdge == stopped # "none" => todo # {}

WalkInv == WalkTypeOK /\ Expanding /\ Expanded /\ OnlyExpanded /\ StopsAtAnEdge /\ WithinBounds

-----------------------------------------------------------------------------
(* A visit is of a node of the query, within its depth.                     *)
LEMMA VisitType ==
  ASSUME WalkTypeOK, NEW i \in 1..Len(visits)
  PROVE  visits[i].node \in query.nodes /\ visits[i].depth \in 0..query.maxDepth
<1> DEFINE Visit == [node : query.nodes, depth : 0..query.maxDepth]
<1>1. visits \in Seq(Visit)
  BY DEF WalkTypeOK
<1> HIDE DEF Visit
<1>2. visits[i] \in Visit
  BY <1>1
<1> QED BY <1>2 DEF Visit

(* What a walk has seen is finite.                                          *)
LEMMA SeenNodes ==
  ASSUME WalkTypeOK
  PROVE  Seen \subseteq Nodes /\ IsFiniteSet(Seen) /\ IsFiniteSet(edges)
<1>1. query.nodes \subseteq Nodes /\ query.edges \subseteq Edges
  BY DEF WalkTypeOK, Queries
<1>2. \A i \in 1..Len(visits) : visits[i].node \in query.nodes
  BY VisitType
<1>3. Seen \subseteq Nodes
  BY <1>1, <1>2 DEF Seen
<1>4. edges \subseteq Edges
  BY <1>1 DEF WalkTypeOK
<1> QED BY <1>3, <1>4, FS_Subset, EdgesAssumption

(* One more visit adds its node and leaves those before it where they were. *)
LEMMA SeenAfter ==
  ASSUME WalkTypeOK, NEW n \in query.nodes, NEW d \in 0..query.maxDepth,
         visits' = Append(visits, [node |-> n, depth |-> d])
  PROVE  /\ Seen' = Seen \union {n}
         /\ Len(visits') = Len(visits) + 1
         /\ \A i \in 1..Len(visits) : visits'[i] = visits[i]
<1>1. visits \in Seq([node : query.nodes, depth : 0..query.maxDepth])
  BY DEF WalkTypeOK
<1>2. Len(visits) \in Nat /\ Len(visits') = Len(visits) + 1
  BY <1>1
<1>3. \A i \in 1..Len(visits) : visits'[i] = visits[i]
  BY <1>1
<1>4. visits'[Len(visits) + 1] = [node |-> n, depth |-> d]
  BY <1>1
<1>5. 1..Len(visits') = 1..Len(visits) \union {Len(visits) + 1}
  BY <1>2
<1>6. Seen' = {visits'[i].node : i \in 1..Len(visits) \union {Len(visits) + 1}}
  BY <1>5 DEF Seen
<1>7. Seen' = {visits'[i].node : i \in 1..Len(visits)} \union {n}
  BY <1>4, <1>6
<1> QED BY <1>2, <1>3, <1>7 DEF Seen

-----------------------------------------------------------------------------
(* A walk begins with its seed, if it has one.                              *)
LEMMA WalkBegins == WalkInit => WalkInv
<1> SUFFICES ASSUME WalkInit
             PROVE  WalkInv
  OBVIOUS
<1>1. query \in Queries /\ Closed(query) /\ query.maxDepth \in Nat
      /\ query.maxNodes \in Nat \ {0} /\ query.maxEdges \in Nat
  BY DEF WalkInit, Queries
<1>2. WalkTypeOK
  <2> DEFINE Visit == [node : query.nodes, depth : 0..query.maxDepth]
             seed == [node |-> query.seed, depth |-> 0]
  <2>3. query.seed \in query.nodes => seed \in Visit
    BY <1>1
  <2>4. visits = IF query.seed \in query.nodes THEN <<seed>> ELSE <<>>
    BY DEF WalkInit
  <2>1. visits \in Seq(Visit)
    <3> HIDE DEF Visit, seed
    <3> QED BY <2>3, <2>4
  <2>2. Len(visits) \in Nat
    BY <2>1
  <2> QED BY <1>1, <2>1, <2>2 DEF WalkInit, WalkTypeOK
<1>3. Seen = {} \/ Seen = {query.seed}
  <2>1. CASE query.seed \in query.nodes
    BY <2>1 DEF WalkInit, Seen
  <2>2. CASE query.seed \notin query.nodes
    BY <2>2 DEF WalkInit, Seen
  <2> QED BY <2>1, <2>2
<1>4. Cardinality(Seen) <= 1
  BY <1>3, FS_EmptySet, FS_Singleton
<1>5. WithinBounds
  BY <1>1, <1>4, FS_EmptySet, SeenNodes, <1>2, FS_CardinalityType DEF WalkInit, WithinBounds
<1> QED BY <1>2, <1>5 DEF WalkInit, WalkInv, Expanding, Expanded, OnlyExpanded, StopsAtAnEdge

(* Taking a node: its matching edges are all still to be looked at.         *)
LEMMA TakeKeeps == WalkInv /\ Take => WalkInv'
<1> SUFFICES ASSUME WalkInv, Take
             PROVE  WalkInv'
  OBVIOUS
<1> USE DEF WalkInv
<1>1. /\ visits \in Seq([node : query.nodes, depth : 0..query.maxDepth])
      /\ Len(visits) \in Nat /\ next \in 0..Len(visits) /\ query.maxDepth \in Nat
  BY DEF WalkTypeOK, Queries
<1>2. next' = next + 1 /\ next' \in 1..Len(visits) /\ todo = {} /\ stopped = "none"
  BY <1>1 DEF Take
<1>3. /\ query' = query /\ visits' = visits /\ edges' = edges /\ stopped' = stopped
      /\ todo' = IF visits[next'].depth = query.maxDepth THEN {}
                 ELSE Incident(query, visits[next'].node) \ edges
  BY <1>2 DEF Take
<1>4. visits[next'].depth \in 0..query.maxDepth
  BY <1>2, VisitType
<1>5. WalkTypeOK'
  BY <1>1, <1>2, <1>3 DEF WalkTypeOK, Incident
<1>6. Expanding'
  BY <1>1, <1>2, <1>3, <1>4 DEF Expanding, Current, Incident
<1>7. Expanded'
  <2> SUFFICES ASSUME NEW i \in 1..next', visits[i].depth < query.maxDepth
               PROVE  Incident(query, visits[i].node) \subseteq edges \union (IF i = next' THEN todo' ELSE {})
    BY <1>3 DEF Expanded, Incident
  <2>1. CASE i = next'
    BY <1>3, <1>4, <2>1
  <2>2. CASE i \in 1..next
    BY <1>2, <2>2 DEF Expanded
  <2> QED BY <1>1, <1>2, <2>1, <2>2
<1>8. OnlyExpanded'
  <2>1. 1..next \subseteq 1..next'
    BY <1>1, <1>2
  <2> QED BY <1>3, <2>1 DEF OnlyExpanded, Incident
<1>9. WithinBounds' /\ StopsAtAnEdge'
  BY <1>2, <1>3 DEF WithinBounds, Seen, StopsAtAnEdge
<1> QED BY <1>5, <1>6, <1>7, <1>8, <1>9

(* Refusing an edge: the walk stops in front of it.                         *)
LEMMA RefuseKeeps ==
  ASSUME WalkInv, NEW e \in Edges, Refuse(e)
  PROVE  WalkInv'
<1> USE DEF WalkInv
<1>1. UNCHANGED <<query, visits, next, todo, edges>> /\ todo # {}
  BY DEF Refuse, First
<1>2. stopped' \in {"edge_limit", "node_limit"}
  BY DEF Refuse
<1>3. WalkTypeOK'
  BY <1>1, <1>2 DEF WalkTypeOK, Closed
<1>4. Expanding' /\ Expanded' /\ OnlyExpanded'
  BY <1>1 DEF Expanding, Expanded, OnlyExpanded, Incident, Current
<1>5. WithinBounds' /\ StopsAtAnEdge'
  BY <1>1 DEF WithinBounds, Seen, StopsAtAnEdge
<1> QED BY <1>3, <1>4, <1>5

(* Admitting an edge: it leaves the list, and its far end, if new, joins    *)
(* the queue one level down.                                                *)
LEMMA AdmitKeeps ==
  ASSUME WalkInv, NEW e \in Edges, Admit(e)
  PROVE  WalkInv'
<1> USE DEF WalkInv
<1> DEFINE n == Other(e, Current.node)
           d == Current.depth + 1
<1>1. /\ visits \in Seq([node : query.nodes, depth : 0..query.maxDepth])
      /\ Len(visits) \in Nat /\ next \in 0..Len(visits)
      /\ query.maxDepth \in Nat /\ query.maxNodes \in Nat \ {0} /\ query.maxEdges \in Nat
  BY DEF WalkTypeOK, Queries
<1>2. /\ query' = query /\ next' = next /\ stopped' = stopped /\ stopped = "none"
      /\ edges' = edges \union {e} /\ todo' = todo \ {e} /\ e \in todo
  BY DEF Admit, First
<1>3. /\ next \in 1..Len(visits) /\ Current.depth < query.maxDepth /\ Current.depth \in 0..query.maxDepth
      /\ todo \subseteq Incident(query, Current.node) \ edges
  <2>1. next \in 1..Len(visits)
    BY <1>1, <1>2 DEF Expanding
  <2>2. Current.depth \in 0..query.maxDepth
    BY <2>1, VisitType DEF Current
  <2> QED BY <1>2, <2>1, <2>2 DEF Expanding
<1>4. /\ e \in query.edges /\ e \notin edges /\ e \in Incident(query, Current.node)
      /\ {e.source, e.target} = {Current.node, n}
  BY <1>2, <1>3 DEF Incident, Other
<1>5. n \in query.nodes /\ d \in 0..query.maxDepth
  <2>1. {e.source, e.target} \subseteq query.nodes
    BY <1>4 DEF WalkTypeOK, Closed
  <2>2. n \in {e.source, e.target}
    BY <1>4
  <2> QED BY <1>1, <1>3, <2>1, <2>2
<1>6. Current.node \in Seen
  BY <1>3 DEF Current, Seen
<1>7. /\ visits' \in Seq([node : query.nodes, depth : 0..query.maxDepth])
      /\ Len(visits') >= Len(visits) /\ Len(visits') \in Nat
      /\ \A i \in 1..Len(visits) : visits'[i] = visits[i]
      /\ Seen' = Seen \union {n}
  <2>1. CASE n \in Seen
    BY <1>1, <2>1 DEF Admit, Seen
  <2>2. CASE n \notin Seen
    <3>1. visits' = Append(visits, [node |-> n, depth |-> d])
      BY <2>2 DEF Admit
    <3>2. visits' \in Seq([node : query.nodes, depth : 0..query.maxDepth])
      BY <1>1, <1>5, <3>1
    <3>3. WalkTypeOK
      OBVIOUS
    <3>4. /\ Seen' = Seen \union {n}
          /\ Len(visits') = Len(visits) + 1
          /\ \A i \in 1..Len(visits) : visits'[i] = visits[i]
      <4> HIDE DEF n, d, WalkInv
      <4> QED BY ONLY <1>5, <3>1, <3>3, SeenAfter
    <3>5. Len(visits') >= Len(visits) /\ Len(visits') \in Nat
      <4> HIDE DEF n, d, WalkInv
      <4> QED BY <1>1, <3>4
    <3> QED BY <3>2, <3>4, <3>5
  <2> QED BY <2>1, <2>2
<1>8. Current' = Current
  BY <1>2, <1>3, <1>7 DEF Current
<1>9. WalkTypeOK'
  BY <1>1, <1>2, <1>3, <1>4, <1>7 DEF WalkTypeOK, Closed, Incident
<1>10. Expanding'
  BY <1>1, <1>2, <1>3, <1>8 DEF Expanding, Incident
<1>11. Expanded'
  <2>1. \A i \in 1..next : i \in 1..Len(visits)
    BY <1>1
  <2>2. edges' \union todo' = edges \union todo /\ edges \subseteq edges'
    BY <1>2
  <2>3. \A i \in 1..next : visits'[i] = visits[i]
    BY <1>7, <2>1
  <2> SUFFICES ASSUME NEW i \in 1..next, visits[i].depth < query.maxDepth
               PROVE  Incident(query, visits[i].node) \subseteq edges' \union (IF i = next THEN todo' ELSE {})
    BY <1>2, <2>3 DEF Expanded, Incident
  <2>4. Incident(query, visits[i].node) \subseteq edges \union (IF i = next THEN todo ELSE {})
    BY DEF Expanded
  <2> QED BY <2>2, <2>4
<1>12. OnlyExpanded'
  <2> SUFFICES ASSUME NEW f \in edges'
               PROVE  \E i \in 1..next :
                        visits'[i].depth < query.maxDepth /\ f \in Incident(query, visits'[i].node)
    BY <1>2 DEF OnlyExpanded, Incident
  <2>1. 1..next \subseteq 1..Len(visits) /\ next \in 1..next
    BY <1>1, <1>3
  <2>2. CASE f = e
    BY <1>3, <1>4, <1>7, <2>1, <2>2 DEF Current
  <2>3. CASE f \in edges
    <3>1. PICK i \in 1..next : visits[i].depth < query.maxDepth /\ f \in Incident(query, visits[i].node)
      BY <2>3 DEF OnlyExpanded
    <3> QED BY <1>7, <2>1, <3>1
  <2> QED BY <1>2, <2>2, <2>3
<1>13. WithinBounds'
  <2>1. IsFiniteSet(Seen) /\ IsFiniteSet(edges)
    BY SeenNodes
  <2>2. Cardinality(edges') <= query.maxEdges
    <3>1. Cardinality(edges) \in Nat /\ Cardinality(edges') = Cardinality(edges) + 1
      BY <1>2, <1>4, <2>1, FS_AddElement, FS_CardinalityType
    <3>2. Cardinality(edges) # query.maxEdges /\ Cardinality(edges) <= query.maxEdges
      BY DEF Admit, WithinBounds
    <3> QED BY <1>1, <3>1, <3>2
  <2>3. Cardinality(Seen') <= query.maxNodes
    <3>1. CASE n \in Seen
      <4>1. Seen' = Seen
        BY <1>7, <3>1
      <4> QED BY <4>1 DEF WithinBounds
    <3>2. CASE n \notin Seen
      <4>1. Cardinality(Seen) \in Nat /\ Cardinality(Seen') = Cardinality(Seen) + 1
        BY <1>7, <2>1, <3>2, FS_AddElement, FS_CardinalityType
      <4>2. Cardinality(Seen) # query.maxNodes /\ Cardinality(Seen) <= query.maxNodes
        BY <3>2 DEF Admit, WithinBounds
      <4> QED BY <1>1, <4>1, <4>2
    <3> QED BY <3>1, <3>2
  <2>4. \A f \in edges' : {f.source, f.target} \subseteq Seen'
    BY <1>2, <1>4, <1>6, <1>7 DEF WithinBounds
  <2> QED BY <1>2, <2>2, <2>3, <2>4 DEF WithinBounds
<1>14. StopsAtAnEdge'
  BY <1>2 DEF StopsAtAnEdge
<1> QED BY <1>9, <1>10, <1>11, <1>12, <1>13, <1>14

(* The invariant holds of every walk.                                       *)
LEMMA WalkInductive == WalkSpec => []WalkInv
<1>1. WalkInv /\ [Step]_walk => WalkInv'
  <2> SUFFICES ASSUME WalkInv, [Step]_walk
               PROVE  WalkInv'
    OBVIOUS
  <2>1. CASE Take
    BY <2>1, TakeKeeps
  <2>2. CASE \E e \in Edges : Refuse(e) \/ Admit(e)
    BY <2>2, RefuseKeeps, AdmitKeeps
  <2>3. CASE UNCHANGED walk
    BY <2>3 DEF walk, WalkInv, WalkTypeOK, Closed, Expanding, Expanded, OnlyExpanded, StopsAtAnEdge,
                WithinBounds, Incident, Current, Seen
  <2> QED BY <2>1, <2>2, <2>3 DEF Step
<1> QED BY <1>1, WalkBegins, PTL DEF WalkSpec

(* A walk of any closed graph stays inside the graph, its depths inside the *)
(* depth that was asked for.                                                *)
THEOREM WalkTypes == WalkSpec => []WalkTypeOK
<1>1. WalkInv => WalkTypeOK
  BY DEF WalkInv
<1> QED BY <1>1, WalkInductive, PTL

(* Its bounds hold at every step, and its edges join its nodes.             *)
THEOREM WalkBounded == WalkSpec => []WithinBounds
<1>1. WalkInv => WithinBounds
  BY DEF WalkInv
<1> QED BY <1>1, WalkInductive, PTL

(* What the invariant says of a walk at rest.                               *)
LEMMA RestMeans == WalkInv => StoppedOrComplete
<1> SUFFICES ASSUME WalkInv, AtRest
             PROVE  StoppedOrComplete
  BY DEF StoppedOrComplete
<1> DEFINE wanted == UNION {Incident(query, visits[i].node) :
                              i \in {j \in 1..Len(visits) : visits[j].depth < query.maxDepth}}
<1>1. CASE stopped = "none"
  <2>1. todo = {} /\ next = Len(visits)
    BY <1>1 DEF AtRest
  <2>2. wanted \subseteq edges
    BY <2>1 DEF WalkInv, Expanded
  <2>3. edges \subseteq wanted
    <3>1. 1..next \subseteq 1..Len(visits)
      BY DEF WalkInv, WalkTypeOK
    <3> QED BY <3>1 DEF WalkInv, OnlyExpanded
  <2> QED BY <1>1, <2>2, <2>3 DEF StoppedOrComplete
<1>2. CASE stopped # "none"
  <2>1. PICK e \in todo : TRUE
    BY <1>2 DEF WalkInv, StopsAtAnEdge
  <2>2. next \in 1..Len(visits) /\ visits[next].depth < query.maxDepth
    BY <2>1 DEF WalkInv, WalkTypeOK, Expanding, Current
  <2>3. e \in Incident(query, visits[next].node) /\ e \notin edges
    BY <2>1 DEF WalkInv, Expanding, Current
  <2>4. e \in wanted \ edges
    BY <2>2, <2>3
  <2> QED BY <1>2, <2>4 DEF StoppedOrComplete
<1> QED BY <1>1, <1>2

(* A walk that ends without naming a bound has every matching edge of every *)
(* node above the largest depth; one that names a bound has left one out.   *)
THEOREM WalkStoppedOrComplete == WalkSpec => []StoppedOrComplete
<1> QED BY RestMeans, WalkInductive, PTL


-----------------------------------------------------------------------------
(* First in, first out: the seed comes first, depths never fall along the   *)
(* queue and never run more than one level ahead of the node taken last, so *)
(* the far end of an edge looked at lies at most one level below.           *)
Seeded == query.seed \in query.nodes =>
            visits # <<>> /\ visits[1].node = query.seed /\ visits[1].depth = 0

ByDepth == \A i, j \in 1..Len(visits) : i <= j => visits[i].depth <= visits[j].depth

Frontier == \A i \in 1..Len(visits) :
              visits[i].depth <= IF next = 0 THEN 0 ELSE visits[next].depth + 1

Near ==
  \A i \in 1..next : visits[i].depth < query.maxDepth =>
    \A e \in Incident(query, visits[i].node) \intersect edges : \E j \in 1..Len(visits) :
      visits[j].node = Other(e, visits[i].node) /\ visits[j].depth <= visits[i].depth + 1

LevelInv == Seeded /\ ByDepth /\ Frontier /\ Near

(* A new walk has its seed at level 0, or nothing.                          *)
LEMMA LevelsBegin ==
  ASSUME NEW q, Traverse(q)
  PROVE  LevelInv'
<1>1. /\ query' = q /\ next' = 0
      /\ visits' = IF q.seed \in q.nodes THEN <<[node |-> q.seed, depth |-> 0]>> ELSE <<>>
  BY DEF Traverse
<1>2. CASE q.seed \in q.nodes
  <2>1. PICK v : v = [node |-> q.seed, depth |-> 0]
    OBVIOUS
  <2>2. visits' = <<v>> /\ Len(visits') = 1 /\ visits'[1] = v /\ visits' # <<>>
    BY <1>1, <1>2, <2>1
  <2>3. v.node = q.seed /\ v.depth = 0
    BY <2>1
  <2> QED BY <1>1, <2>2, <2>3 DEF LevelInv, Seeded, ByDepth, Frontier, Near
<1>3. CASE q.seed \notin q.nodes
  <2>1. visits' = <<>> /\ Len(visits') = 0
    BY <1>1, <1>3
  <2> QED BY <1>1, <1>3, <2>1 DEF LevelInv, Seeded, ByDepth, Frontier, Near
<1> QED BY <1>2, <1>3

(* The next of the queue is at least as deep as the one before it; an edge  *)
(* it shares with a node taken earlier leads back up.                       *)
LEMMA TakeKeepsLevels == WalkInv /\ LevelInv /\ Take => LevelInv'
<1> SUFFICES ASSUME WalkInv, LevelInv, Take
             PROVE  LevelInv'
  OBVIOUS
<1>1. /\ next' = next + 1 /\ todo = {} /\ next < Len(visits)
      /\ query' = query /\ visits' = visits /\ edges' = edges
  BY DEF Take
<1>2. /\ Len(visits) \in Nat /\ next \in 0..Len(visits) /\ query.maxDepth \in Nat
      /\ \A i \in 1..Len(visits) : visits[i].depth \in 0..query.maxDepth
  BY VisitType DEF WalkInv, WalkTypeOK, Queries
<1>3. Seeded' /\ ByDepth'
  BY <1>1 DEF LevelInv, Seeded, ByDepth
<1>4. Frontier'
  <2> SUFFICES ASSUME NEW i \in 1..Len(visits)
               PROVE  visits[i].depth <= visits[next + 1].depth + 1
    BY <1>1, <1>2 DEF Frontier
  <2>1. visits[i].depth <= IF next = 0 THEN 0 ELSE visits[next].depth + 1
    BY DEF LevelInv, Frontier
  <2>2. next # 0 => visits[next].depth <= visits[next + 1].depth
    BY <1>1, <1>2 DEF LevelInv, ByDepth
  <2>3. next + 1 \in 1..Len(visits) /\ (next # 0 => next \in 1..Len(visits))
    BY <1>1, <1>2
  <2> QED BY <1>2, <2>1, <2>2, <2>3
<1>5. Near'
  <2> SUFFICES ASSUME NEW i \in 1..(next + 1), visits[i].depth < query.maxDepth,
                      NEW e \in Incident(query, visits[i].node) \intersect edges
               PROVE  \E j \in 1..Len(visits) :
                        visits[j].node = Other(e, visits[i].node) /\ visits[j].depth <= visits[i].depth + 1
    BY <1>1 DEF Near, Incident, Other
  <2>1. CASE i \in 1..next
    BY <2>1 DEF LevelInv, Near
  <2>2. CASE i = next + 1
    <3>1. PICK j \in 1..next : visits[j].depth < query.maxDepth /\ e \in Incident(query, visits[j].node)
      BY DEF WalkInv, OnlyExpanded
    <3>2. j \in 1..Len(visits) /\ i \in 1..Len(visits) /\ j <= i
      BY <1>1, <1>2, <2>2
    <3>3. visits[j].depth <= visits[i].depth
      BY <3>2 DEF LevelInv, ByDepth
    <3>4. CASE visits[j].node = visits[i].node
      <4>1. PICK m \in 1..Len(visits) :
              visits[m].node = Other(e, visits[j].node) /\ visits[m].depth <= visits[j].depth + 1
        BY <3>1 DEF LevelInv, Near
      <4>2. visits[m].depth <= visits[i].depth + 1
        BY <1>2, <3>2, <3>3, <4>1
      <4> QED BY <3>4, <4>1, <4>2
    <3>5. CASE visits[j].node # visits[i].node
      <4>1. visits[j].node = Other(e, visits[i].node)
        BY <3>1, <3>5 DEF Incident, Other
      <4>2. visits[j].depth <= visits[i].depth + 1
        BY <1>2, <3>2, <3>3
      <4> QED BY <3>2, <4>1, <4>2
    <3> QED BY <3>4, <3>5
  <2> QED BY <1>2, <2>1, <2>2
<1> QED BY <1>3, <1>4, <1>5 DEF LevelInv

(* What an edge discovers lies one level below the node it was taken from.  *)
LEMMA AdmitKeepsLevels ==
  ASSUME WalkInv, LevelInv, NEW e \in Edges, Admit(e)
  PROVE  LevelInv'
<1>1. /\ query' = query /\ next' = next /\ edges' = edges \union {e} /\ e \in todo
  BY DEF Admit, First
<1>2. /\ Len(visits) \in Nat /\ next \in 1..Len(visits) /\ query.maxDepth \in Nat
      /\ \A i \in 1..Len(visits) : visits[i].depth \in 0..query.maxDepth
      /\ visits \in Seq([node : query.nodes, depth : 0..query.maxDepth])
  BY <1>1, VisitType DEF WalkInv, WalkTypeOK, Queries, Expanding
<1>3. e \notin edges
  BY <1>1 DEF WalkInv, Expanding
<1>4. PICK n : n = Other(e, Current.node)
  OBVIOUS
<1>5. PICK d : d = visits[next].depth
  OBVIOUS
<1>6. PICK v : v = [node |-> n, depth |-> d + 1]
  OBVIOUS
<1>7. visits' = visits \/ visits' = Append(visits, v)
  BY <1>4, <1>5, <1>6 DEF Admit, Current
<1>8. \A i \in 1..Len(visits) : visits'[i] = visits[i] /\ i \in 1..Len(visits')
  BY <1>2, <1>7
<1>9. \A i \in 1..Len(visits') : i \in 1..Len(visits) \/ (i = Len(visits) + 1 /\ visits'[i] = v)
  BY <1>2, <1>7
<1>10. v.depth = d + 1 /\ v.node = n /\ d \in Nat
  BY <1>2, <1>5, <1>6
<1>11. \A i \in 1..Len(visits) : visits[i].depth <= d + 1
  BY <1>2, <1>5 DEF LevelInv, Frontier
<1>12. Seeded'
  BY <1>1, <1>2, <1>7, <1>8 DEF LevelInv, Seeded
<1>13. ByDepth'
  <2> SUFFICES ASSUME NEW i \in 1..Len(visits'), NEW j \in 1..Len(visits'), i <= j
               PROVE  visits'[i].depth <= visits'[j].depth
    BY DEF ByDepth
  <2>1. CASE j \in 1..Len(visits)
    <3>1. i \in 1..Len(visits)
      BY <1>2, <2>1
    <3> QED BY <1>8, <2>1, <3>1 DEF LevelInv, ByDepth
  <2>2. CASE j = Len(visits) + 1 /\ visits'[j] = v
    <3>1. CASE i \in 1..Len(visits)
      BY <1>8, <1>10, <1>11, <2>2, <3>1
    <3>2. CASE visits'[i] = v
      BY <1>10, <2>2, <3>2
    <3> QED BY <1>9, <3>1, <3>2
  <2> QED BY <1>9, <2>1, <2>2
<1>14. Frontier'
  <2> SUFFICES ASSUME NEW i \in 1..Len(visits')
               PROVE  visits'[i].depth <= d + 1
    BY <1>1, <1>2, <1>5, <1>8 DEF Frontier
  <2> QED BY <1>8, <1>9, <1>10, <1>11
<1>15. Near'
  <2> SUFFICES ASSUME NEW i \in 1..next, visits[i].depth < query.maxDepth,
                      NEW f \in Incident(query, visits[i].node), f \in edges \/ f = e
               PROVE  \E j \in 1..Len(visits') :
                        visits'[j].node = Other(f, visits[i].node) /\ visits'[j].depth <= visits[i].depth + 1
    <3>1. 1..next \subseteq 1..Len(visits)
      BY <1>2
    <3> QED BY <1>1, <1>8, <3>1 DEF Near, Incident, Other
  <2>1. CASE f \in edges
    <3>1. PICK j \in 1..Len(visits) :
            visits[j].node = Other(f, visits[i].node) /\ visits[j].depth <= visits[i].depth + 1
      BY <2>1 DEF LevelInv, Near
    <3> QED BY <1>8, <3>1
  <2>2. CASE f = e
    <3>1. i = next
      <4>1. Incident(query, visits[i].node) \subseteq edges \union (IF i = next THEN todo ELSE {})
        BY DEF WalkInv, Expanded
      <4> QED BY <1>3, <2>2, <4>1
    <3>2. n = Other(f, visits[i].node) /\ d = visits[i].depth
      BY <1>4, <1>5, <2>2, <3>1 DEF Current
    <3>3. CASE n \in Seen
      <4>1. PICK j \in 1..Len(visits) : visits[j].node = n
        BY <3>3 DEF Seen
      <4> QED BY <1>8, <1>11, <3>2, <4>1
    <3>4. CASE n \notin Seen
      <4>1. visits' = Append(visits, v)
        BY <1>4, <1>5, <1>6, <3>4 DEF Admit, Current
      <4>2. Len(visits) + 1 \in 1..Len(visits') /\ visits'[Len(visits) + 1] = v
        BY <1>2, <4>1
      <4> QED BY <1>10, <3>2, <4>2
    <3> QED BY <3>3, <3>4
  <2> QED BY <2>1, <2>2
<1> QED BY <1>12, <1>13, <1>14, <1>15 DEF LevelInv

(* A refusal moves nothing.                                                 *)
LEMMA StepKeepsLevels ==
  ASSUME WalkInv, LevelInv, Step
  PROVE  LevelInv'
<1>1. CASE Take
  BY <1>1, TakeKeepsLevels
<1>2. CASE \E e \in Edges : Admit(e)
  BY <1>2, AdmitKeepsLevels
<1>3. CASE \E e \in Edges : Refuse(e)
  BY <1>3 DEF Refuse, LevelInv, Seeded, ByDepth, Frontier, Near, Incident, Other
<1> QED BY <1>1, <1>2, <1>3 DEF Step

(* At the end of a walk that nothing stopped, the far end of every matching *)
(* edge of a node above the largest depth was found, one level below it at  *)
(* most.                                                                    *)
LEMMA RestReaches ==
  ASSUME WalkInv, LevelInv, AtRest, stopped = "none",
         NEW i \in 1..Len(visits), visits[i].depth < query.maxDepth,
         NEW e \in Incident(query, visits[i].node)
  PROVE  \E j \in 1..Len(visits) :
           visits[j].node = Other(e, visits[i].node) /\ visits[j].depth <= visits[i].depth + 1
<1>1. todo = {} /\ next = Len(visits)
  BY DEF AtRest
<1>2. e \in edges
  BY <1>1 DEF WalkInv, Expanded
<1> QED BY <1>1, <1>2 DEF LevelInv, Near
=============================================================================

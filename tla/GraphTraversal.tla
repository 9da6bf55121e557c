----------------------------- MODULE GraphTraversal -----------------------------
(***************************************************************************)
(* MemoryGraph.traverse (graph/memory.py): a first-in first-out breadth    *)
(* first walk of one snapshot of the repository graph, under a bound on    *)
(* the depth, on the nodes and on the edges.  A node is visited once; the  *)
(* edges of the visited node are looked at in the order of their sort key; *)
(* an edge and the node it discovers are admitted together, and the first  *)
(* admission a bound refuses ends the walk and is named in `stopped'.      *)
(*                                                                         *)
(* The walk is started by whoever asks (Traverse), so that the expansion   *)
(* of a review context can run it for one seed after another.              *)
(***************************************************************************)
EXTENDS Integers, Sequences, FiniteSets

CONSTANTS
  Nodes,       \* node identities
  Edges,       \* edge identities: [source, target : Nodes, relation : Relations]
  Relations,   \* relation types
  Rank         \* EdgeIdentity.sort_key: a number per edge

ASSUME EdgesAssumption ==
  /\ IsFiniteSet(Nodes)
  /\ IsFiniteSet(Edges)
  /\ Edges \subseteq [source : Nodes, target : Nodes, relation : Relations]

ASSUME RankAssumption ==
  /\ Rank \in [Edges -> Nat]
  /\ \A e, f \in Edges : Rank[e] = Rank[f] => e = f

VARIABLES
  query,     \* what is asked: graph, seed, direction, relations and bounds
  visits,    \* the nodes found, in order of discovery, each with its depth
  next,      \* how many of them have been taken from the queue
  todo,      \* edges of the node last taken that have not been looked at
  edges,     \* the edges admitted
  stopped    \* the bound that refused an admission, or "none"

walk == <<query, visits, next, todo, edges, stopped>>

Directions == {"outgoing", "incoming", "both"}

(* TraversalBounds: the depth may be 0, one node is the seed itself, and    *)
(* no edge at all is a legal bound.  MemoryGraph.__init__ refuses an edge   *)
(* without its two nodes, so the graph of a query is closed.                *)
Queries == [nodes : SUBSET Nodes, edges : SUBSET Edges, seed : Nodes,
            direction : Directions, relations : SUBSET Relations,
            maxDepth : Nat, maxNodes : Nat \ {0}, maxEdges : Nat]

Closed(q) == \A e \in q.edges : {e.source, e.target} \subseteq q.nodes

Incident(q, n) ==
  {e \in q.edges :
     /\ e.relation \in q.relations
     /\ \/ q.direction # "incoming" /\ e.source = n
        \/ q.direction # "outgoing" /\ e.target = n}

Other(e, n) == IF e.source = n THEN e.target ELSE e.source

Seen == {visits[i].node : i \in 1..Len(visits)}

Current == visits[next]

AtRest == stopped # "none" \/ (todo = {} /\ next = Len(visits))

-----------------------------------------------------------------------------
(* A walk begins at its seed; a seed the graph does not hold has no visits. *)
Traverse(q) ==
  /\ query' = q
  /\ visits' = IF q.seed \in q.nodes THEN <<[node |-> q.seed, depth |-> 0]>> ELSE <<>>
  /\ next' = 0
  /\ todo' = {}
  /\ edges' = {}
  /\ stopped' = "none"

(* A walk that does not expand the level before the last.                   *)
TakeShallow ==
  /\ stopped = "none" /\ todo = {} /\ next < Len(visits)
  /\ next' = next + 1
  /\ todo' = IF visits[next + 1].depth + 1 >= query.maxDepth THEN {}
             ELSE Incident(query, visits[next + 1].node) \ edges
  /\ UNCHANGED <<query, visits, edges, stopped>>

(* The next node leaves the queue; at the largest depth it is not expanded. *)
Take ==
  /\ stopped = "none" /\ todo = {} /\ next < Len(visits)
  /\ next' = next + 1
  /\ todo' = IF visits[next + 1].depth = query.maxDepth THEN {}
             ELSE Incident(query, visits[next + 1].node) \ edges
  /\ UNCHANGED <<query, visits, edges, stopped>>

First(e) == e \in todo /\ \A f \in todo : Rank[e] <= Rank[f]

Refuse(e) ==
  /\ stopped = "none" /\ First(e)
  /\ \/ Cardinality(edges) = query.maxEdges
     \/ Other(e, Current.node) \notin Seen /\ Cardinality(Seen) = query.maxNodes
  /\ stopped' = IF Cardinality(edges) = query.maxEdges THEN "edge_limit" ELSE "node_limit"
  /\ UNCHANGED <<query, visits, next, todo, edges>>

(* An edge between two nodes already seen is admitted as well: the result   *)
(* holds the cycles and cross edges that were looked at.                    *)
Admit(e) ==
  /\ stopped = "none" /\ First(e)
  /\ Cardinality(edges) # query.maxEdges
  /\ Other(e, Current.node) \in Seen \/ Cardinality(Seen) # query.maxNodes
  /\ edges' = edges \union {e}
  /\ todo' = todo \ {e}
  /\ visits' = IF Other(e, Current.node) \in Seen THEN visits
               ELSE Append(visits, [node |-> Other(e, Current.node), depth |-> Current.depth + 1])
  /\ UNCHANGED <<query, next, stopped>>

Step == Take \/ \E e \in Edges : Refuse(e) \/ Admit(e)

(* The walk on its own: one query over one closed graph.                    *)
WalkInit ==
  /\ query \in {q \in Queries : Closed(q)}
  /\ visits = IF query.seed \in query.nodes THEN <<[node |-> query.seed, depth |-> 0]>> ELSE <<>>
  /\ next = 0 /\ todo = {} /\ edges = {} /\ stopped = "none"

WalkSpec == WalkInit /\ [][Step]_walk

-----------------------------------------------------------------------------
WalkTypeOK ==
  /\ query \in Queries /\ Closed(query)
  /\ visits \in Seq([node : query.nodes, depth : 0..query.maxDepth])
  /\ next \in 0..Len(visits)
  /\ todo \subseteq query.edges
  /\ edges \subseteq query.edges
  /\ stopped \in {"none", "edge_limit", "node_limit"}

(* The result never holds more nodes or edges than were asked for, and both *)
(* ends of every edge it holds are among its nodes, however the walk met    *)
(* cycles, edges seen from both ends and the bounds themselves.             *)
WithinBounds ==
  /\ Cardinality(Seen) <= query.maxNodes
  /\ Cardinality(edges) <= query.maxEdges
  /\ \A e \in edges : {e.source, e.target} \subseteq Seen

(* What `Return all inspected edges' and `stopped_by is set only when a     *)
(* budget prevents admission' promise: a walk that ends unstopped holds     *)
(* every matching edge of every node it found above the largest depth, and  *)
(* a walk that ends stopped left one out.                                   *)
StoppedOrComplete ==
  AtRest =>
    LET wanted == UNION {Incident(query, visits[i].node) :
                           i \in {j \in 1..Len(visits) : visits[j].depth < query.maxDepth}}
    IN  IF stopped = "none" THEN edges = wanted ELSE wanted \ edges # {}

=============================================================================

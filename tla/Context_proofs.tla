----------------------------- MODULE Context_proofs -----------------------------
(***************************************************************************)
(* For all snapshots, changes, policies and trace answers: what an         *)
(* expansion is charged for is what its reports hold, both sides together  *)
(* stay inside the one budget, and every walk of it ends complete or says  *)
(* which bound stopped it.  And the context made from it is sound: it is   *)
(* closed, each of its ranges has one verdict, and the texts it hands out  *)
(* are the snapshot's and share no character.  And nothing is lost without *)
(* a word: no fact that a retrieval finds, and no node within reach of the *)
(* change.                                                                 *)
(***************************************************************************)
EXTENDS ContextMaterialization, ChangeMapping_proofs, GraphTraversal_proofs

Counters == [nodes : SUBSET Nodes, edges : SUBSET Edges, paths : Nat, queries : Nat]

(* A walk whose seed the graph does not hold finds nothing and is at rest.  *)
NoVisits == visits = <<>> /\ next = 0 /\ todo = {} /\ edges = {} /\ stopped = "none"
WalkRuns == WalkInv \/ NoVisits

Types ==
  /\ setup \in Setups /\ side \in SidesOf
  /\ held \in Counters /\ spent \in [SidesOf -> Counters]
  /\ reports = [s \in SidesOf |-> reports[s]]
  /\ \A s \in SidesOf : reports[s] \in Seq(Range(reports[s]))

(* The new side comes first, and a side that was not begun has no reports   *)
(* and has spent nothing.                                                   *)
Early == {"map", "retrieve", "begin", "expand"}

Stage ==
  /\ walking => phase = "expand" /\ jobs # <<>>
  /\ phase \in {"map", "retrieve"} => side = "new"
  /\ phase \in Early => spent["old"] = None
  /\ phase \in Early /\ side = "new" => spent["new"] = None /\ reports["old"] = <<>>
  /\ phase \in Early \ {"expand"} => reports[side] = <<>>

(* What a side is charged for, and that it is what its reports hold.        *)
Of(s) == IF phase = "expand" /\ s = side THEN held ELSE spent[s]

Holds(h, S) == h.nodes = UNION {o.nodes : o \in S} /\ h.edges = UNION {o.edges : o \in S}

Accounted == phase # "aborted" => \A s \in SidesOf : Holds(Of(s), Observed(s))

(* The new side fits the whole policy, the old one what the new one left.   *)
Fits(h, b) ==
  /\ Cardinality(h.nodes) <= b.nodes /\ Cardinality(h.edges) <= b.edges
  /\ h.paths <= b.paths /\ h.queries <= b.queries

WithinBudget ==
  /\ Fits(spent["new"], BudgetWhole)
  /\ Fits(spent["old"], Budget)
  /\ phase = "expand" => Fits(held, Budget)

ContextInv == Types /\ WalkRuns /\ Stage /\ Accounted /\ WithinBudget

-----------------------------------------------------------------------------
(* The walks of an expansion.                                               *)
LEMMA StepKeepsRuns ==
  ASSUME WalkRuns, Step
  PROVE  WalkRuns'
<1>1. CASE WalkInv
  <2>1. CASE Take
    BY <1>1, <2>1, TakeKeeps DEF WalkRuns
  <2>2. CASE \E e \in Edges : Refuse(e) \/ Admit(e)
    BY <1>1, <2>2, RefuseKeeps, AdmitKeeps DEF WalkRuns
  <2> QED BY <2>1, <2>2 DEF Step
<1>2. CASE NoVisits
  <2>1. Len(visits) = 0
    BY <1>2 DEF NoVisits
  <2>2. ~Take
    BY <1>2, <2>1 DEF NoVisits, Take
  <2>3. \A e \in Edges : ~Refuse(e) /\ ~Admit(e)
    BY <1>2 DEF NoVisits, Refuse, Admit, First
  <2> QED BY <2>2, <2>3 DEF Step
<1> QED BY <1>1, <1>2 DEF WalkRuns

(* A walk that nobody touches is still a run of the walk.                   *)
LEMMA StillRuns ==
  ASSUME WalkRuns, UNCHANGED walk
  PROVE  WalkRuns'
BY DEF WalkRuns, NoVisits, walk, WalkInv, WalkTypeOK, Closed, Expanding, Expanded, OnlyExpanded,
       StopsAtAnEdge, WithinBounds, Incident, Current, Seen

(* traverse begins such a run.                                              *)
LEMMA TraverseRuns ==
  ASSUME NEW q, q.seed \in q.nodes => q \in Queries, Closed(q), Traverse(q)
  PROVE  WalkRuns'
<1>1. CASE q.seed \in q.nodes
  <2>1. WalkInit'
    BY <1>1 DEF Traverse, WalkInit
  <2>2. (WalkInit => WalkInv)'
    BY WalkBegins, PTL
  <2> QED BY <2>1, <2>2 DEF WalkRuns
<1>2. CASE q.seed \notin q.nodes
  BY <1>2 DEF Traverse, WalkRuns, NoVisits
<1> QED BY <1>1, <1>2

(* What a run has seen is of the graph.                                     *)
LEMMA RunSeen ==
  ASSUME WalkRuns
  PROVE  Seen \subseteq Nodes /\ edges \subseteq Edges
<1>1. CASE WalkInv
  BY <1>1, SeenNodes DEF WalkInv, WalkTypeOK, Queries
<1>2. CASE NoVisits
  <2>1. Len(visits) = 0
    BY <1>2 DEF NoVisits
  <2> QED BY <1>2, <2>1 DEF NoVisits, Seen
<1> QED BY <1>1, <1>2 DEF WalkRuns

(* A run at rest was stopped by a bound it names or is complete.            *)
LEMMA RunsMean == WalkRuns => StoppedOrComplete
<1>1. CASE WalkInv
  BY <1>1, RestMeans
<1>2. CASE NoVisits
  <2>1. Len(visits) = 0
    BY <1>2 DEF NoVisits
  <2>2. UNION {Incident(query, visits[i].node) :
                  i \in {j \in 1..Len(visits) : visits[j].depth < query.maxDepth}} = {}
    BY <2>1
  <2> QED BY <1>2, <2>2 DEF NoVisits, StoppedOrComplete
<1> QED BY <1>1, <1>2 DEF WalkRuns

-----------------------------------------------------------------------------
(* Counters.                                                                *)
LEMMA CounterShape ==
  ASSUME NEW h \in Counters
  PROVE  /\ h.nodes \subseteq Nodes /\ h.edges \subseteq Edges /\ h.paths \in Nat /\ h.queries \in Nat
         /\ IsFiniteSet(h.nodes) /\ IsFiniteSet(h.edges)
         /\ Cardinality(h.nodes) \in Nat /\ Cardinality(h.edges) \in Nat
         /\ h = [nodes |-> h.nodes, edges |-> h.edges, paths |-> h.paths, queries |-> h.queries]
<1>1. h.nodes \subseteq Nodes /\ h.edges \subseteq Edges /\ h.paths \in Nat /\ h.queries \in Nat
  BY DEF Counters
<1>2. IsFiniteSet(h.nodes) /\ IsFiniteSet(h.edges)
  BY <1>1, EdgesAssumption, FS_Subset
<1> QED BY <1>1, <1>2, FS_CardinalityType DEF Counters

(* A count that starts is of nothing.                                       *)
LEMMA NoneCounts ==
  /\ None \in Counters /\ None.nodes = {} /\ None.edges = {} /\ None.paths = 0 /\ None.queries = 0
  /\ Cardinality(None.nodes) = 0 /\ Cardinality(None.edges) = 0
BY FS_EmptySet DEF None, Counters

(* A query counts by one and charges nothing else.                          *)
LEMMA AskedCounts ==
  ASSUME NEW h \in Counters
  PROVE  /\ Asked(h) \in Counters /\ Asked(h).nodes = h.nodes /\ Asked(h).edges = h.edges
         /\ Asked(h).paths = h.paths /\ Asked(h).queries = h.queries + 1
BY CounterShape DEF Asked, Counters

(* What is admitted is charged: its nodes and edges once each, its paths    *)
(* by number.                                                               *)
LEMMA ObservationCounts ==
  ASSUME NEW h \in Counters, NEW o, o.nodes \subseteq Nodes, o.edges \subseteq Edges, o.paths \in Nat
  PROVE  /\ WithObservation(h, o) \in Counters
         /\ WithObservation(h, o).nodes = h.nodes \union o.nodes
         /\ WithObservation(h, o).edges = h.edges \union o.edges
         /\ WithObservation(h, o).paths = h.paths + o.paths
         /\ WithObservation(h, o).queries = h.queries
<1> PICK ns, es, ps, qs : ns = h.nodes /\ es = h.edges /\ ps = h.paths /\ qs = h.queries
  OBVIOUS
<1>1. h = [nodes |-> ns, edges |-> es, paths |-> ps, queries |-> qs]
  BY CounterShape
<1>2. WithObservation(h, o)
        = [nodes |-> ns \union o.nodes, edges |-> es \union o.edges, paths |-> ps + o.paths, queries |-> qs]
  <2> PICK n, e, p : n = ns \union o.nodes /\ e = es \union o.edges /\ p = ps + o.paths
    OBVIOUS
  <2> PICK q : q = [h EXCEPT !.nodes = n, !.edges = e, !.paths = p]
    OBVIOUS
  <2>1. q = WithObservation(h, o)
    BY DEF WithObservation
  <2>2. DOMAIN q = {"nodes", "edges", "paths", "queries"} /\ q.nodes = n /\ q.edges = e /\ q.paths = p /\ q.queries = qs
    BY <1>1
  <2>3. q = [i \in {"nodes", "edges", "paths", "queries"} |-> q[i]]
    BY <1>1
  <2>4. q = [nodes |-> q.nodes, edges |-> q.edges, paths |-> q.paths, queries |-> q.queries]
    BY <2>3
  <2> QED BY <2>1, <2>2, <2>4
<1>3. ns \subseteq Nodes /\ es \subseteq Edges /\ ps \in Nat /\ qs \in Nat
  BY CounterShape
<1>4. ns \union o.nodes \subseteq Nodes /\ es \union o.edges \subseteq Edges /\ ps + o.paths \in Nat
  BY <1>3
<1> QED BY <1>2, <1>3, <1>4 DEF Counters

(* The limits of a policy are numbers, and a seed itself is a node.         *)
LEMMA PolicyCounts ==
  ASSUME Types
  PROVE  /\ policy.maxQueries \in Nat /\ policy.maxNodes \in Nat /\ policy.maxEdges \in Nat /\ policy.maxPaths \in Nat
         /\ policy.nodesPerSeed \in Nat \ {0} /\ policy.edgesPerSeed \in Nat /\ policy.maxDepth \in Nat
         /\ policy.direction \in Directions /\ policy.relations \subseteq Relations
BY PolicyAssumption DEF Types, policy

(* Nothing fits whatever is left of a policy by a side that fits it.        *)
LEMMA NoneFits ==
  ASSUME Types, Fits(spent["new"], BudgetWhole)
  PROVE  Fits(None, BudgetWhole) /\ Fits(None, Budget)
<1>1. spent["new"] \in Counters
  BY DEF Types, SidesOf
<1> QED BY <1>1, NoneCounts, CounterShape, PolicyCounts DEF Fits, Budget, BudgetWhole

(* While the new side is expanded, its budget is the whole policy.          *)
LEMMA WholeBudget ==
  ASSUME Types, spent["new"] = None
  PROVE  Budget = BudgetWhole
BY NoneCounts, PolicyCounts DEF Budget, BudgetWhole

-----------------------------------------------------------------------------
(* The reports of a side grow by one, and what they hold by what it took.   *)
LEMMA Reported ==
  ASSUME Types, NEW status, NEW taken, Report(status, taken)
  PROVE  /\ reports' = [s \in SidesOf |-> reports'[s]]
         /\ \A s \in SidesOf : reports'[s] \in Seq(Range(reports'[s]))
         /\ \A s \in SidesOf : s # side => reports'[s] = reports[s] /\ Observed(s)' = Observed(s)
         /\ \A s \in SidesOf : s = side => Observed(s)' = Observed(s) \union taken
         /\ walking' = FALSE
<1> PICK r : r = [seed |-> Job.seed, trace |-> Job.trace, status |-> status, taken |-> taken]
  OBVIOUS
<1>1. reports' = [reports EXCEPT ![side] = Append(reports[side], r)] /\ walking' = FALSE
  BY DEF Report
<1>2. /\ side \in SidesOf /\ reports = [s \in SidesOf |-> reports[s]]
      /\ \A s \in SidesOf : reports[s] \in Seq(Range(reports[s]))
  BY DEF Types
<1>3. /\ reports' = [s \in SidesOf |-> reports'[s]]
      /\ reports'[side] = Append(reports[side], r)
      /\ \A s \in SidesOf : s # side => reports'[s] = reports[s]
  BY <1>1, <1>2
<1> PICK q, n : q = reports[side] /\ n = Len(q)
  OBVIOUS
<1> DEFINE R == Range(q)
           p == Append(q, r)
<1>4. q \in Seq(R)
  BY <1>2
<1>5. n \in Nat /\ DOMAIN q = 1..n /\ \A i \in 1..n : q[i] \in R
  BY <1>4
<1>6. p \in Seq(R \union {r}) /\ DOMAIN p = 1..(n + 1) /\ p[n + 1] = r /\ \A i \in 1..n : p[i] = q[i]
  <2>1. q \in Seq(R \union {r})
    BY <1>4
  <2> HIDE DEF R
  <2> QED BY <1>4, <1>5, <2>1
<1>7. p \in Seq(Range(p))
  <2>1. \A i \in 1..(n + 1) : p[i] \in Range(p)
    BY <1>6 DEF Range
  <2>2. p = [i \in 1..(n + 1) |-> p[i]]
    <3> HIDE DEF R
    <3> QED BY <1>6
  <2> HIDE DEF p
  <2> QED BY <1>5, <2>1, <2>2
<1>8. ASSUME NEW s \in SidesOf, s = side
      PROVE  Observed(s)' = Observed(s) \union taken
  <2>1. Observed(s)' = UNION {p[i].taken : i \in 1..(n + 1)}
    BY <1>3, <1>6, <1>8 DEF Observed
  <2>2. Observed(s) = UNION {q[i].taken : i \in 1..n}
    BY <1>5, <1>8 DEF Observed
  <2>3. 1..(n + 1) = 1..n \union {n + 1}
    BY <1>5
  <2>4. \A i \in 1..n : p[i].taken = q[i].taken
    BY <1>6
  <2>5. p[n + 1].taken = taken
    BY <1>6
  <2> HIDE DEF p
  <2> QED BY <2>1, <2>2, <2>3, <2>4, <2>5
<1>9. \A s \in SidesOf : reports'[s] \in Seq(Range(reports'[s]))
  BY <1>2, <1>3, <1>7
<1>10. \A s \in SidesOf : s # side => Observed(s)' = Observed(s)
  BY <1>3 DEF Observed
<1> QED BY <1>1, <1>3, <1>8, <1>9, <1>10

(* A job that ends is charged what it took, inside the budget.              *)
LEMMA JobEnds ==
  ASSUME ContextInv, phase = "expand", UNCHANGED <<setup, phase, side, spent>>, WalkRuns',
         NEW status, NEW taken, Report(status, taken),
         held' \in Counters, Fits(held', Budget),
         held'.nodes = held.nodes \union UNION {o.nodes : o \in taken},
         held'.edges = held.edges \union UNION {o.edges : o \in taken}
  PROVE  ContextInv'
<1>1. Types /\ Stage /\ Accounted /\ WithinBudget
  BY DEF ContextInv
<1>2. /\ reports' = [s \in SidesOf |-> reports'[s]]
      /\ \A s \in SidesOf : reports'[s] \in Seq(Range(reports'[s]))
      /\ \A s \in SidesOf : s # side => reports'[s] = reports[s] /\ Observed(s)' = Observed(s)
      /\ \A s \in SidesOf : s = side => Observed(s)' = Observed(s) \union taken
      /\ walking' = FALSE
  BY <1>1, Reported
<1>3. Types'
  BY <1>1, <1>2 DEF Types
<1>4. Stage'
  BY <1>1, <1>2 DEF Stage, Early, Types, SidesOf
<1>5. Accounted'
  <2>1. Holds(held, Observed(side))
    BY <1>1 DEF Accounted, Of, Types
  <2>2. \A s \in SidesOf : s = side => Holds(held', Observed(s)')
    BY <1>2, <2>1 DEF Holds
  <2>3. \A s \in SidesOf : s # side => Holds(spent[s], Observed(s))
    BY <1>1 DEF Accounted, Of
  <2> QED BY <1>2, <2>2, <2>3 DEF Accounted, Of
<1>6. WithinBudget'
  <2>1. Budget' = Budget /\ BudgetWhole' = BudgetWhole
    BY DEF Budget, BudgetWhole, policy
  <2> QED BY <1>1, <2>1 DEF WithinBudget
<1> QED BY <1>3, <1>4, <1>5, <1>6 DEF ContextInv

(* A step of a walk, or the charge for one.                                 *)
LEMMA JobGoesOn ==
  ASSUME ContextInv, phase = "expand", UNCHANGED <<setup, phase, side, spent, reports, jobs>>, WalkRuns',
         jobs # <<>>, held' \in Counters, Fits(held', Budget),
         held'.nodes = held.nodes, held'.edges = held.edges
  PROVE  ContextInv'
<1>1. Types /\ Stage /\ Accounted /\ WithinBudget
  BY DEF ContextInv
<1>2. Types' /\ Stage'
  BY <1>1 DEF Types, Stage
<1>3. \A s \in SidesOf : Observed(s)' = Observed(s)
  BY DEF Observed
<1>4. Accounted'
  BY <1>1, <1>3 DEF Accounted, Of, Holds
<1>5. WithinBudget'
  <2>1. Budget' = Budget /\ BudgetWhole' = BudgetWhole
    BY DEF Budget, BudgetWhole, policy
  <2> QED BY <1>1, <2>1 DEF WithinBudget
<1> QED BY <1>2, <1>4, <1>5 DEF ContextInv

(* A step outside the jobs of a side.                                       *)
LEMMA QuietStep ==
  ASSUME ContextInv, UNCHANGED <<setup, side, spent, expansion>>, WalkRuns',
         \/ phase' = phase
         \/ phase = "map" /\ phase' = "retrieve"
         \/ phase = "retrieve" /\ phase' = "begin"
         \/ phase \notin Early /\ phase' \notin Early /\ phase # "aborted"
         \/ phase' = "aborted" /\ ~walking
  PROVE  ContextInv'
<1>1. Types /\ Stage /\ Accounted /\ WithinBudget
  BY DEF ContextInv
<1>2. UNCHANGED <<jobs, walking, held, perSeed, reports>>
  BY DEF expansion
<1>3. Types'
  BY <1>1, <1>2 DEF Types
<1>4. Stage'
  BY <1>1, <1>2 DEF Stage, Early
<1>5. \A s \in SidesOf : Observed(s)' = Observed(s)
  BY <1>2 DEF Observed
<1>6. Accounted'
  BY <1>1, <1>2, <1>5 DEF Accounted, Of, Early
<1>7. WithinBudget'
  <2>1. Budget' = Budget /\ BudgetWhole' = BudgetWhole
    BY DEF Budget, BudgetWhole, policy
  <2> QED BY <1>1, <1>2, <2>1 DEF WithinBudget, Early
<1> QED BY <1>3, <1>4, <1>6, <1>7 DEF ContextInv

(* What is left of the budgets is a number, and what was spent a count.     *)
LEMMA BudgetType ==
  ASSUME Types
  PROVE  /\ Budget.nodes \in Int /\ Budget.edges \in Int /\ Budget.paths \in Int /\ Budget.queries \in Int
         /\ held \in Counters /\ spent["new"] \in Counters /\ spent["old"] \in Counters
<1>1. held \in Counters /\ spent["new"] \in Counters /\ spent["old"] \in Counters
  BY DEF Types, SidesOf
<1> QED BY <1>1, CounterShape, PolicyCounts DEF Budget

(* A query that is not Limited can be charged.                              *)
LEMMA ChargeFits ==
  ASSUME ContextInv, phase = "expand", ~Limited
  PROVE  /\ Asked(held) \in Counters /\ Fits(Asked(held), Budget)
         /\ Asked(held).nodes = held.nodes /\ Asked(held).edges = held.edges
<1>1. Types /\ Fits(held, Budget)
  BY DEF ContextInv, WithinBudget
<1>2. held.queries < Budget.queries
  <2> USE BudgetType, <1>1, CounterShape
  <2> QED BY DEF Limited
<1> QED BY <1>1, <1>2, BudgetType, AskedCounts, CounterShape DEF Fits

(* An observation is taken whole, inside the budget, or not at all.         *)
LEMMA SettleEnds ==
  ASSUME ContextInv, phase = "expand", UNCHANGED <<setup, phase, side, spent>>, WalkRuns',
         NEW h \in Counters, h.nodes = held.nodes, h.edges = held.edges, Fits(h, Budget),
         NEW o, o.nodes \subseteq Nodes, o.edges \subseteq Edges, o.paths \in Nat,
         NEW own, NEW status, Settle(h, own, o, status)
  PROVE  ContextInv'
<1> DEFINE admitted == o.files \subseteq kb.hashed /\ ~Exceeded(h, own, o)
           shown == IF ~ o.files \subseteq kb.hashed THEN "unresolved" ELSE IF ~admitted THEN "truncated" ELSE status
<1>1. held' = IF admitted THEN WithObservation(h, o) ELSE h
  BY DEF Settle
<1>2. Report(shown, IF admitted THEN {o} ELSE {})
  BY DEF Settle
<1>3. CASE admitted
  <2> PICK x : x = WithObservation(h, o)
    OBVIOUS
  <2>1. held' = x /\ Report(shown, {o})
    BY <1>1, <1>2, <1>3
  <2>2. /\ x \in Counters /\ x.nodes = h.nodes \union o.nodes /\ x.edges = h.edges \union o.edges
        /\ x.queries = h.queries
    BY ObservationCounts
  <2>3. ~ Over(h, o, Budget.nodes, Budget.edges, Budget.paths)
    BY <1>3 DEF Exceeded
  <2>4. /\ ~ Cardinality(x.nodes) > Budget.nodes
        /\ ~ Cardinality(x.edges) > Budget.edges
        /\ ~ x.paths > Budget.paths
    BY <2>3 DEF Over
  <2>5. Types
    BY DEF ContextInv
  <2>6. Fits(x, Budget)
    <3>1. /\ Cardinality(x.nodes) \in Nat /\ Cardinality(x.edges) \in Nat /\ x.paths \in Nat
      BY <2>2, CounterShape
    <3>2. /\ Budget.nodes \in Int /\ Budget.edges \in Int /\ Budget.paths \in Int
      BY <2>5, BudgetType
    <3>3. x.queries <= Budget.queries
      BY <2>2 DEF Fits
    <3> HIDE DEF admitted, shown
    <3> QED BY <2>4, <3>1, <3>2, <3>3 DEF Fits
  <2>7. UNION {y.nodes : y \in {o}} = o.nodes /\ UNION {y.edges : y \in {o}} = o.edges
    OBVIOUS
  <2>8. /\ held' \in Counters /\ Fits(held', Budget)
        /\ held'.nodes = held.nodes \union UNION {y.nodes : y \in {o}}
        /\ held'.edges = held.edges \union UNION {y.edges : y \in {o}}
    BY <2>1, <2>2, <2>6, <2>7
  <2> HIDE DEF admitted, shown
  <2> QED BY <2>1, <2>8, JobEnds
<1>4. CASE ~admitted
  <2>1. held' = h /\ Report(shown, {})
    BY <1>1, <1>2, <1>4
  <2> HIDE DEF admitted, shown
  <2>2. /\ held'.nodes = held.nodes \union UNION {y.nodes : y \in {}}
        /\ held'.edges = held.edges \union UNION {y.edges : y \in {}}
    BY <2>1
  <2> QED BY <2>1, <2>2, JobEnds
<1> QED BY <1>3, <1>4

-----------------------------------------------------------------------------
(* A side begins with what the other one left.                              *)
LEMMA BeginSideKeeps == ContextInv /\ BeginSide => ContextInv'
<1> SUFFICES ASSUME ContextInv, BeginSide
             PROVE  ContextInv'
  OBVIOUS
<1>1. Types /\ Stage /\ Accounted /\ WithinBudget /\ WalkRuns
  BY DEF ContextInv
<1>2. /\ phase = "begin" /\ phase' \in {"expand", "aborted"} /\ held' = None
      /\ UNCHANGED <<setup, side, walking, reports, spent>> /\ UNCHANGED walk
  BY DEF BeginSide
<1>3. WalkRuns'
  BY <1>1, <1>2, StillRuns
<1>4. Types'
  BY <1>1, <1>2, NoneCounts DEF Types
<1>5. ~walking
  BY <1>1, <1>2 DEF Stage
<1>6. Stage'
  BY <1>1, <1>2, <1>5 DEF Stage, Early
<1>7. Accounted'
  <2>1. \A s \in SidesOf : Observed(s)' = Observed(s)
    BY <1>2 DEF Observed
  <2>2. \A s \in SidesOf : Holds(spent[s], Observed(s))
    BY <1>1, <1>2 DEF Accounted, Of
  <2>3. \A s \in SidesOf : s = side => Observed(s) = {}
    <3>1. reports[side] = <<>>
      BY <1>1, <1>2 DEF Stage, Early
    <3>2. DOMAIN reports[side] = {}
      BY <3>1
    <3> QED BY <3>2 DEF Observed
  <2>4. Holds(None, {})
    BY NoneCounts DEF Holds
  <2> QED BY <1>2, <2>1, <2>2, <2>3, <2>4 DEF Accounted, Of
<1>8. WithinBudget'
  <2>1. Budget' = Budget /\ BudgetWhole' = BudgetWhole
    BY <1>2 DEF Budget, BudgetWhole, policy
  <2> QED BY <1>1, <1>2, <2>1, NoneFits DEF WithinBudget
<1> QED BY <1>3, <1>4, <1>6, <1>7, <1>8 DEF ContextInv

(* A side that is left out charges nothing.                                 *)
LEMMA LeaveOutKeeps == ContextInv /\ LeaveOut => ContextInv'
<1> SUFFICES ASSUME ContextInv, LeaveOut
             PROVE  ContextInv'
  OBVIOUS
<1>1. Types /\ Stage /\ Accounted /\ WithinBudget /\ WalkRuns
  BY DEF ContextInv
<1>2. /\ phase = "begin"
      /\ UNCHANGED <<setup, jobs, walking, held, reports, spent>> /\ UNCHANGED walk
      /\ \/ side = "new" /\ phase' = "begin" /\ side' = "old"
         \/ side # "new" /\ phase' = "materialize" /\ side' = side
  BY DEF LeaveOut, NextSide, expansion
<1>3. WalkRuns'
  BY <1>1, <1>2, StillRuns
<1>4. Types'
  BY <1>1, <1>2 DEF Types, SidesOf
<1>5. Stage'
  BY <1>1, <1>2 DEF Stage, Early
<1>6. Accounted'
  <2>1. \A s \in SidesOf : Observed(s)' = Observed(s)
    BY <1>2 DEF Observed
  <2> QED BY <1>1, <1>2, <2>1 DEF Accounted, Of
<1>7. WithinBudget'
  <2>1. Budget' = Budget /\ BudgetWhole' = BudgetWhole
    BY <1>2 DEF Budget, BudgetWhole, policy
  <2> QED BY <1>1, <1>2, <2>1 DEF WithinBudget
<1> QED BY <1>3, <1>4, <1>5, <1>6, <1>7 DEF ContextInv

(* The old side starts from what the new one left; what that left is not    *)
(* less than nothing.                                                       *)
LEMMA SideDoneKeeps == ContextInv /\ SideDone => ContextInv'
<1> SUFFICES ASSUME ContextInv, SideDone
             PROVE  ContextInv'
  OBVIOUS
<1>1. Types /\ Stage /\ Accounted /\ WithinBudget /\ WalkRuns
  BY DEF ContextInv
<1>2. /\ phase = "expand" /\ jobs = <<>> /\ spent' = [spent EXCEPT ![side] = held]
      /\ UNCHANGED <<setup, jobs, walking, held, reports>> /\ UNCHANGED walk
      /\ \/ side = "new" /\ phase' = "begin" /\ side' = "old"
         \/ side # "new" /\ phase' = "materialize" /\ side' = side
  BY DEF SideDone, NextSide, expansion
<1>3. WalkRuns'
  BY <1>1, <1>2, StillRuns
<1>4. Types'
  BY <1>1, <1>2 DEF Types, SidesOf
<1>5. ~walking
  BY <1>1, <1>2 DEF Stage
<1>6. side \in SidesOf /\ SidesOf = {"old", "new"} /\ spent \in [SidesOf -> Counters]
  BY <1>1 DEF Types, SidesOf
<1>7. spent'[side] = held /\ \A s \in SidesOf : s # side => spent'[s] = spent[s]
  BY <1>2, <1>6
<1>8. Stage'
  BY <1>1, <1>2, <1>5, <1>6, <1>7 DEF Stage, Early
<1>9. Accounted'
  <2>1. \A s \in SidesOf : Observed(s)' = Observed(s)
    BY <1>2 DEF Observed
  <2> QED BY <1>1, <1>2, <1>7, <2>1 DEF Accounted, Of
<1>10. WithinBudget'
  <2>1. Fits(held, Budget) /\ BudgetWhole' = BudgetWhole
    BY <1>1, <1>2 DEF WithinBudget, BudgetWhole, policy
  <2>2. CASE side = "new"
    <3>1. spent'["new"] = held /\ spent'["old"] = None
      BY <1>1, <1>2, <1>6, <1>7, <2>2 DEF Stage, Early
    <3>2. Fits(spent["new"], BudgetWhole)' /\ Types'
      BY <1>1, <1>2, <1>4, <2>1, <2>2, <3>1, WholeBudget DEF Stage, Early, Fits
    <3>3. (Types /\ Fits(spent["new"], BudgetWhole) => Fits(None, Budget))'
      BY NoneFits, PTL
    <3> QED BY <1>2, <2>2, <3>1, <3>2, <3>3 DEF WithinBudget
  <2>3. CASE side = "old"
    <3>1. spent'["new"] = spent["new"] /\ spent'["old"] = held
      BY <1>6, <1>7, <2>3
    <3>2. Budget' = Budget
      BY <1>2, <3>1 DEF Budget, policy
    <3> QED BY <1>1, <1>2, <2>1, <2>3, <3>1, <3>2 DEF WithinBudget
  <2> QED BY <1>6, <2>2, <2>3
<1> QED BY <1>3, <1>4, <1>8, <1>9, <1>10 DEF ContextInv

(* A walk is that of a job.                                                 *)
LEMMA WalkingJobs ==
  ASSUME ContextInv
  PROVE  /\ walking => phase = "expand" /\ jobs # <<>>
         /\ WalkRuns /\ Types
BY DEF ContextInv, Stage

(* A job that is skipped charges nothing.                                   *)
LEMMA SkipJobKeeps == ContextInv /\ (SkipJob \/ DisabledTrace) => ContextInv'
<1> SUFFICES ASSUME ContextInv, SkipJob \/ DisabledTrace
             PROVE  ContextInv'
  OBVIOUS
<1>1. /\ phase = "expand" /\ UNCHANGED <<setup, phase, side, spent>> /\ held' = held /\ UNCHANGED walk
      /\ Report("truncated", {}) \/ Report("unsupported", {})
  BY DEF SkipJob, DisabledTrace, Running
<1>2. WalkRuns'
  BY <1>1, StillRuns, WalkingJobs
<1>3. held' \in Counters /\ Fits(held', Budget)
  BY <1>1, BudgetType, WalkingJobs DEF ContextInv, WithinBudget
<1>4. /\ held'.nodes = held.nodes \union UNION {o.nodes : o \in {}}
      /\ held'.edges = held.edges \union UNION {o.edges : o \in {}}
  BY <1>1
<1> QED BY <1>1, <1>2, <1>3, <1>4, JobEnds

(* A job that fails charges its query only.                                 *)
LEMMA FailJobKeeps == ContextInv /\ FailJob => ContextInv'
<1> SUFFICES ASSUME ContextInv, FailJob
             PROVE  ContextInv'
  OBVIOUS
<1>1. /\ phase = "expand" /\ UNCHANGED <<setup, phase, side, spent>> /\ held' = Asked(held) /\ UNCHANGED walk
      /\ Report("failure", {}) /\ ~Limited
  BY DEF FailJob, Running, Charge
<1>2. WalkRuns'
  BY <1>1, StillRuns, WalkingJobs
<1>3. held' \in Counters /\ Fits(held', Budget) /\ held'.nodes = held.nodes /\ held'.edges = held.edges
  BY <1>1, ChargeFits
<1>4. /\ held'.nodes = held.nodes \union UNION {o.nodes : o \in {}}
      /\ held'.edges = held.edges \union UNION {o.edges : o \in {}}
  BY <1>3
<1> QED BY <1>1, <1>2, <1>3, <1>4, JobEnds

(* A walk starts under the smaller of its own limits and what is left.      *)
LEMMA StartWalkKeeps == ContextInv /\ StartWalk => ContextInv'
<1> SUFFICES ASSUME ContextInv, StartWalk
             PROVE  ContextInv'
  OBVIOUS
<1> PICK q : q = [nodes |-> kb.nodes, edges |-> kb.edges, seed |-> Job.seed, direction |-> policy.direction,
               relations |-> policy.relations \ kb.unavailable, maxDepth |-> policy.maxDepth,
               maxNodes |-> policy.nodesPerSeed, maxEdges |-> policy.edgesPerSeed]
  OBVIOUS
<1>1. /\ phase = "expand" /\ jobs # <<>> /\ UNCHANGED <<setup, phase, side, spent, reports, jobs>>
      /\ held' = Asked(held) /\ ~Limited /\ Traverse(q)
  BY DEF StartWalk, Running, Charge
<1>2. WalkRuns'
  <2>1. side \in {"old", "new"}
    BY WalkingJobs DEF Types, SidesOf
  <2>2. kb.nodes \subseteq Nodes /\ kb.edges \subseteq Edges /\ Closed(kb)
    BY <2>1, KnowledgeAssumption DEF kb
  <2>3. Closed(q)
    <3>1. q.nodes = kb.nodes /\ q.edges = kb.edges
      OBVIOUS
    <3> QED BY <2>2, <3>1 DEF Closed
  <2>4. q.seed \in q.nodes => q \in Queries
    BY <2>2, PolicyCounts, WalkingJobs DEF Queries
  <2> QED BY <1>1, <2>3, <2>4, TraverseRuns
<1>3. held' \in Counters /\ Fits(held', Budget) /\ held'.nodes = held.nodes /\ held'.edges = held.edges
  BY <1>1, ChargeFits
<1> QED BY <1>1, <1>2, <1>3, JobGoesOn

(* A step of a walk charges nothing yet.                                    *)
LEMMA WalkKeeps == ContextInv /\ Walk => ContextInv'
<1> SUFFICES ASSUME ContextInv, Walk
             PROVE  ContextInv'
  OBVIOUS
<1>1. /\ walking /\ Step /\ UNCHANGED <<setup, phase, side, spent, reports, jobs>> /\ held' = held
  BY DEF Walk, expansion
<1>2. phase = "expand" /\ jobs # <<>> /\ WalkRuns'
  BY <1>1, StepKeepsRuns, WalkingJobs
<1>3. held' \in Counters /\ Fits(held', Budget)
  BY <1>1, <1>2, BudgetType, WalkingJobs DEF ContextInv, WithinBudget
<1> QED BY <1>1, <1>2, <1>3, JobGoesOn

(* The walk's result is charged whole or refused whole.                     *)
LEMMA FinishWalkKeeps == ContextInv /\ FinishWalk => ContextInv'
<1> SUFFICES ASSUME ContextInv, FinishWalk
             PROVE  ContextInv'
  OBVIOUS
<1> PICK status : status = IF stopped # "none" THEN "truncated" ELSE IF visits = <<>> THEN "unresolved" ELSE "ok"
  OBVIOUS
<1> PICK o : o = Walked
  OBVIOUS
<1>1. /\ walking /\ UNCHANGED <<setup, phase, side, spent>> /\ UNCHANGED walk
      /\ Settle(held, perSeed[Job.seed], o, status)
  BY DEF FinishWalk
<1>2. phase = "expand" /\ WalkRuns'
  BY <1>1, StillRuns, WalkingJobs
<1>3. held \in Counters /\ Fits(held, Budget)
  BY <1>2, BudgetType, WalkingJobs DEF ContextInv, WithinBudget
<1>4. o.nodes \subseteq Nodes /\ o.edges \subseteq Edges /\ o.paths \in Nat
  BY RunSeen, WalkingJobs DEF Walked
<1> QED BY <1>1, <1>2, <1>3, <1>4, SettleEnds

(* So is the answer of a trace.                                             *)
LEMMA RunTraceKeeps == ContextInv /\ RunTrace => ContextInv'
<1> SUFFICES ASSUME ContextInv, RunTrace
             PROVE  ContextInv'
  OBVIOUS
<1>1. /\ phase = "expand" /\ UNCHANGED <<setup, phase, side, spent>> /\ UNCHANGED walk
      /\ ~Limited /\ Job.trace \in setup.traces[side]
  BY DEF RunTrace, Running, Tracing
<1>2. WalkRuns'
  BY <1>1, StillRuns, WalkingJobs
<1>3. /\ Asked(held) \in Counters /\ Fits(Asked(held), Budget)
      /\ Asked(held).nodes = held.nodes /\ Asked(held).edges = held.edges
  BY <1>1, ChargeFits
<1>4. CASE TraceRefused # "no"
  <2> PICK reason : reason = TraceRefused
    OBVIOUS
  <2>1. held' = Asked(held) /\ Report(reason, {})
    BY <1>4 DEF RunTrace, Charge
  <2>2. /\ held'.nodes = held.nodes \union UNION {o.nodes : o \in {}}
        /\ held'.edges = held.edges \union UNION {o.edges : o \in {}}
    BY <1>3, <2>1
  <2> QED BY <1>1, <1>2, <1>3, <2>1, <2>2, JobEnds
<1>5. CASE TraceRefused = "no"
  <2> PICK o, own, h : o = TraceAnswer[Job.trace] /\ own = Asked(perSeed[Job.seed]) /\ h = Asked(held)
    OBVIOUS
  <2>1. PICK status : Settle(h, own, o, status)
    <3>1. Settle(h, own, o, IF o.complete THEN "ok" ELSE "partial")
      BY <1>5 DEF RunTrace
    <3> QED BY <3>1
  <2>2. o.nodes \subseteq Nodes /\ o.edges \subseteq Edges /\ o.paths \in Nat
    <3>1. setup \in Setups /\ side \in {"old", "new"}
      BY WalkingJobs DEF Types, SidesOf
    <3> QED BY <1>1, <3>1, TraceAssumption
  <2> QED BY <1>1, <1>2, <1>3, <2>1, <2>2, SettleEnds
<1> QED BY <1>4, <1>5

(* Mapping, retrieval, failures and what follows the expansion charge       *)
(* nothing.                                                                 *)
LEMMA OthersKeep == ContextInv /\ (Map \/ Retrieve \/ Abort \/ Materialize \/ Surroundings) => ContextInv'
<1> SUFFICES ASSUME ContextInv, Map \/ Retrieve \/ Abort \/ Materialize \/ Surroundings
             PROVE  ContextInv'
  OBVIOUS
<1>1. UNCHANGED <<setup, side, spent, expansion>> /\ UNCHANGED walk
  BY DEF Map, Retrieve, Abort, Materialize, Extract, OpenScopes, Read, CloseScopes, Withdraw, Surroundings, Edit
<1>2. WalkRuns'
  BY <1>1, StillRuns, WalkingJobs
<1>3. \/ phase' = phase
      \/ phase = "map" /\ phase' = "retrieve"
      \/ phase = "retrieve" /\ phase' = "begin"
      \/ phase \notin Early /\ phase' \notin Early /\ phase # "aborted"
      \/ phase' = "aborted" /\ ~walking
  <2>1. CASE Map \/ Retrieve
    BY <2>1 DEF Map, Retrieve
  <2>2. CASE Abort
    BY <2>2, WalkingJobs DEF Abort
  <2>3. CASE Materialize
    BY <2>3 DEF Materialize, Extract, OpenScopes, Read, CloseScopes, Withdraw, Early
  <2>4. CASE Surroundings
    BY <2>4 DEF Surroundings, Edit
  <2> QED BY <2>1, <2>2, <2>3, <2>4
<1> QED BY <1>1, <1>2, <1>3, QuietStep

(* Nothing is charged before the first query.                               *)
LEMMA InitContextInv == Init => ContextInv
<1> SUFFICES ASSUME Init
             PROVE  ContextInv
  OBVIOUS
<1>1. /\ setup \in Setups /\ phase = "map" /\ side = "new" /\ walking = FALSE /\ held = None
      /\ reports = [s \in SidesOf |-> <<>>] /\ spent = [s \in SidesOf |-> None]
      /\ NoVisits
  BY DEF Init, ExpansionInit, SidesOf, NoVisits
<1>2. \A s \in SidesOf : reports[s] = <<>> /\ Observed(s) = {}
  <2>1. \A s \in SidesOf : reports[s] = <<>>
    BY <1>1
  <2>2. DOMAIN <<>> = {}
    OBVIOUS
  <2> QED BY <2>1, <2>2 DEF Observed
<1>3. Types
  BY <1>1, <1>2, NoneCounts DEF Types, SidesOf
<1>4. Stage
  BY <1>1, <1>2 DEF Stage, Early, SidesOf
<1>5. Accounted
  BY <1>1, <1>2, NoneCounts DEF Accounted, Of, Holds
<1>6. WithinBudget
  <2>1. spent["new"] = None /\ spent["old"] = None
    BY <1>1 DEF SidesOf
  <2>2. Fits(None, BudgetWhole)
    BY <1>3, NoneCounts, PolicyCounts DEF Fits, BudgetWhole
  <2> QED BY <1>1, <1>3, <2>1, <2>2, NoneFits DEF WithinBudget
<1> QED BY <1>1, <1>3, <1>4, <1>5, <1>6 DEF ContextInv, WalkRuns

(* The inductive invariant of a context.                                    *)
THEOREM ContextInductive == Spec => []ContextInv
<1>1. ContextInv /\ [Next]_vars => ContextInv'
  <2> SUFFICES ASSUME ContextInv, [Next]_vars
               PROVE  ContextInv'
    OBVIOUS
  <2>1. CASE Expand
    BY <2>1, BeginSideKeeps, LeaveOutKeeps, SkipJobKeeps, FailJobKeeps, StartWalkKeeps, WalkKeeps,
       FinishWalkKeeps, RunTraceKeeps, SideDoneKeeps DEF Expand
  <2>2. CASE Map \/ Retrieve \/ Abort \/ Materialize \/ Surroundings
    BY <2>2, OthersKeep
  <2>3. CASE UNCHANGED vars
    <3>1. UNCHANGED <<setup, side, spent, expansion, phase>> /\ UNCHANGED walk
      BY <2>3 DEF vars
    <3>2. WalkRuns'
      BY <3>1, StillRuns, WalkingJobs
    <3> QED BY <3>1, <3>2, QuietStep
  <2> QED BY <2>1, <2>2, <2>3 DEF Next, Pipeline
<1> QED BY <1>1, InitContextInv, PTL DEF Spec

(* The two sides together stay inside one policy, although each is walked   *)
(* on its own, and what a side was charged for is what its reports hold: a  *)
(* truncated, refused or failed query leaves nothing behind.                *)
THEOREM BudgetsAlwaysHold == Spec => []BudgetsHold
<1>1. ContextInv => BudgetsHold
  <2> SUFFICES ASSUME ContextInv, phase \in {"expand", "materialize", "open", "read", "failed", "done"}
               PROVE  BudgetsHold
    BY DEF BudgetsHold
  <2>1. Types /\ Stage /\ Accounted /\ WithinBudget
    BY DEF ContextInv
  <2>2. \A s \in SidesOf : Holds(Of(s), Observed(s))
    BY <2>1 DEF Accounted
  <2>3. /\ Of("new") \in Counters /\ Of("old") \in Counters
        /\ Fits(spent["new"], BudgetWhole) /\ Fits(spent["old"], Budget)
        /\ phase = "expand" => Fits(held, Budget)
    BY <2>1, BudgetType DEF Of, WithinBudget
  <2>4. PICK b, c : b = Of("new") /\ c = Of("old")
    OBVIOUS
  <2>5. /\ Cardinality(b.nodes) + Cardinality(c.nodes) <= policy.maxNodes
        /\ Cardinality(b.edges) + Cardinality(c.edges) <= policy.maxEdges
        /\ b.paths + c.paths <= policy.maxPaths
        /\ b.queries + c.queries <= policy.maxQueries
    <3>1. CASE phase = "expand" /\ side = "new"
      <4>1. b = held /\ c = None /\ Budget = BudgetWhole
        BY <2>1, <2>4, <3>1, WholeBudget DEF Of, Stage, Early
      <4>2. Fits(b, BudgetWhole)
        BY <2>3, <3>1, <4>1
      <4>3. /\ Cardinality(b.nodes) \in Nat /\ Cardinality(b.edges) \in Nat /\ b.paths \in Nat /\ b.queries \in Nat
        BY <2>3, <2>4, CounterShape
      <4>4. /\ Cardinality(c.nodes) = 0 /\ Cardinality(c.edges) = 0 /\ c.paths = 0 /\ c.queries = 0
        BY <4>1, NoneCounts
      <4> QED BY <4>2, <4>3, <4>4 DEF Fits, BudgetWhole
    <3>2. CASE ~(phase = "expand" /\ side = "new")
      <4>1. b = spent["new"] /\ Fits(c, Budget)
        BY <2>1, <2>3, <2>4, <3>2 DEF Of, Types, SidesOf
      <4> QED BY <2>1, <2>3, <2>4, <4>1, CounterShape, PolicyCounts DEF Fits, Budget
    <3> QED BY <3>1, <3>2
  <2> QED BY <2>2, <2>4, <2>5 DEF BudgetsHold, Of, Holds, SidesOf
<1> QED BY <1>1, ContextInductive, PTL

(* Whatever a walk of the expansion meets, at rest it holds every matching  *)
(* edge of every node it found above the largest depth, or says which bound *)
(* stopped it.                                                              *)
THEOREM WalksStoppedOrComplete == Spec => []StoppedOrComplete
<1>1. ContextInv => StoppedOrComplete
  BY RunsMean DEF ContextInv
<1> QED BY <1>1, ContextInductive, PTL

(* For every change that validates: on each side the anchors cover exactly  *)
(* the lines the change edits there, in order and no line twice.            *)
THEOREM EditsAlwaysAnchored == Spec => []EditsAreAnchored
<1>1. ContextInv => EditsAreAnchored
  <2> SUFFICES ASSUME ContextInv, NEW i \in DOMAIN setup.files, NEW s \in {"old", "new"}
               PROVE  ExactlyAnchored(setup.files[i], s)
    BY DEF EditsAreAnchored
  <2>1. FileValid(setup.files[i])
    BY ChangeAssumption DEF ContextInv, Types, ChangeValid
  <2> QED BY <2>1, ValidFileAnchored
<1> QED BY <1>1, ContextInductive, PTL

-----------------------------------------------------------------------------
(* A bounded set of numbers that is not empty has a greatest member.        *)
LEMMA GreatestNumber ==
  ASSUME NEW M \in Nat, NEW S, S \subseteq 0..M, S # {}
  PROVE  \E x \in S : \A y \in S : y <= x
<1> DEFINE T == {M - x : x \in S}
<1>1. T \subseteq Nat /\ T # {}
  <2>1. \A x \in S : M - x \in Nat
    OBVIOUS
  <2> QED BY <2>1
<1>2. PICK t \in T : \A u \in T : t <= u
  BY <1>1, LeastNumber
<1>3. PICK x \in S : t = M - x
  OBVIOUS
<1>4. \A y \in S : M - x <= M - y
  BY <1>2, <1>3
<1> QED BY <1>4

(* Intervals between 0 and M, in their order.                               *)
Bounded(S, M) == \A i \in S : i.start \in 0..M /\ i.end \in 0..M

(* The starts and ends of bounded intervals are bounded numbers.            *)
LEMMA BoundedEnds ==
  ASSUME NEW M \in Nat, NEW S, Bounded(S, M), S # {}
  PROVE  /\ {i.start : i \in S} \subseteq Nat /\ {i.start : i \in S} \subseteq 0..M /\ {i.start : i \in S} # {}
         /\ {i.end : i \in S} \subseteq Nat /\ {i.end : i \in S} \subseteq 0..M /\ {i.end : i \in S} # {}
<1>1. \A i \in S : i.start \in Nat /\ i.start \in 0..M /\ i.end \in Nat /\ i.end \in 0..M
  BY DEF Bounded
<1>2. {i.start : i \in S} # {} /\ {i.end : i \in S} # {}
  <2> PICK i \in S : TRUE
    OBVIOUS
  <2>1. i.start \in {j.start : j \in S} /\ i.end \in {j.end : j \in S}
    OBVIOUS
  <2> QED BY <2>1
<1> QED BY <1>1, <1>2

(* Bounded intervals have a first one,                                      *)
LEMMA FirstInterval ==
  ASSUME NEW M \in Nat, NEW S, Bounded(S, M), S # {}
  PROVE  \E i \in S : \A j \in S : ~ Earlier(j, i)
<1>1. PICK a \in {i.start : i \in S} : \A x \in {i.start : i \in S} : a <= x
  <2>1. {i.start : i \in S} \subseteq Nat /\ {i.start : i \in S} # {}
    BY BoundedEnds
  <2> QED BY <2>1, LeastNumber
<1> DEFINE T == {i \in S : i.start = a}
<1>2. PICK b \in {i.end : i \in T} : \A x \in {i.end : i \in T} : b <= x
  <2>1. {i.end : i \in T} \subseteq Nat /\ {i.end : i \in T} # {}
    <3>1. Bounded(T, M) /\ T # {}
      BY <1>1 DEF Bounded
    <3> QED BY <3>1, BoundedEnds
  <2> QED BY <2>1, LeastNumber
<1>3. PICK i \in T : i.end = b
  OBVIOUS
<1>4. \A j \in S : ~ Earlier(j, i)
  <2> SUFFICES ASSUME NEW j \in S
               PROVE  ~ Earlier(j, i)
    OBVIOUS
  <2>1. i.start = a /\ a <= j.start /\ j.start \in Nat /\ j.end \in Nat /\ a \in Nat /\ b \in Nat
    BY <1>1, <1>2 DEF Bounded
  <2>2. j.start = a => b <= j.end
    BY <1>2
  <2> QED BY <1>3, <2>1, <2>2 DEF Earlier
<1> QED BY <1>3, <1>4

(* and a last one.                                                          *)
LEMMA LastInterval ==
  ASSUME NEW M \in Nat, NEW S, Bounded(S, M), S # {}
  PROVE  \E i \in S : \A j \in S : ~ Earlier(i, j)
<1>1. PICK a \in {i.start : i \in S} : \A x \in {i.start : i \in S} : x <= a
  <2>1. {i.start : i \in S} \subseteq 0..M /\ {i.start : i \in S} # {}
    BY BoundedEnds
  <2> QED BY <2>1, GreatestNumber
<1> DEFINE T == {i \in S : i.start = a}
<1>2. PICK b \in {i.end : i \in T} : \A x \in {i.end : i \in T} : x <= b
  <2>1. {i.end : i \in T} \subseteq 0..M /\ {i.end : i \in T} # {}
    <3>1. Bounded(T, M) /\ T # {}
      BY <1>1 DEF Bounded
    <3> QED BY <3>1, BoundedEnds
  <2> QED BY <2>1, GreatestNumber
<1>3. PICK i \in T : i.end = b
  OBVIOUS
<1>4. \A j \in S : ~ Earlier(i, j)
  <2> SUFFICES ASSUME NEW j \in S
               PROVE  ~ Earlier(i, j)
    OBVIOUS
  <2>1. i.start = a /\ j.start <= a /\ j.start \in Nat /\ j.end \in Nat /\ a \in Nat /\ b \in Nat
    BY <1>1, <1>2 DEF Bounded
  <2>2. j.start = a => j.end <= b
    BY <1>2
  <2> QED BY <1>3, <2>1, <2>2 DEF Earlier
<1> QED BY <1>3, <1>4

(* Every interval is in one cluster.                                        *)
LEMMA ClusterOfEach ==
  ASSUME NEW M \in Nat, NEW S, Bounded(S, M), NEW i \in S
  PROVE  \E c \in Clusters(S) : i \in c /\ \A d \in Clusters(S) : i \in d => d = c
<1> DEFINE B == {b \in S : Begins(S, b)}
           P == {b \in B : ~ Earlier(i, b)}
<1>1. P # {}
  <2>1. PICK f \in S : \A j \in S : ~ Earlier(j, f)
    BY FirstInterval
  <2>2. f \in P
    BY <2>1 DEF Begins
  <2> QED BY <2>2
<1>2. PICK b \in P : \A d \in P : ~ Earlier(b, d)
  <2>1. Bounded(P, M)
    BY DEF Bounded
  <2> QED BY <1>1, <2>1, LastInterval
<1>3. i \in ClusterOf(S, b)
  BY <1>2 DEF ClusterOf
<1>4. ASSUME NEW d \in B, i \in ClusterOf(S, d)
      PROVE  ClusterOf(S, d) = ClusterOf(S, b)
  <2>1. d \in P /\ ~ Earlier(b, d)
    BY <1>2, <1>4 DEF ClusterOf
  <2>2. ~ Earlier(d, b)
    BY <1>2, <1>4 DEF ClusterOf
  <2>3. d.start = b.start /\ d.end = b.end
    BY <2>1, <2>2 DEF Earlier, Bounded
  <2> QED BY <2>3 DEF ClusterOf, Earlier
<1> QED BY <1>2, <1>3, <1>4 DEF Clusters

(* The span of a cluster holds its intervals.                               *)
LEMMA SpanOf ==
  ASSUME NEW M \in Nat, NEW S, Bounded(S, M), S # {}
  PROVE  /\ Span(S).start \in {i.start : i \in S} /\ Span(S).end \in {i.end : i \in S}
         /\ \A i \in S : Span(S).start <= i.start /\ i.end <= Span(S).end
<1>1. \E x \in {i.start : i \in S} : \A i \in S : x <= i.start
  <2>1. {i.start : i \in S} \subseteq Nat /\ {i.start : i \in S} # {}
    BY BoundedEnds
  <2>2. PICK x \in {i.start : i \in S} : \A y \in {i.start : i \in S} : x <= y
    BY <2>1, LeastNumber
  <2>3. \A i \in S : i.start \in {j.start : j \in S}
    OBVIOUS
  <2> QED BY <2>2, <2>3
<1>2. \E x \in {i.end : i \in S} : \A i \in S : i.end <= x
  <2>1. {i.end : i \in S} \subseteq 0..M /\ {i.end : i \in S} # {}
    BY BoundedEnds
  <2>2. PICK x \in {i.end : i \in S} : \A y \in {i.end : i \in S} : y <= x
    BY <2>1, GreatestNumber
  <2>3. \A i \in S : i.end \in {j.end : j \in S}
    OBVIOUS
  <2> QED BY <2>2, <2>3
<1> QED BY <1>1, <1>2 DEF Span

(* A cluster ends before the next one begins.                               *)
LEMMA ClustersApart ==
  ASSUME NEW M \in Nat, NEW S, Bounded(S, M), NEW c \in Clusters(S), NEW d \in Clusters(S), c # d
  PROVE  Span(c).end <= Span(d).start \/ Span(d).end <= Span(c).start
<1>1. PICK a \in S : Begins(S, a) /\ c = ClusterOf(S, a)
  BY DEF Clusters
<1>2. PICK b \in S : Begins(S, b) /\ d = ClusterOf(S, b)
  BY DEF Clusters
<1>3. Bounded(c, M) /\ Bounded(d, M) /\ a \in c /\ b \in d
  BY <1>1, <1>2 DEF Bounded, ClusterOf, Earlier
<1>4. /\ Span(c).start \in {i.start : i \in c} /\ Span(c).end \in {i.end : i \in c}
      /\ Span(d).start \in {i.start : i \in d} /\ Span(d).end \in {i.end : i \in d}
  BY <1>3, SpanOf
<1>5. CASE Earlier(a, b)
  <2>1. \A j \in c : Earlier(j, b) /\ j.end <= b.start
    BY <1>1, <1>2, <1>5 DEF ClusterOf, Begins
  <2>2. \A j \in d : b.start <= j.start
    BY <1>2, <1>3 DEF ClusterOf, Earlier, Bounded
  <2> QED BY <1>3, <1>4, <2>1, <2>2 DEF Bounded
<1>6. CASE Earlier(b, a)
  <2>1. \A j \in d : Earlier(j, a) /\ j.end <= a.start
    BY <1>1, <1>2, <1>6 DEF ClusterOf, Begins
  <2>2. \A j \in c : a.start <= j.start
    BY <1>1, <1>3 DEF ClusterOf, Earlier, Bounded
  <2> QED BY <1>3, <1>4, <2>1, <2>2 DEF Bounded
<1>7. CASE ~ Earlier(a, b) /\ ~ Earlier(b, a)
  <2>1. a.start = b.start /\ a.end = b.end
    BY <1>1, <1>2, <1>7 DEF Earlier, Bounded
  <2> QED BY <1>1, <1>2, <2>1 DEF ClusterOf, Earlier
<1> QED BY <1>5, <1>6, <1>7

(* Positions inside a file lie between its ends.                            *)
LEMMA OffsetInside ==
  ASSUME NEW n \in Nat, NEW p, ValidPosition(p, n)
  PROVE  Offset(p) \in 0..(n * (Width + 1))
<1> PICK w : w = Width + 1
  OBVIOUS
<1>1. w \in Nat /\ w > 0
  BY LinesAssumption
<1>2. CASE p[1] = n + 1 /\ p[2] = 1
  BY <1>1, <1>2 DEF Offset
<1>3. CASE p[1] \in 1..n /\ p[2] \in 1..w
  <2> PICK a, b, k : a = p[1] - 1 /\ b = p[2] - 1 /\ k = n - p[1]
    OBVIOUS
  <2>1. a \in Nat /\ b \in Nat /\ b < w /\ k \in Nat /\ n = a + 1 + k
    BY <1>1, <1>3
  <2>2. a * w \in Nat /\ k * w \in Nat /\ n * w = a * w + w + k * w
    BY <1>1, <2>1
  <2>3. Offset(p) = a * w + b
    BY <1>1, <1>3, <2>1 DEF Offset
  <2> QED BY <1>1, <2>1, <2>2, <2>3
<1> QED BY <1>2, <1>3 DEF ValidPosition

-----------------------------------------------------------------------------
(* What is nested in a part is a part itself.                               *)
LEMMA PartsOfParts ==
  ASSUME NEW k, NEW item, NEW O, NEW p \in Parts(k, item, O), NEW Q
  PROVE  Parts(k, p, Q) \subseteq Parts(k, item, O)
<1>1. \A n : Parts(k, Identity(n), Q) = {}
  BY DEF Parts, Identity
<1>2. \A S : \A r \in Ranges(S) : Parts(k, r, Q) = {}
  BY DEF Parts, Ranges, RangeItem
<1>3. \A s : \A r \in SymbolParts(k, s) : Parts(k, r, Q) = {}
  BY <1>1, <1>2 DEF SymbolParts
<1>4. CASE item[1] \in {"identity", "range"}
  BY <1>4 DEF Parts
<1>5. CASE item[1] = "symbol"
  BY <1>3, <1>5 DEF Parts
<1>6. CASE item[1] \in {"declaration", "definition", "node", "evidence"}
  <2>1. p \in {Identity(item[2])} \/ \E S : p \in Ranges(S)
    BY <1>6 DEF Parts
  <2> QED BY <1>1, <1>2, <2>1
<1>7. CASE item[1] = "change"
  <2> PICK a, symbols : a = anchors[item[2]] /\ symbols = outcomes[item[2]].symbols
    OBVIOUS
  <2>1. p \in ChangeParts(k, a, symbols)
    BY <1>7 DEF Parts
  <2>2. (\E n : p = Identity(n)) \/ (\E S : p \in Ranges(S)) \/ p \in ChangedRange(a)
    <3>1. p \in ChangedRange(a) \/ \E s \in symbols : p \in MatchParts(k, s, a)
      BY <2>1 DEF ChangeParts
    <3>2. \A s : p \in MatchParts(k, s, a) => p \in {Identity(s)} \/ p \in Ranges(Touching(k, s, a))
      BY DEF MatchParts
    <3> QED BY <3>1, <3>2
  <2>3. p \in ChangedRange(a) => p[1] = "range"
    BY DEF ChangedRange
  <2>7. p[1] = "range" => Parts(k, p, Q) = {}
    BY DEF Parts
  <2> QED BY <1>1, <1>2, <2>2, <2>3, <2>7
<1>8. CASE item[1] \notin {"identity", "range", "symbol", "declaration", "definition", "node", "evidence", "change"}
  <2>1. Parts(k, item, O) = RelationParts(k, item, O)
    BY <1>8 DEF Parts
  <2> DEFINE ends == IF "retrieval" \in O THEN {item[2], item[3]} \intersect k.symbols ELSE {}
  <2>2. RelationParts(k, item, O) =
          {Identity(item[2]), Identity(item[3])} \union Ranges({k.evidence[EdgeOf(k, item)]})
            \union {<<"evidence", item, item>> : o \in O \intersect {"expansion"}}
            \union {<<"symbol", s, s>> : s \in ends} \union UNION {SymbolParts(k, s) : s \in ends}
    BY DEF RelationParts
  <2> HIDE DEF ends
  <2>3. CASE p \in {Identity(item[2]), Identity(item[3])} \union Ranges({k.evidence[EdgeOf(k, item)]})
    BY <1>1, <1>2, <2>3
  <2>4. CASE p \in {<<"evidence", item, item>> : o \in O \intersect {"expansion"}}
    <3>1. Parts(k, p, Q) = Ranges({k.evidence[EdgeOf(k, item)]})
      BY <2>4 DEF Parts
    <3> QED BY <2>1, <2>2, <3>1
  <2>5. CASE p \in {<<"symbol", s, s>> : s \in ends}
    <3>1. PICK s \in ends : p = <<"symbol", s, s>>
      BY <2>5
    <3>2. Parts(k, p, Q) = SymbolParts(k, s)
      BY <3>1 DEF Parts
    <3> QED BY <2>1, <2>2, <3>1, <3>2
  <2>6. CASE p \in UNION {SymbolParts(k, s) : s \in ends}
    BY <1>3, <2>6
  <2> QED BY <2>1, <2>2, <2>3, <2>4, <2>5, <2>6
<1> QED BY <1>4, <1>5, <1>6, <1>7, <1>8

(* What is nested in an item comes from one of the stages that observed it. *)
LEMMA PartsByOrigin ==
  ASSUME NEW k, NEW item, NEW O, O # {}, NEW p \in Parts(k, item, O)
  PROVE  \E o \in O : p \in Parts(k, item, {o})
<1>1. CASE item[1] \in {"identity", "range", "symbol", "declaration", "definition", "node", "evidence", "change"}
  <2>1. \A Q : Parts(k, item, Q) = Parts(k, item, O)
    BY <1>1 DEF Parts
  <2> QED BY <2>1
<1>2. CASE item[1] \notin {"identity", "range", "symbol", "declaration", "definition", "node", "evidence", "change"}
  <2>1. \A Q : Parts(k, item, Q) = RelationParts(k, item, Q)
    BY <1>2 DEF Parts
  <2> DEFINE always == {Identity(item[2]), Identity(item[3])} \union Ranges({k.evidence[EdgeOf(k, item)]})
             ends == {item[2], item[3]} \intersect k.symbols
             symbols == {<<"symbol", s, s>> : s \in ends} \union UNION {SymbolParts(k, s) : s \in ends}
  <2>2. \A Q : RelationParts(k, item, Q) = always \union (IF "expansion" \in Q THEN {<<"evidence", item, item>>} ELSE {})
                                                  \union (IF "retrieval" \in Q THEN symbols ELSE {})
    <3> SUFFICES ASSUME NEW Q
                 PROVE  RelationParts(k, item, Q) = always \union (IF "expansion" \in Q THEN {<<"evidence", item, item>>} ELSE {})
                                                  \union (IF "retrieval" \in Q THEN symbols ELSE {})
      OBVIOUS
    <3>1. CASE "retrieval" \in Q
      BY <3>1 DEF RelationParts
    <3>2. CASE "retrieval" \notin Q
      BY <3>2 DEF RelationParts
    <3> QED BY <3>1, <3>2
  <2> HIDE DEF always, symbols
  <2> QED BY <2>1, <2>2
<1> QED BY <1>1, <1>2

(* Every item of a side and, with it, what is nested in it.                 *)
Items(s, added) == UNION {Within(s, c) : c \in added}

(* The parts of a listed item are listed: what is nested in a part is a     *)
(* part.                                                                    *)
LEMMA ItemsClosed ==
  ASSUME NEW s, NEW added, NEW item \in Items(s, added)
  PROVE  Parts(Knowledge[s], item, Origins(added, item)) \subseteq Items(s, added)
<1>1. CASE \E c \in added : c.item = item
  <2>1. Origins(added, item) # {}
    BY <1>1 DEF Origins
  <2> SUFFICES ASSUME NEW p \in Parts(Knowledge[s], item, Origins(added, item))
               PROVE  p \in Items(s, added)
    OBVIOUS
  <2>2. PICK o \in Origins(added, item) : p \in Parts(Knowledge[s], item, {o})
    BY <2>1, PartsByOrigin
  <2>3. PICK c \in added : c.item = item /\ c.origin = o
    BY <2>2 DEF Origins
  <2>4. p \in Within(s, c)
    BY <2>2, <2>3 DEF Within
  <2> QED BY <2>3, <2>4 DEF Items
<1>2. CASE ~ \E c \in added : c.item = item
  <2>1. PICK c \in added : item \in Within(s, c)
    BY DEF Items
  <2>2. item \in Parts(Knowledge[s], c.item, {c.origin})
    BY <1>2, <2>1 DEF Within
  <2>3. Parts(Knowledge[s], item, Origins(added, item)) \subseteq Parts(Knowledge[s], c.item, {c.origin})
    BY <2>2, PartsOfParts
  <2>4. Parts(Knowledge[s], item, Origins(added, item)) \subseteq Within(s, c)
    BY <2>3 DEF Within
  <2> QED BY <2>1, <2>4 DEF Items
<1> QED BY <1>1, <1>2

(* The records of a side, and what the second pass makes of them.           *)
LEMMA RecordShape ==
  ASSUME NEW s, NEW added, NEW item \in Items(s, added), NEW r, r = RecordOf(s, added, item)
  PROVE  /\ r.side = s /\ r.item = item
         /\ item \notin r.deps /\ r.deps \subseteq Items(s, added)
         /\ r.ranges \subseteq Items(s, added) /\ \A x \in r.ranges : x[1] = "range"
         /\ item[1] \in Relations => {Identity(item[2]), Identity(item[3])} \subseteq r.deps
<1> PICK parts : parts = Parts(Knowledge[s], item, Origins(added, item))
  OBVIOUS
<1>1. parts \subseteq Items(s, added)
  BY ItemsClosed
<1>2. r.side = s /\ r.item = item /\ r.deps = parts \ {item} /\ r.ranges = OwnRanges(item, parts)
  BY DEF RecordOf
<1>3. r.ranges \subseteq Items(s, added) /\ \A x \in r.ranges : x[1] = "range"
  BY <1>1, <1>2 DEF OwnRanges
<1>4. ASSUME item[1] \in Relations
      PROVE  {Identity(item[2]), Identity(item[3])} \subseteq r.deps
  <2>1. item[1] \notin {"identity", "range", "symbol", "declaration", "definition", "node", "evidence", "change"}
    BY <1>4, KindsAssumption
  <2>2. parts = RelationParts(Knowledge[s], item, Origins(added, item))
    BY <2>1 DEF Parts
  <2>3. {Identity(item[2]), Identity(item[3])} \subseteq parts
    BY <2>2 DEF RelationParts
  <2>4. Identity(item[2]) # item /\ Identity(item[3]) # item
    <3>1. Identity(item[2])[1] = "identity" /\ Identity(item[3])[1] = "identity"
      BY DEF Identity
    <3> QED BY <2>1, <3>1
  <2> QED BY <1>2, <2>3, <2>4
<1> QED BY <1>1, <1>2, <1>3, <1>4

(* Giving a candidate its ranges changes nothing else of it, and an item    *)
(* other than a symbol not at all.                                          *)
LEMMA LocatedShape ==
  ASSUME NEW records, NEW s, NEW added, NEW item, NEW r, r = RecordOf(s, added, item),
         NEW c, c = Located(records, r)
  PROVE  /\ c.side = s /\ c.item = item
         /\ item[1] # "identity" => c = r
         /\ item[1] = "identity" => /\ c.ranges = UNION {f.ranges : f \in FactsAbout(records, r)}
                                    /\ c.deps = c.ranges
<1> PICK ds, rs, hs : r = [side |-> s, item |-> item, deps |-> ds, ranges |-> rs, hashes |-> hs]
  BY DEF RecordOf
<1>1. CASE item[1] # "identity"
  BY <1>1 DEF Located
<1>2. CASE item[1] = "identity"
  <2> PICK facts : facts = FactsAbout(records, r)
    OBVIOUS
  <2> PICK x, h : x = UNION {f.ranges : f \in facts} /\ h = UNION {f.hashes : f \in facts}
    OBVIOUS
  <2>1. c = [r EXCEPT !.ranges = x, !.deps = x, !.hashes = h]
    BY <1>2 DEF Located
  <2>3. DOMAIN r = {"side", "item", "deps", "ranges", "hashes"} /\ r.side = s /\ r.item = item
    OBVIOUS
  <2>4. DOMAIN c = DOMAIN r /\ c.side = r.side /\ c.item = r.item
    BY <2>1, <2>3
  <2>5. c.ranges = x /\ c.deps = x
    BY <2>1, <2>3
  <2>2. c.side = s /\ c.item = item /\ c.ranges = x /\ c.deps = x
    BY <2>3, <2>4, <2>5
  <2> QED BY <1>2, <2>2
<1> QED BY <1>1, <1>2

(* A closed set of candidates, one for each item of a side.                 *)
ClosedSet(S) ==
  /\ \A c \in S : c.side \in SidesOf
  /\ \A c, d \in S : c.side = d.side /\ c.item = d.item => c = d
  /\ \A c \in S :
       LET items == {d.item : d \in {x \in S : x.side = c.side}}
       IN  /\ c.deps \union c.ranges \subseteq items
           /\ c.item \notin c.deps
           /\ c.item[1] \in Relations => {Identity(c.item[2]), Identity(c.item[3])} \subseteq c.deps

(* Every candidate of a side depends on listed items only, and never on     *)
(* itself.                                                                  *)
LEMMA SideClosed ==
  ASSUME NEW s, NEW added, added = Contributed(s), NEW c \in Sourced(Records(s))
  PROVE  /\ c.side = s /\ c.item \in Items(s, added)
         /\ c = Located(Records(s), RecordOf(s, added, c.item))
         /\ c.deps \union c.ranges \subseteq Items(s, added) /\ c.item \notin c.deps
         /\ c.item[1] \in Relations => {Identity(c.item[2]), Identity(c.item[3])} \subseteq c.deps
<1> PICK records : records = Records(s)
  OBVIOUS
<1>1. records = {RecordOf(s, added, item) : item \in Items(s, added)}
  BY DEF Records, Items
<1>2. PICK item \in Items(s, added) : c = Located(records, RecordOf(s, added, item))
  BY <1>1 DEF Sourced
<1> PICK r : r = RecordOf(s, added, item)
  OBVIOUS
<1>3. /\ r.side = s /\ r.item = item
      /\ item \notin r.deps /\ r.deps \subseteq Items(s, added) /\ r.ranges \subseteq Items(s, added)
      /\ item[1] \in Relations => {Identity(item[2]), Identity(item[3])} \subseteq r.deps
  BY RecordShape
<1>4. /\ c.side = s /\ c.item = item
      /\ item[1] # "identity" => c = r
      /\ item[1] = "identity" => /\ c.ranges = UNION {f.ranges : f \in FactsAbout(records, r)}
                                 /\ c.deps = c.ranges
  BY <1>2, LocatedShape
<1>5. CASE item[1] # "identity"
  BY <1>2, <1>3, <1>4, <1>5
<1>6. CASE item[1] = "identity"
  <2>1. \A f \in records : f.ranges \subseteq Items(s, added) /\ \A x \in f.ranges : x[1] = "range"
    BY <1>1, RecordShape
  <2>2. c.ranges \subseteq Items(s, added) /\ \A x \in c.ranges : x[1] = "range"
    BY <1>4, <1>6, <2>1 DEF FactsAbout
  <2>3. c.item \notin c.deps
    BY <1>4, <1>6, <2>2
  <2>4. item[1] \notin Relations
    BY <1>6, KindsAssumption
  <2> QED BY <1>2, <1>4, <1>6, <2>2, <2>3, <2>4
<1> QED BY <1>5, <1>6

(* Every listed item has its candidate.                                     *)
LEMMA EveryItemListed ==
  ASSUME NEW s, NEW added, added = Contributed(s), NEW item \in Items(s, added)
  PROVE  \E c \in Sourced(Records(s)) : c.item = item
<1>1. RecordOf(s, added, item) \in Records(s)
  BY DEF Records, Items
<1>2. Located(Records(s), RecordOf(s, added, item)) \in Sourced(Records(s))
  BY <1>1 DEF Sourced
<1> QED BY <1>2, LocatedShape

(* The extraction hands on a closed set of candidates.                      *)
LEMMA ExtractCloses ==
  ASSUME Extract
  PROVE  ClosedSet(candidates')
<1> PICK S : S = candidates'
  OBVIOUS
<1>1. S = UNION {Sourced(Records(s)) : s \in SidesOf}
  BY DEF Extract
<1>2. \A c \in S : c.side \in SidesOf /\ c \in Sourced(Records(c.side))
  BY <1>1, SideClosed
<1>3. \A c, d \in S : c.side = d.side /\ c.item = d.item => c = d
  BY <1>2, SideClosed
<1>4. ASSUME NEW c \in S
      PROVE  /\ c.deps \union c.ranges \subseteq {d.item : d \in {x \in S : x.side = c.side}}
             /\ c.item \notin c.deps
             /\ c.item[1] \in Relations => {Identity(c.item[2]), Identity(c.item[3])} \subseteq c.deps
  <2> PICK s, added : s = c.side /\ added = Contributed(s)
    OBVIOUS
  <2>1. /\ c.deps \union c.ranges \subseteq Items(s, added) /\ c.item \notin c.deps
        /\ c.item[1] \in Relations => {Identity(c.item[2]), Identity(c.item[3])} \subseteq c.deps
    BY <1>2, SideClosed
  <2>2. Items(s, added) \subseteq {d.item : d \in {x \in S : x.side = s}}
    <3> SUFFICES ASSUME NEW item \in Items(s, added)
                 PROVE  item \in {d.item : d \in {x \in S : x.side = s}}
      OBVIOUS
    <3>1. PICK d \in Sourced(Records(s)) : d.item = item
      BY EveryItemListed
    <3>2. d.side = s /\ d \in S
      BY <1>1, <1>2, <3>1, SideClosed
    <3> QED BY <3>1, <3>2
  <2> QED BY <2>1, <2>2
<1> QED BY <1>2, <1>3, <1>4 DEF ClosedSet

-----------------------------------------------------------------------------
(* The intervals of a file lie in its text.                                 *)
LEMMA IntervalsInside ==
  ASSUME NEW s \in SidesOf, NEW path, NEW g, g = <<s, path>>
  PROVE  \E M \in Nat : Bounded(Intervals(g, Refusal(g)), M)
<1> PICK I, refusal : I = Intervals(g, refusal) /\ refusal = Refusal(g)
  OBVIOUS
<1>1. CASE I = {}
  BY <1>1 DEF Bounded
<1>2. CASE I # {}
  <2>1. PICK i0 \in I : TRUE
    BY <1>2
  <2>2. refusal = "none"
    BY <2>1 DEF Intervals, Verdict
  <2>3. path \in Knowledge[s].hashed
    BY <2>2 DEF Refusal
  <2> PICK n : n = Knowledge[s].lines[path]
    OBVIOUS
  <2>4. n \in Nat
    BY <2>3, LinesAssumption DEF SidesOf
  <2>5. ASSUME NEW i \in I
        PROVE  i.start \in 0..(n * (Width + 1)) /\ i.end \in 0..(n * (Width + 1))
    <3>1. PICK c \in Group(g[1], g[2]) : /\ Verdict(g, refusal, c) = "none"
                                          /\ i.start = Offset(c.item[3][1]) /\ i.end = Offset(c.item[3][2])
      BY DEF Intervals
    <3>2. Valid(g, c.item[3])
      BY <2>2, <3>1 DEF Verdict
    <3>3. ValidPosition(c.item[3][1], n) /\ ValidPosition(c.item[3][2], n)
      BY <3>2 DEF Valid
    <3> QED BY <2>4, <3>1, <3>3, OffsetInside
  <2>6. n * (Width + 1) \in Nat
    BY <2>4, LinesAssumption
  <2> QED BY <2>5, <2>6 DEF Bounded
<1> QED BY <1>1, <1>2

(* What reading one file adds: for every range of the file one answer, and  *)
(* texts that lie apart from each other.                                    *)
Answers(g) ==
  {Snippet(c, Verdict(g, Refusal(g), c), Absent) : c \in {d \in Group(g[1], g[2]) : Verdict(g, Refusal(g), d) # "none"}}
    \union UNION {{Cut(g, c, i) : i \in c} : c \in Clusters(Intervals(g, Refusal(g)))}

Texts(g) == {Backing(g, c) : c \in {d \in Clusters(Intervals(g, Refusal(g))) : Backed(d)}}

(* An answer of a file is a refusal of one of its candidates or a cut of    *)
(* one of its clusters.                                                     *)
LEMMA AnswerShape ==
  ASSUME NEW g, NEW o \in Answers(g)
  PROVE  \/ \E c \in Group(g[1], g[2]) : /\ Verdict(g, Refusal(g), c) # "none"
                                         /\ o = Snippet(c, Verdict(g, Refusal(g), c), Absent)
         \/ \E c \in Clusters(Intervals(g, Refusal(g))) : \E i \in c : o = Cut(g, c, i)
BY DEF Answers

(* A cut is of its candidate, and available only with the text of its       *)
(* cluster.                                                                 *)
LEMMA CutShape ==
  ASSUME NEW g, NEW c, NEW i
  PROVE  /\ Cut(g, c, i).side = i.of.side /\ Cut(g, c, i).item = i.of.item
         /\ Cut(g, c, i).status = "available" => Backed(c) /\ Cut(g, c, i).backing = Backing(g, c)
BY DEF Cut, Snippet

(* An interval is the range of a candidate that nothing refuses.            *)
LEMMA IntervalShape ==
  ASSUME NEW g, NEW c \in Clusters(Intervals(g, Refusal(g))), NEW i \in c
  PROVE  /\ i \in Intervals(g, Refusal(g))
         /\ i.of \in Group(g[1], g[2]) /\ Verdict(g, Refusal(g), i.of) = "none"
         /\ i = [start |-> Offset(i.of.item[3][1]), end |-> Offset(i.of.item[3][2]), of |-> i.of]
<1>1. i \in Intervals(g, Refusal(g))
  BY DEF Clusters, ClusterOf
<1>2. PICK d \in Group(g[1], g[2]) : /\ Verdict(g, Refusal(g), d) = "none"
                                      /\ i = [start |-> Offset(d.item[3][1]), end |-> Offset(d.item[3][2]), of |-> d]
  BY <1>1 DEF Intervals
<1>3. i.of = d
  BY <1>2
<1> QED BY <1>1, <1>2, <1>3

(* Answers are of the candidates of the file.                               *)
LEMMA AnswersOfGroup ==
  ASSUME NEW g, NEW o \in Answers(g)
  PROVE  \E c \in Group(g[1], g[2]) : o.side = c.side /\ o.item = c.item
<1>1. CASE \E c \in Group(g[1], g[2]) : o = Snippet(c, Verdict(g, Refusal(g), c), Absent)
  BY <1>1 DEF Snippet
<1>2. CASE \E c \in Clusters(Intervals(g, Refusal(g))) : \E i \in c : o = Cut(g, c, i)
  BY <1>2, CutShape, IntervalShape
<1> QED BY <1>1, <1>2, AnswerShape

(* Every candidate of a file has one answer: two intervals of one range     *)
(* would be one.                                                            *)
LEMMA OneAnswer ==
  ASSUME ClosedSet(candidates), NEW s \in SidesOf, NEW path, NEW g, g = <<s, path>>, NEW c \in Group(s, path)
  PROVE  \E o \in Answers(g) : {p \in Answers(g) : p.side = c.side /\ p.item = c.item} = {o}
<1> PICK refusal : refusal = Refusal(g)
  OBVIOUS
<1>1. \A d \in Group(s, path) : d \in candidates /\ d.side = s
  BY DEF Group, RangesOf
<1>2. \A d \in Group(s, path) : d.item = c.item => d = c
  BY <1>1 DEF ClosedSet
<1>3. CASE Verdict(g, refusal, c) # "none"
  <2> PICK o : o = Snippet(c, Verdict(g, refusal, c), Absent)
    OBVIOUS
  <2>1. o \in Answers(g) /\ o.side = c.side /\ o.item = c.item
    BY <1>3 DEF Answers, Snippet
  <2>2. ASSUME NEW p \in Answers(g), p.item = c.item
        PROVE  p = o
    <3>1. CASE \E d \in Group(s, path) : p = Snippet(d, Verdict(g, refusal, d), Absent)
      BY <1>2, <2>2, <3>1 DEF Snippet
    <3>2. CASE \E d \in Clusters(Intervals(g, refusal)) : \E i \in d : p = Cut(g, d, i)
      BY <1>2, <1>3, <2>2, <3>2, CutShape, IntervalShape
    <3> QED BY <3>1, <3>2, AnswerShape
  <2> QED BY <2>1, <2>2
<1>4. CASE Verdict(g, refusal, c) = "none"
  <2> PICK I : I = Intervals(g, refusal)
    OBVIOUS
  <2> PICK i : i = [start |-> Offset(c.item[3][1]), end |-> Offset(c.item[3][2]), of |-> c]
    OBVIOUS
  <2>1. i \in I
    BY <1>4 DEF Intervals
  <2>2. PICK M \in Nat : Bounded(I, M)
    BY IntervalsInside
  <2>3. PICK b \in Clusters(I) : i \in b /\ \A d \in Clusters(I) : i \in d => d = b
    BY <2>1, <2>2, ClusterOfEach
  <2> PICK o : o = Cut(g, b, i)
    OBVIOUS
  <2>4. o \in Answers(g) /\ o.side = c.side /\ o.item = c.item
    BY <2>3, CutShape DEF Answers
  <2>5. ASSUME NEW p \in Answers(g), p.item = c.item
        PROVE  p = o
    <3>1. CASE \E d \in Group(s, path) : Verdict(g, refusal, d) # "none" /\ p = Snippet(d, Verdict(g, refusal, d), Absent)
      BY <1>2, <1>4, <2>5, <3>1 DEF Snippet
    <3>2. CASE \E d \in Clusters(I) : \E j \in d : p = Cut(g, d, j)
      <4>3. PICK d \in Clusters(I) : \E j \in d : p = Cut(g, d, j)
        BY <3>2
      <4>1. PICK j \in d : p = Cut(g, d, j)
        BY <4>3
      <4>2. j.of = c /\ j = i
        BY <1>2, <2>5, <4>1, CutShape, IntervalShape
      <4> QED BY <2>3, <4>1, <4>2
    <3> QED BY <3>1, <3>2, AnswerShape
  <2> QED BY <2>4, <2>5
<1> QED BY <1>3, <1>4

(* A text that is handed out is not an edited one and holds its ranges.     *)
Grounded(o, B) ==
  /\ o.backing \in B /\ o.backing.text = "bound"
  /\ o.backing.span.start <= Offset(o.item[3][1]) /\ Offset(o.item[3][2]) <= o.backing.span.end

(* An available answer lies within one text of its file, at the lines of    *)
(* its range.                                                               *)
LEMMA AnswersGrounded ==
  ASSUME NEW s \in SidesOf, NEW path, NEW g, g = <<s, path>>, NEW o \in Answers(g), o.status = "available"
  PROVE  Grounded(o, Texts(g))
<1> PICK refusal : refusal = Refusal(g)
  OBVIOUS
<1>1. ~ \E c \in Group(g[1], g[2]) : o = Snippet(c, Verdict(g, refusal, c), Absent)
  <2>1. \A c : Verdict(g, refusal, c) # "available"
    <3>1. refusal # "available"
      BY DEF Refusal
    <3> QED BY <3>1 DEF Verdict
  <2> QED BY <2>1 DEF Snippet
<1>11. PICK b \in Clusters(Intervals(g, refusal)) : \E i \in b : o = Cut(g, b, i)
  BY <1>1, AnswerShape
<1>2. PICK i \in b : o = Cut(g, b, i)
  BY <1>11
<1>3. Backed(b) /\ o.backing = Backing(g, b) /\ o.item = i.of.item
  BY <1>2, CutShape
<1>4. o.backing \in Texts(g)
  BY <1>2, <1>3 DEF Texts
<1>5. Verdict(g, refusal, i.of) = "none" /\ i.start = Offset(o.item[3][1]) /\ i.end = Offset(o.item[3][2])
  BY <1>2, <1>3, IntervalShape
<1>6. refusal = "none" /\ g \notin edited
  BY <1>5 DEF Verdict, Refusal
<1>7. o.backing.text = "bound" /\ o.backing.span = Span(b)
  BY <1>3, <1>6 DEF Backing
<1>8. PICK M \in Nat : Bounded(Intervals(g, refusal), M)
  BY IntervalsInside
<1>9. Bounded(b, M)
  BY <1>2, <1>8, IntervalShape DEF Bounded
<1>10. Span(b).start <= i.start /\ i.end <= Span(b).end
  BY <1>2, <1>9, SpanOf
<1> QED BY <1>4, <1>5, <1>7, <1>10 DEF Grounded

(* Texts share no character.                                                *)
Apart(B) == \A b, c \in B : b # c /\ b.side = c.side /\ b.path = c.path =>
              b.span.end <= c.span.start \/ c.span.end <= b.span.start

(* Two texts of one file do not overlap, and all are of that file.          *)
LEMMA TextsApart ==
  ASSUME NEW s \in SidesOf, NEW path, NEW g, g = <<s, path>>
  PROVE  Apart(Texts(g)) /\ \A b \in Texts(g) : b.side = s /\ b.path = path
<1> PICK I : I = Intervals(g, Refusal(g))
  OBVIOUS
<1>1. PICK M \in Nat : Bounded(I, M)
  BY IntervalsInside
<1>2. \A b \in Texts(g) : \E d \in Clusters(I) : b = Backing(g, d)
  BY DEF Texts
<1>3. \A d : Backing(g, d).side = s /\ Backing(g, d).path = path /\ Backing(g, d).span = Span(d)
  BY DEF Backing
<1> QED BY <1>1, <1>2, <1>3, ClustersApart DEF Apart

-----------------------------------------------------------------------------
(* What has no session or has been read is answered for exactly once, what  *)
(* is still to be read has neither an answer nor a text, and only what was  *)
(* read is handed out.                                                      *)
Ends == {"read", "failed", "done"}

One(c) == \E o \in output : {p \in output : p.side = c.side /\ p.item = c.item} = {o}

ToRead(c) == c.side \in setup.available /\ <<c.side, c.item[2]>> \in pending

Judged ==
  /\ phase = "read" => \A c \in candidates : c.item[1] = "range" /\ ~ ToRead(c) => One(c)
  /\ phase = "failed" => \A c \in candidates : c.item[1] = "range" /\ c.side \notin setup.available => One(c)
  /\ phase = "done" => \A c \in candidates : c.item[1] = "range" => One(c)

Untouched ==
  phase = "read" =>
    /\ pending \subseteq Groups
    /\ \A o \in output : ~ ToRead(o)
    /\ \A b \in backings : <<b.side, b.path>> \notin pending

HandedOut ==
  /\ \A o \in output : o.status = "available" => o.side \in setup.available /\ Grounded(o, backings)
  /\ Apart(backings)

NothingYet ==
  /\ phase \notin Ends => output = {} /\ backings = {}
  /\ phase \notin Ends \union {"open"} => candidates = {}

MaterialInv == NothingYet /\ ClosedSet(candidates) /\ Judged /\ Untouched /\ HandedOut

(* A group is a file of an available side.                                  *)
LEMMA GroupOf ==
  ASSUME ClosedSet(candidates), NEW g \in Groups
  PROVE  /\ g = <<g[1], g[2]>> /\ g[1] \in SidesOf /\ g[1] \in setup.available
<1>1. PICK s \in setup.available : g \in {<<s, c.item[2]>> : c \in RangesOf(s)}
  BY DEF Groups
<1>2. PICK c \in RangesOf(s) : g = <<s, c.item[2]>>
  BY <1>1
<1> QED BY <1>1, <1>2 DEF RangesOf, ClosedSet

(* Answers of one file join those of the others.                            *)
LEMMA ReadKeeps ==
  ASSUME MaterialInv, NEW g \in pending, Read(g)
  PROVE  MaterialInv'
<1> PICK A, B : A = Answers(g) /\ B = Texts(g)
  OBVIOUS
<1>1. /\ phase = "read" /\ phase' = "read" /\ pending' = pending \ {g}
      /\ UNCHANGED <<setup, candidates>>
      /\ ClosedSet(candidates) /\ Judged /\ Untouched /\ HandedOut
  BY DEF Read, MaterialInv
<1>2. output' = output \union A /\ backings' = backings \union B
  <2>1. ReadWhole(g, Refusal(g))
    BY DEF Read
  <2> QED BY <2>1 DEF ReadWhole, Answers, Texts
<1> PICK s, path : s = g[1] /\ path = g[2]
  OBVIOUS
<1>3. g = <<s, path>> /\ s \in SidesOf /\ s \in setup.available /\ g \in Groups
  BY <1>1, GroupOf DEF Untouched
<1>4. \A c \in Group(s, path) : c \in candidates /\ c.side = s /\ c.item[1] = "range" /\ c.item[2] = path
  BY DEF Group, RangesOf
<1>5. \A o \in A : o.side = s /\ o.item[2] = path
  BY <1>3, <1>4, AnswersOfGroup
<1>6. \A o \in output : ~ (o.side = s /\ o.item[2] = path)
  BY <1>1, <1>3 DEF Untouched, ToRead
<1>7. NothingYet' /\ ClosedSet(candidates)'
  BY <1>1 DEF NothingYet, Ends, ClosedSet
<1>8. Judged'
  <2> SUFFICES ASSUME NEW c \in candidates, c.item[1] = "range", ~ ToRead(c)'
               PROVE  \E o \in output' : {p \in output' : p.side = c.side /\ p.item = c.item} = {o}
    BY <1>1 DEF Judged, One
  <2>1. CASE c.side = s /\ c.item[2] = path
    <3>1. c \in Group(s, path)
      BY <2>1 DEF Group, RangesOf
    <3>2. PICK o \in A : {p \in A : p.side = c.side /\ p.item = c.item} = {o}
      BY <1>1, <1>3, <3>1, OneAnswer
    <3>3. {p \in output' : p.side = c.side /\ p.item = c.item} = {p \in A : p.side = c.side /\ p.item = c.item}
      BY <1>2, <1>6, <2>1
    <3> QED BY <1>2, <3>2, <3>3
  <2>2. CASE ~ (c.side = s /\ c.item[2] = path)
    <3>1. <<c.side, c.item[2]>> # g
      BY <1>3, <2>2
    <3>2. One(c)
      BY <1>1, <3>1 DEF Judged, ToRead
    <3>3. {p \in output' : p.side = c.side /\ p.item = c.item} = {p \in output : p.side = c.side /\ p.item = c.item}
      BY <1>2, <1>5, <2>2
    <3> QED BY <1>2, <3>2, <3>3 DEF One
  <2> QED BY <2>1, <2>2
<1>9. Untouched'
  <2>1. Groups' = Groups
    BY <1>1 DEF Groups, RangesOf
  <2>2. \A o \in output' : ~ ToRead(o)'
    <3> SUFFICES ASSUME NEW o \in output', o.side \in setup.available, <<o.side, o.item[2]>> \in pending \ {g}
                 PROVE  FALSE
      BY <1>1 DEF ToRead
    <3>1. CASE o \in output
      BY <1>1, <3>1 DEF Untouched, ToRead
    <3>2. CASE o \in A
      BY <1>3, <1>5, <3>2
    <3> QED BY <1>2, <3>1, <3>2
  <2>3. \A b \in B : <<b.side, b.path>> = g
    BY <1>3, TextsApart
  <2> QED BY <1>1, <1>2, <2>1, <2>2, <2>3 DEF Untouched
<1>10. HandedOut'
  <2>1. \A o \in output' : o.status = "available" => o.side \in setup.available /\ Grounded(o, backings')
    <3> SUFFICES ASSUME NEW o \in output', o.status = "available"
                 PROVE  o.side \in setup.available /\ Grounded(o, backings')
      OBVIOUS
    <3>1. CASE o \in output
      BY <1>1, <1>2, <3>1 DEF HandedOut, Grounded
    <3>2. CASE o \in A
      <4>1. Grounded(o, B)
        BY <1>3, <3>2, AnswersGrounded
      <4> QED BY <1>2, <1>3, <1>5, <3>2, <4>1 DEF Grounded
    <3> QED BY <1>2, <3>1, <3>2
  <2>2. Apart(backings')
    <3>1. Apart(B) /\ \A b \in B : b.side = s /\ b.path = path
      BY <1>3, TextsApart
    <3>2. Apart(backings)
      BY <1>1 DEF HandedOut
    <3>3. \A b \in backings : ~ (b.side = s /\ b.path = path)
      BY <1>1, <1>3 DEF Untouched
    <3> QED BY <1>2, <3>1, <3>2, <3>3 DEF Apart
  <2> QED BY <1>1, <2>1, <2>2 DEF HandedOut
<1> QED BY <1>7, <1>8, <1>9, <1>10 DEF MaterialInv

(* The extraction keeps the invariant, as it closes the set.                *)
LEMMA ExtractKeeps == MaterialInv /\ Extract => MaterialInv'
<1> SUFFICES ASSUME MaterialInv, Extract
             PROVE  MaterialInv'
  OBVIOUS
<1>1. phase = "materialize" /\ phase' = "open" /\ UNCHANGED <<setup, output, backings>>
  BY DEF Extract
<1>2. output = {} /\ backings = {}
  BY <1>1 DEF MaterialInv, NothingYet, Ends
<1>3. ClosedSet(candidates)'
  BY ExtractCloses DEF ClosedSet
<1> QED BY <1>1, <1>2, <1>3 DEF MaterialInv, NothingYet, Ends, Judged, Untouched, HandedOut, Apart

(* Entering the read scopes hands nothing out.                              *)
LEMMA OpenScopesKeeps == MaterialInv /\ OpenScopes => MaterialInv'
<1> SUFFICES ASSUME MaterialInv, OpenScopes
             PROVE  MaterialInv'
  OBVIOUS
<1> DEFINE R == UNION {RangesOf(s) : s \in SidesOf \ setup.available}
<1>1. /\ phase = "open" /\ UNCHANGED <<setup, candidates, backings>>
      /\ output' = {Snippet(c, "source_unavailable", Absent) : c \in R}
      /\ phase' = "failed" \/ (phase' = "read" /\ pending' = Groups)
  <2> DEFINE drift == Groups # {} /\ Drifted({g[1] : g \in Groups})
  <2>1. /\ phase = "open" /\ UNCHANGED <<setup, candidates, backings>>
        /\ output' = {Snippet(c, "source_unavailable", Absent) : c \in R}
        /\ IF drift THEN phase' = "failed" /\ UNCHANGED pending ELSE phase' = "read" /\ pending' = Groups
    BY DEF OpenScopes
  <2> HIDE DEF drift, R
  <2> QED BY <2>1
<1>2. backings = {} /\ ClosedSet(candidates)
  BY <1>1 DEF MaterialInv, NothingYet, Ends
<1>3. \A c \in R : c \in candidates /\ c.item[1] = "range" /\ c.side \notin setup.available
  BY DEF RangesOf
<1>4. \A c \in candidates : c.item[1] = "range" /\ c.side \notin setup.available => c \in R
  BY <1>2 DEF RangesOf, ClosedSet
<1> HIDE DEF R
<1>5. \A o \in output' : o.side \notin setup.available /\ o.status = "source_unavailable"
  BY <1>1, <1>3 DEF Snippet
<1>6. ASSUME NEW c \in R
      PROVE  \E o \in output' : {p \in output' : p.side = c.side /\ p.item = c.item} = {o}
  <2> PICK o : o = Snippet(c, "source_unavailable", Absent)
    OBVIOUS
  <2>1. o \in output' /\ o.side = c.side /\ o.item = c.item
    BY <1>1 DEF Snippet
  <2>2. \A p \in output' : p.side = c.side /\ p.item = c.item => p = o
    BY <1>1 DEF Snippet
  <2> QED BY <2>1, <2>2
<1>7. \A c \in candidates : c.item[1] = "range" /\ c.side \in setup.available => <<c.side, c.item[2]>> \in Groups
  BY DEF Groups, RangesOf
<1>8. Judged'
  BY <1>1, <1>4, <1>6, <1>7 DEF Judged, One, ToRead
<1>9. Untouched'
  <2>1. Groups' = Groups
    BY <1>1 DEF Groups, RangesOf
  <2> QED BY <1>1, <1>2, <1>5, <2>1 DEF Untouched, ToRead
<1>10. HandedOut'
  BY <1>1, <1>2, <1>5 DEF HandedOut, Apart
<1> QED BY <1>1, <1>2, <1>8, <1>9, <1>10 DEF MaterialInv, NothingYet, Ends, ClosedSet

(* Leaving them changes no answer.                                          *)
LEMMA CloseScopesKeeps == MaterialInv /\ CloseScopes => MaterialInv'
<1> SUFFICES ASSUME MaterialInv, CloseScopes
             PROVE  MaterialInv'
  OBVIOUS
<1>1. /\ phase = "read" /\ pending = {} /\ phase' \in {"failed", "done"}
      /\ UNCHANGED <<setup, candidates, pending, output, backings>>
  BY DEF CloseScopes
<1>2. \A c \in candidates : c.item[1] = "range" => One(c)
  BY <1>1 DEF MaterialInv, Judged, ToRead
<1>3. Judged'
  BY <1>1, <1>2 DEF Judged, One
<1> QED BY <1>1, <1>3 DEF MaterialInv, NothingYet, Ends, Untouched, HandedOut, ClosedSet

(* A failed reading withdraws every text of an available side.              *)
LEMMA WithdrawKeeps == MaterialInv /\ Withdraw => MaterialInv'
<1> SUFFICES ASSUME MaterialInv, Withdraw
             PROVE  MaterialInv'
  OBVIOUS
<1> PICK R : R = UNION {RangesOf(s) : s \in setup.available}
  OBVIOUS
<1>1. /\ phase = "failed" /\ phase' = "done" /\ backings' = {} /\ UNCHANGED <<setup, candidates>>
      /\ output' = {o \in output : o.side \notin setup.available}
                     \union {Snippet(c, "consistency_failure", Absent) : c \in R}
  BY DEF Withdraw
<1>2. \A c \in R : c \in candidates /\ c.item[1] = "range" /\ c.side \in setup.available
  BY DEF RangesOf
<1>3. \A c \in candidates : c.item[1] = "range" /\ c.side \in setup.available => c \in R
  BY DEF RangesOf
<1>4. ASSUME NEW c \in candidates, c.item[1] = "range"
      PROVE  \E o \in output' : {p \in output' : p.side = c.side /\ p.item = c.item} = {o}
  <2>1. CASE c.side \in setup.available
    <3> PICK o : o = Snippet(c, "consistency_failure", Absent)
      OBVIOUS
    <3>1. o \in output' /\ o.side = c.side /\ o.item = c.item
      BY <1>1, <1>3, <1>4, <2>1 DEF Snippet
    <3>2. \A p \in output' : p.side = c.side /\ p.item = c.item => p = o
      BY <1>1, <2>1 DEF Snippet
    <3> QED BY <3>1, <3>2
  <2>2. CASE c.side \notin setup.available
    <3>1. One(c)
      BY <1>1, <1>4, <2>2 DEF MaterialInv, Judged
    <3>2. \A p \in {Snippet(d, "consistency_failure", Absent) : d \in R} : p.side \in setup.available
      BY <1>2 DEF Snippet
    <3>3. {p \in output' : p.side = c.side /\ p.item = c.item} = {p \in output : p.side = c.side /\ p.item = c.item}
      BY <1>1, <2>2, <3>2
    <3> QED BY <3>1, <3>3 DEF One
  <2> QED BY <2>1, <2>2
<1>5. Judged'
  BY <1>1, <1>4 DEF Judged, One
<1>6. HandedOut'
  <2>1. \A o \in output' : o.status # "available"
    <3>1. \A o \in output : o.side \notin setup.available => o.status # "available"
      BY DEF MaterialInv, HandedOut
    <3> QED BY <1>1, <3>1 DEF Snippet
  <2> QED BY <1>1, <2>1 DEF HandedOut, Apart
<1> QED BY <1>1, <1>5, <1>6 DEF MaterialInv, NothingYet, Ends, Untouched, ClosedSet

(* The stages before, and edits of the workspace.                           *)
LEMMA BeforeKeeps ==
  ASSUME MaterialInv, UNCHANGED <<setup, candidates, pending, output, backings>>,
         phase' = phase \/ (phase \notin Ends \union {"open"} /\ phase' \notin Ends \union {"open"})
  PROVE  MaterialInv'
<1>1. Groups' = Groups
  BY DEF Groups, RangesOf
<1> QED BY <1>1 DEF MaterialInv, NothingYet, Ends, ClosedSet, Judged, One, Untouched, ToRead, HandedOut

(* The inductive invariant of the materialization: at every point of it the *)
(* ranges that were read, and those of a side without a session, have one   *)
(* answer each, those that were not have none, and every text that an       *)
(* answer names is there, unedited and apart from the others.               *)
THEOREM MaterialInductive == Spec => []MaterialInv
<1>1. Init => MaterialInv
  BY DEF Init, ExpansionInit, MaterialInv, NothingYet, Ends, ClosedSet, Judged, Untouched, HandedOut, Apart
<1>2. MaterialInv /\ [Next]_vars => MaterialInv'
  <2> SUFFICES ASSUME MaterialInv, [Next]_vars
               PROVE  MaterialInv'
    OBVIOUS
  <2>1. CASE Pipeline
    <3>1. UNCHANGED <<setup, candidates, pending, output, backings>>
      BY <2>1 DEF Pipeline, Map, Retrieve, Abort, Expand, BeginSide, LeaveOut, SkipJob, DisabledTrace, FailJob,
                  StartWalk, Walk, FinishWalk, RunTrace, SideDone
    <3>2. phase' = phase \/ (phase \notin Ends \union {"open"} /\ phase' \notin Ends \union {"open"})
      <4>1. CASE Map \/ Retrieve \/ Abort
        BY <4>1 DEF Map, Retrieve, Abort, Ends
      <4>2. CASE BeginSide
        BY <4>2 DEF BeginSide, Ends
      <4>3. CASE LeaveOut \/ SideDone
        BY <4>3 DEF LeaveOut, SideDone, NextSide, Ends
      <4>4. CASE SkipJob \/ DisabledTrace \/ FailJob \/ StartWalk \/ Walk \/ FinishWalk \/ RunTrace
        <5>1. phase' = phase
          BY <4>4 DEF SkipJob, DisabledTrace, FailJob, StartWalk, Walk, FinishWalk, RunTrace
        <5> QED BY <5>1
      <4> QED BY <2>1, <4>1, <4>2, <4>3, <4>4 DEF Pipeline, Expand
    <3> QED BY <3>1, <3>2, BeforeKeeps
  <2>2. CASE Materialize
    BY <2>2, ExtractKeeps, OpenScopesKeeps, ReadKeeps, CloseScopesKeeps, WithdrawKeeps DEF Materialize
  <2>3. CASE Surroundings
    <3>1. UNCHANGED <<setup, candidates, pending, output, backings>> /\ phase' = phase
      BY <2>3 DEF Surroundings, Edit
    <3>2. phase' = phase \/ (phase \notin Ends \union {"open"} /\ phase' \notin Ends \union {"open"})
      BY <3>1
    <3> QED BY <3>1, <3>2, BeforeKeeps
  <2>4. CASE UNCHANGED vars
    <3>1. UNCHANGED <<setup, candidates, pending, output, backings>> /\ phase' = phase
      BY <2>4 DEF vars
    <3>2. phase' = phase \/ (phase \notin Ends \union {"open"} /\ phase' \notin Ends \union {"open"})
      BY <3>1
    <3> QED BY <3>1, <3>2, BeforeKeeps
  <2> QED BY <2>1, <2>2, <2>3, <2>4 DEF Next
<1> QED BY <1>1, <1>2, PTL DEF Spec

(* For every snapshot, change and sequence of edits: the context that is     *)
(* handed out is closed, each of its ranges has exactly one verdict, and no *)
(* text in it comes from a file that was edited when it was read.           *)
THEOREM ContextAlwaysSound == Spec => []ContextIsSound
<1>1. MaterialInv => ContextIsSound
  <2> SUFFICES ASSUME MaterialInv, phase = "done"
               PROVE  ContextIsSound
    BY DEF ContextIsSound
  <2>1. \A c \in candidates :
          LET items == {d.item : d \in {x \in candidates : x.side = c.side}}
          IN  /\ c.deps \union c.ranges \subseteq items
              /\ c.item \notin c.deps
              /\ c.item[1] \in Relations => {Identity(c.item[2]), Identity(c.item[3])} \subseteq c.deps
    BY DEF MaterialInv, ClosedSet
  <2>2. \A c \in candidates : c.item[1] = "range" =>
          Cardinality({o \in output : o.side = c.side /\ o.item = c.item}) = 1
    <3> SUFFICES ASSUME NEW c \in candidates, c.item[1] = "range"
                 PROVE  Cardinality({o \in output : o.side = c.side /\ o.item = c.item}) = 1
      OBVIOUS
    <3>1. PICK o \in output : {p \in output : p.side = c.side /\ p.item = c.item} = {o}
      BY DEF MaterialInv, Judged, One
    <3> QED BY <3>1, FS_Singleton
  <2>3. \A o \in output : o.status = "available" => Grounded(o, backings)
    BY DEF MaterialInv, HandedOut
  <2>4. Apart(backings)
    BY DEF MaterialInv, HandedOut
  <2> QED BY <2>1, <2>2, <2>3, <2>4 DEF ContextIsSound, Grounded, Apart
<1> QED BY <1>1, MaterialInductive, PTL


-----------------------------------------------------------------------------
(* What can be reached, level by level.                                     *)
LEMMA PolicyDepth ==
  ASSUME Types
  PROVE  policy.maxDepth \in Nat /\ policy.direction \in Directions /\ policy.relations \subseteq Relations
BY PolicyAssumption DEF Types, policy

LEMMA ReachedIs ==
  ASSUME Types, NEW m, m = policy.maxDepth, NEW k, k \in {Knowledge[s] : s \in SidesOf}, NEW start
  PROVE  /\ m \in Nat
         /\ Reached(policy, k, start) \in [0..m -> SUBSET k.nodes]
         /\ Reached(policy, k, start)[0] = start \intersect k.nodes
         /\ \A d \in 1..m : Reached(policy, k, start)[d] = Reached(policy, k, start)[d - 1]
                                \union UNION {Neighbours(policy, k, n) : n \in Reached(policy, k, start)[d - 1]}
<1>1. m \in Nat
  BY PolicyDepth
<1>2. PICK s \in SidesOf : k = Knowledge[s]
  OBVIOUS
<1>3. PICK Q : Q = SUBSET k.nodes
  OBVIOUS
<1>4. PICK base \in Q : base = start \intersect k.nodes
  BY <1>3
<1> DEFINE Wider(S) == S \union UNION {Neighbours(policy, k, n) : n \in S}
<1>5. \A n : Neighbours(policy, k, n) \subseteq k.nodes
  <2>1. \A e \in k.edges : e.source \in k.nodes /\ e.target \in k.nodes
    BY <1>2, KnowledgeAssumption DEF SidesOf, Closed
  <2> QED BY <2>1 DEF Neighbours
<1>6. \A S \in Q : Wider(S) \in Q
  BY <1>3, <1>5
<1>7. PICK step \in [Q \X (1..m) -> Q] : step = [x \in Q \X (1..m) |-> Wider(x[1])]
  BY <1>6
<1>8. \E f \in [0..m -> Q] : Unfolds(f, m, base, step)
  BY <1>1, Recursion
<1>9. PICK f \in [0..m -> Q] : f[0] = base /\ \A i \in 1..m : f[i] = Wider(f[i - 1])
  <2>1. PICK f \in [0..m -> Q] : Unfolds(f, m, base, step)
    BY <1>8
  <2>2. ASSUME NEW i \in 1..m
        PROVE  f[i] = Wider(f[i - 1])
    <3>1. i - 1 \in 0..m
      BY <1>1
    <3>2. f[i] = step[<<f[i - 1], i>>] /\ f[i - 1] \in Q
      BY <2>1, <3>1 DEF Unfolds
    <3> HIDE DEF Wider
    <3> QED BY <1>7, <3>2
  <2> QED BY <2>1, <2>2 DEF Unfolds
<1> DEFINE Follows(g) ==
      g = [d \in 0..m |-> IF d = 0 THEN start \intersect k.nodes
                          ELSE g[d - 1] \union UNION {Neighbours(policy, k, n) : n \in g[d - 1]}]
<1>10. Follows(f)
  BY <1>4, <1>9
<1>11. Reached(policy, k, start) = CHOOSE g : Follows(g)
  BY <1>1 DEF Reached
<1>12. PICK g : g = Reached(policy, k, start)
  OBVIOUS
<1>13. Follows(g)
  <2> HIDE DEF Follows
  <2> QED BY <1>10, <1>11, <1>12
<1>14. g[0] = base /\ \A d \in 1..m : g[d] = Wider(g[d - 1])
  <2>1. \A d \in 0..m : g[d] = IF d = 0 THEN start \intersect k.nodes ELSE Wider(g[d - 1])
    BY <1>13
  <2>2. \A d \in 1..m : d \in 0..m /\ d # 0
    OBVIOUS
  <2> HIDE DEF Wider
  <2> QED BY <1>1, <1>4, <2>1, <2>2
<1>15. DOMAIN g = 0..m /\ g = [d \in 0..m |-> g[d]]
  BY <1>13
<1>16. 0..m \subseteq {d \in 0..m : g[d] \in Q}
  <2> DEFINE Good == {d \in 0..m : g[d] \in Q}
  <2>1. 0 \in Good
    BY <1>1, <1>14
  <2>2. \A d \in (0 + 1)..m : d - 1 \in Good => d \in Good
    BY <1>6, <1>14
  <2> HIDE DEF Good
  <2>3. 0..m \subseteq Good
    BY <1>1, <2>1, <2>2, Upwards
  <2> QED BY <2>3 DEF Good
<1>17. g \in [0..m -> Q]
  BY <1>15, <1>16
<1> QED BY <1>1, <1>3, <1>4, <1>12, <1>14, <1>17

(* What is reached from a set is reached from one of its members.           *)
LEMMA ReachFromOne ==
  ASSUME Types, NEW s \in SidesOf, NEW start, NEW n \in Reach(Knowledge[s], start)
  PROVE  \E t \in start : n \in Reach(Knowledge[s], {t})
<1>1. PICK m \in Nat : m = policy.maxDepth
  BY PolicyDepth
<1>2. PICK k : k = Knowledge[s] /\ k \in {Knowledge[x] : x \in SidesOf}
  OBVIOUS
<1>3. PICK R : R = Reached(policy, k, start)
  OBVIOUS
<1>4. /\ R[0] = start \intersect k.nodes
      /\ \A d \in 1..m : R[d] = R[d - 1] \union UNION {Neighbours(policy, k, x) : x \in R[d - 1]}
  BY <1>1, <1>2, <1>3, ReachedIs
<1> DEFINE From(t) == Reached(policy, k, {t})
           Good == {d \in 0..m : \A x \in R[d] : \E t \in start : x \in From(t)[d]}
<1>5. \A t : /\ From(t)[0] = {t} \intersect k.nodes
             /\ \A d \in 1..m : From(t)[d] = From(t)[d - 1] \union UNION {Neighbours(policy, k, x) : x \in From(t)[d - 1]}
  <2> SUFFICES ASSUME NEW t
               PROVE  /\ From(t)[0] = {t} \intersect k.nodes
                      /\ \A d \in 1..m : From(t)[d] = From(t)[d - 1]
                                             \union UNION {Neighbours(policy, k, x) : x \in From(t)[d - 1]}
    OBVIOUS
  <2>1. PICK start1 : start1 = {t}
    OBVIOUS
  <2>2. PICK g : g = From(t) /\ g = Reached(policy, k, start1)
    BY <2>1
  <2>3. /\ Reached(policy, k, start1)[0] = start1 \intersect k.nodes
        /\ \A d \in 1..m : Reached(policy, k, start1)[d] = Reached(policy, k, start1)[d - 1]
                               \union UNION {Neighbours(policy, k, x) : x \in Reached(policy, k, start1)[d - 1]}
    BY <1>1, <1>2, ReachedIs
  <2> HIDE DEF From
  <2> QED BY <2>1, <2>2, <2>3
<1> HIDE DEF From
<1>6. 0 \in Good
  BY <1>4, <1>5
<1>7. ASSUME NEW d \in (0 + 1)..m, d - 1 \in Good
      PROVE  d \in Good
  <2>1. d \in 1..m /\ d \in 0..m
    OBVIOUS
  <2> SUFFICES ASSUME NEW x \in R[d]
               PROVE  \E t \in start : x \in From(t)[d]
    BY <2>1
  <2>2. CASE x \in R[d - 1]
    BY <1>5, <1>7, <2>1, <2>2
  <2>3. CASE \E y \in R[d - 1] : x \in Neighbours(policy, k, y)
    BY <1>5, <1>7, <2>1, <2>3
  <2> QED BY <1>4, <2>1, <2>2, <2>3
<1> HIDE DEF Good
<1>8. m \in Good
  BY <1>6, <1>7, Upwards
<1> QED BY <1>1, <1>2, <1>3, <1>8 DEF Good, From, Reach


-----------------------------------------------------------------------------
(* What the plan of a query can hold: calls, notes, and offers of the facts *)
(* about its seed.                                                          *)
AllQueries == [channel : Channels, seed : Nodes]

SomeKnowledge == {Knowledge[s] : s \in SidesOf}

Facts(k, q) ==
  {Retrieval!SymbolFact(k, q.seed), Retrieval!NodeFact(k, q.seed),
   Retrieval!RangeOf("declaration", k.declaration[q.seed], q.seed),
   Retrieval!RangeOf("definition", k.definition[q.seed], q.seed)}
    \union {Retrieval!CallFact(k, e) : e \in {x \in k.edges : x.relation = "call"}}

Remarks == {"symbol_seed_not_resolved", "seed_source_outside_binding_fingerprint",
            "source_range_not_recorded", "graph_seed_not_resolved"}

Events(k, q) ==
  {[op |-> "call"]} \union {[op |-> "offer", fact |-> f] : f \in Facts(k, q)}
    \union {[op |-> o, note |-> n] : o \in {"note", "unresolved"}, n \in Remarks}

(* A fact has a key, and proves the seed of its query or nothing.           *)
LEMMA FactShape ==
  ASSUME NEW k \in SomeKnowledge, NEW q \in AllQueries, NEW f \in Facts(k, q)
  PROVE  /\ f.key \in FactKeys /\ f.identity \in {q.seed, Absent} /\ f.unresolved \in BOOLEAN
         /\ f.key[1] = "call" => \E e \in k.edges : e.relation = "call" /\ f = Retrieval!CallFact(k, e)
                                                 /\ f.key = <<"call", e.source, e.target>>
         /\ f.key[1] # "call" => f \in Facts(k, q) \ {Retrieval!CallFact(k, e) : e \in k.edges}
<1>1. q.seed \in Nodes
  BY DEF AllQueries
<1>2. \A e \in k.edges : e.source \in Nodes /\ e.target \in Nodes
  BY KnowledgeAssumption, EdgesAssumption DEF SomeKnowledge, SidesOf
<1>3. ASSUME NEW e \in k.edges
      PROVE  /\ Retrieval!CallFact(k, e).key = <<"call", e.source, e.target>>
             /\ Retrieval!CallFact(k, e).identity = Absent
             /\ Retrieval!CallFact(k, e).unresolved \in BOOLEAN
  BY DEF Retrieval!CallFact, Retrieval!Fact
<1>4. ASSUME NEW g \in {Retrieval!SymbolFact(k, q.seed), Retrieval!NodeFact(k, q.seed),
                        Retrieval!RangeOf("declaration", k.declaration[q.seed], q.seed),
                        Retrieval!RangeOf("definition", k.definition[q.seed], q.seed)}
      PROVE  /\ g.identity = q.seed /\ g.unresolved \in BOOLEAN /\ g.key[1] # "call"
             /\ g.key \in {<<r, q.seed, q.seed>> : r \in {"symbol", "declaration", "definition", "node"}}
  <2>1. g.identity = q.seed /\ g.unresolved \in BOOLEAN
    <3>1. CASE g = Retrieval!NodeFact(k, q.seed)
      <4>1. PICK b \in BOOLEAN : b = (k.anchors[q.seed] = {})
        OBVIOUS
      <4> QED BY <3>1, <4>1 DEF Retrieval!NodeFact, Retrieval!Fact
    <3>2. CASE g # Retrieval!NodeFact(k, q.seed)
      <4>1. Retrieval!SymbolFact(k, q.seed).identity = q.seed /\ Retrieval!SymbolFact(k, q.seed).unresolved = FALSE
        BY DEF Retrieval!SymbolFact, Retrieval!Fact
      <4>2. \A role, x : Retrieval!RangeOf(role, x, q.seed).identity = q.seed
                         /\ Retrieval!RangeOf(role, x, q.seed).unresolved = FALSE
        BY DEF Retrieval!RangeOf, Retrieval!Fact
      <4> QED BY <1>4, <3>2, <4>1, <4>2
    <3> QED BY <3>1, <3>2
  <2>2. \/ g.key = <<"symbol", q.seed, q.seed>> \/ g.key = <<"node", q.seed, q.seed>>
        \/ g.key = <<"declaration", q.seed, q.seed>> \/ g.key = <<"definition", q.seed, q.seed>>
    BY <1>4 DEF Retrieval!SymbolFact, Retrieval!NodeFact, Retrieval!RangeOf, Retrieval!Fact
  <2> QED BY <2>1, <2>2
<1>5. CASE \E e \in k.edges : e.relation = "call" /\ f = Retrieval!CallFact(k, e)
  <2>1. PICK e \in k.edges : e.relation = "call" /\ f = Retrieval!CallFact(k, e)
    BY <1>5
  <2>2. f.key = <<"call", e.source, e.target>> /\ f.key[1] = "call"
    BY <1>3, <2>1
  <2> QED BY <1>2, <1>3, <2>1, <2>2 DEF FactKeys
<1>6. CASE f \in {Retrieval!SymbolFact(k, q.seed), Retrieval!NodeFact(k, q.seed),
                  Retrieval!RangeOf("declaration", k.declaration[q.seed], q.seed),
                  Retrieval!RangeOf("definition", k.definition[q.seed], q.seed)}
  <2>1. f.identity = q.seed /\ f.unresolved \in BOOLEAN /\ f.key[1] # "call"
    BY <1>4, <1>6
  <2>2. f.key \in FactKeys
    BY <1>1, <1>4, <1>6 DEF FactKeys
  <2>3. \A e \in k.edges : f # Retrieval!CallFact(k, e)
    BY <1>3, <2>1
  <2> QED BY <2>1, <2>2, <2>3
<1> QED BY <1>5, <1>6 DEF Facts

(* Different facts of a query have different keys.                          *)
LEMMA FactsApart ==
  ASSUME NEW k \in SomeKnowledge, NEW q \in AllQueries, NEW f \in Facts(k, q), NEW g \in Facts(k, q),
         f.key = g.key
  PROVE  f = g
<1>1. CASE f.key[1] = "call"
  <2>1. PICK d \in k.edges : d.relation = "call" /\ f = Retrieval!CallFact(k, d)
                             /\ f.key = <<"call", d.source, d.target>>
    BY <1>1, FactShape
  <2>2. PICK e \in k.edges : e.relation = "call" /\ g = Retrieval!CallFact(k, e)
                             /\ g.key = <<"call", e.source, e.target>>
    BY <1>1, FactShape
  <2>3. d \in [source : Nodes, target : Nodes, relation : Relations]
        /\ e \in [source : Nodes, target : Nodes, relation : Relations]
    BY KnowledgeAssumption, EdgesAssumption DEF SomeKnowledge, SidesOf
  <2>4. d.source = e.source /\ d.target = e.target /\ d.relation = e.relation
    BY <2>1, <2>2
  <2>5. d = e
    BY <2>3, <2>4
  <2> QED BY <2>1, <2>2, <2>5
<1>2. CASE f.key[1] # "call"
  <2>1. f \in Facts(k, q) \ {Retrieval!CallFact(k, e) : e \in k.edges}
        /\ g \in Facts(k, q) \ {Retrieval!CallFact(k, e) : e \in k.edges}
    BY <1>2, FactShape
  <2>2. /\ Retrieval!SymbolFact(k, q.seed).key[1] = "symbol" /\ Retrieval!NodeFact(k, q.seed).key[1] = "node"
        /\ Retrieval!RangeOf("declaration", k.declaration[q.seed], q.seed).key[1] = "declaration"
        /\ Retrieval!RangeOf("definition", k.definition[q.seed], q.seed).key[1] = "definition"
    BY DEF Retrieval!SymbolFact, Retrieval!NodeFact, Retrieval!RangeOf, Retrieval!Fact
  <2> QED BY <2>1, <2>2 DEF Facts
<1> QED BY <1>1, <1>2

(* The retrieval counts as everybody does.                                  *)
LEMMA SameCardinality ==
  ASSUME NEW S
  PROVE  Retrieval!Cardinality(S) = Cardinality(S)
BY DEF Retrieval!Cardinality, Cardinality

(* sorted by key: every fact of a finite set, and nothing else.             *)
LEMMA ByKeyIs ==
  ASSUME NEW S, IsFiniteSet(S), \A f \in S : f.key \in FactKeys, \A f, g \in S : f.key = g.key => f = g
  PROVE  /\ Cardinality(S) \in Nat
         /\ Retrieval!ByKey(S) \in [1..Cardinality(S) -> S]
         /\ \A f \in S : \E i \in 1..Cardinality(S) : Retrieval!ByKey(S)[i] = f
<1>1. PICK r : r = [f \in S |-> KeyRank[f.key]]
  OBVIOUS
<1>2. /\ \A f \in S : r[f] = KeyRank[f.key] /\ r[f] \in Nat
      /\ \A f, g \in S : r[f] = r[g] => f = g
  BY <1>1, OrderAssumption
<1>3. /\ \A x \in S : Position(S, r, x) \in 0..(Cardinality(S) - 1)
      /\ \A x, z \in S : Position(S, r, x) = Position(S, r, z) => x = z
      /\ \A i \in 1..Cardinality(S) : \E x \in S : Position(S, r, x) = i - 1
  BY <1>2, Positions
<1>4. \A x \in S : Retrieval!Cardinality({y \in S : KeyRank[y.key] < KeyRank[x.key]}) = Position(S, r, x)
  <2> SUFFICES ASSUME NEW x \in S
               PROVE  Retrieval!Cardinality({y \in S : KeyRank[y.key] < KeyRank[x.key]}) = Position(S, r, x)
    OBVIOUS
  <2>1. {y \in S : KeyRank[y.key] < KeyRank[x.key]} = {y \in S : r[y] < r[x]}
    BY <1>2
  <2> QED BY <2>1, SameCardinality DEF Position
<1>5. PICK n \in Nat : n = Cardinality(S) /\ n = Retrieval!Cardinality(S)
  BY FS_CardinalityType, SameCardinality
<1>6. PICK s : s = Retrieval!ByKey(S)
  OBVIOUS
<1>7. s = [i \in 1..n |-> CHOOSE x \in S : Retrieval!Cardinality({y \in S : KeyRank[y.key] < KeyRank[x.key]}) = i - 1]
  BY <1>5, <1>6 DEF Retrieval!ByKey, Retrieval!Ordered
<1>8. ASSUME NEW i \in 1..n
      PROVE  s[i] \in S /\ Position(S, r, s[i]) = i - 1
  <2>1. \E x \in S : Retrieval!Cardinality({y \in S : KeyRank[y.key] < KeyRank[x.key]}) = i - 1
    BY <1>3, <1>4, <1>5
  <2>2. s[i] = CHOOSE x \in S : Retrieval!Cardinality({y \in S : KeyRank[y.key] < KeyRank[x.key]}) = i - 1
    BY <1>7
  <2>3. s[i] \in S /\ Retrieval!Cardinality({y \in S : KeyRank[y.key] < KeyRank[s[i].key]}) = i - 1
    BY <2>1, <2>2
  <2> QED BY <1>4, <2>3
<1>9. ASSUME NEW f \in S
      PROVE  \E i \in 1..n : s[i] = f
  <2>1. Position(S, r, f) + 1 \in 1..n /\ (Position(S, r, f) + 1) - 1 = Position(S, r, f)
    BY <1>3, <1>5
  <2>2. s[Position(S, r, f) + 1] = f
    BY <1>3, <1>8, <2>1
  <2> QED BY <2>1, <2>2
<1>10. s \in [1..n -> S]
  BY <1>7, <1>8
<1> QED BY <1>5, <1>6, <1>9, <1>10


(* The facts of calls are finitely many.                                    *)
LEMMA FiniteCalls ==
  ASSUME NEW k \in SomeKnowledge, NEW calls \in SUBSET k.edges
  PROVE  IsFiniteSet({Retrieval!CallFact(k, e) : e \in calls})
<1> DEFINE T == {Retrieval!CallFact(k, e) : e \in calls}
           f == [e \in calls |-> Retrieval!CallFact(k, e)]
<1>1. IsFiniteSet(calls)
  <2>1. calls \subseteq Edges
    BY KnowledgeAssumption DEF SomeKnowledge, SidesOf
  <2> QED BY <2>1, EdgesAssumption, FS_Subset
<1>2. f \in Surjection(calls, T)
  BY DEF Surjection
<1> HIDE DEF f, T
<1>3. IsFiniteSet(T)
  BY <1>1, <1>2, FS_Surjection
<1> QED BY <1>3 DEF T

(* Every channel goes through calls, notes and offers of facts of its query.*)
LEMMA PlanType ==
  ASSUME NEW k \in SomeKnowledge, NEW q \in AllQueries
  PROVE  Retrieval!Plan(k, q) \in Seq(Events(k, q))
<1> DEFINE E == Events(k, q)
           s == q.seed
           call == <<[op |-> "call"]>>
           offer(f) == <<[op |-> "offer", fact |-> f]>>
           note(n) == <<[op |-> "note", note |-> n]>>
           stop(n) == <<[op |-> "unresolved", note |-> n]>>
           calls == {e \in k.edges : e.relation = "call"
                       /\ (IF q.channel = "callers" THEN e.target ELSE e.source) = s}
           F == {Retrieval!CallFact(k, e) : e \in calls}
<1>1. call \in Seq(E)
  BY DEF Events
<1> \A x \in E : <<x>> \in Seq(E)
  <2> HIDE DEF E
  <2> QED OBVIOUS
<1>2. \A f \in Facts(k, q) : offer(f) \in Seq(E)
  <2> SUFFICES ASSUME NEW f \in Facts(k, q)
               PROVE  offer(f) \in Seq(E)
    OBVIOUS
  <2>1. PICK x : x = [op |-> "offer", fact |-> f]
    OBVIOUS
  <2>2. x \in {[op |-> "offer", fact |-> g] : g \in Facts(k, q)}
    BY <2>1
  <2>3. x \in E
    BY <2>2 DEF Events
  <2> HIDE DEF E
  <2> QED BY <2>1, <2>3
<1>3. \A n \in Remarks : note(n) \in Seq(E) /\ stop(n) \in Seq(E)
  <2> SUFFICES ASSUME NEW n \in Remarks
               PROVE  note(n) \in Seq(E) /\ stop(n) \in Seq(E)
    OBVIOUS
  <2>1. PICK x, y : x = [op |-> "note", note |-> n] /\ y = [op |-> "unresolved", note |-> n]
    OBVIOUS
  <2>2. {x, y} \subseteq {[op |-> o, note |-> m] : o \in {"note", "unresolved"}, m \in Remarks}
    BY <2>1
  <2>3. x \in E /\ y \in E
    BY <2>2 DEF Events
  <2> HIDE DEF E
  <2> QED BY <2>1, <2>3
<1>4. F \subseteq Facts(k, q)
  BY DEF Facts
<1>5. Retrieval!Offers(F) \in Seq(E)
  <2>1. IsFiniteSet(F)
    BY FiniteCalls
  <2>2. /\ \A f \in F : f.key \in FactKeys
        /\ \A f, g \in F : f.key = g.key => f = g
    BY <1>4, FactShape, FactsApart
  <2>3. PICK S : S = F
    OBVIOUS
  <2>4. PICK b, n : b = Retrieval!ByKey(S) /\ n = Cardinality(S) /\ n \in Nat /\ b \in [1..n -> S]
    <3> HIDE DEF F
    <3> QED BY <2>1, <2>2, <2>3, ByKeyIs
  <2>5. Retrieval!Offers(F) = [i \in 1..n |-> [op |-> "offer", fact |-> b[i]]]
    <3> HIDE DEF F
    <3>1. DOMAIN b = 1..n
      BY <2>4
    <3> QED BY <2>3, <2>4, <3>1 DEF Retrieval!Offers
  <2>6. \A i \in 1..n : [op |-> "offer", fact |-> b[i]] \in E
    <3>1. \A i \in 1..n : b[i] \in Facts(k, q)
      BY <1>4, <2>3, <2>4
    <3> QED BY <3>1 DEF Events
  <2> HIDE DEF E
  <2> QED BY <2>4, <2>5, <2>6
<1>6. PICK seed \in Seq(E) : seed = IF Retrieval!SeedOf(k, q) = {} THEN call \o stop("symbol_seed_not_resolved")
                  ELSE IF Retrieval!SymbolFiles(k, s) \subseteq k.hashed THEN call
                  ELSE call \o note("seed_source_outside_binding_fingerprint") \o stop("symbol_seed_not_resolved")
  <2>1. PICK a, b, c : /\ a = call /\ b = stop("symbol_seed_not_resolved")
                       /\ c = note("seed_source_outside_binding_fingerprint")
                       /\ a \in Seq(E) /\ b \in Seq(E) /\ c \in Seq(E)
    <3>1. call \in Seq(E) /\ stop("symbol_seed_not_resolved") \in Seq(E)
      <4> HIDE DEF call, stop, note, E
      <4> QED BY <1>1, <1>3 DEF Remarks
    <3>2. note("seed_source_outside_binding_fingerprint") \in Seq(E)
      <4> HIDE DEF call, stop, note, E
      <4> QED BY <1>3 DEF Remarks
    <3> HIDE DEF call, stop, note, E
    <3> QED BY <3>1, <3>2
  <2>2. a \o b \in Seq(E) /\ a \o c \o b \in Seq(E)
    <3> HIDE DEF E
    <3> QED BY <2>1
  <2> HIDE DEF call, stop, note, E
  <2> QED BY <2>1, <2>2
<1> DEFINE extent == IF q.channel = "declaration" THEN k.declaration[s] ELSE k.definition[s]
           one == Retrieval!RangeOf(q.channel, extent, s)
           body == CASE q.channel = "symbol" -> offer(Retrieval!SymbolFact(k, s))
                [] q.channel \in {"declaration", "definition"} ->
                     call \o (IF extent = Absent THEN note("source_range_not_recorded") ELSE offer(one))
                [] q.channel \in {"callers", "callees"} -> call \o Retrieval!Offers(F)
                [] q.channel = "graph_node" ->
                     call \o (IF s \in k.nodes THEN offer(Retrieval!NodeFact(k, s)) ELSE note("graph_seed_not_resolved"))
<1>7. Retrieval!Plan(k, q) = seed \o body
  BY <1>6 DEF Retrieval!Plan, Retrieval!Call, Retrieval!Offer, Retrieval!Note, Retrieval!Stop
<1>8. body \in Seq(E)
  <2>1. q.channel \in {"symbol", "declaration", "definition", "callers", "callees", "graph_node"}
    BY RequestAssumption DEF AllQueries
  <2>2. /\ call \in Seq(E)
        /\ offer(Retrieval!SymbolFact(k, s)) \in Seq(E)
        /\ offer(Retrieval!NodeFact(k, s)) \in Seq(E)
        /\ note("source_range_not_recorded") \in Seq(E)
        /\ note("graph_seed_not_resolved") \in Seq(E)
    <3>1. Retrieval!SymbolFact(k, s) \in Facts(k, q) /\ Retrieval!NodeFact(k, s) \in Facts(k, q)
      BY DEF Facts
    <3>2. note("source_range_not_recorded") \in Seq(E)
      <4> HIDE DEF E, offer, note, call
      <4> QED BY <1>3 DEF Remarks
    <3>3. note("graph_seed_not_resolved") \in Seq(E)
      <4> HIDE DEF E, offer, note, call
      <4> QED BY <1>3 DEF Remarks
    <3> HIDE DEF E, offer, note, call
    <3> QED BY <1>1, <1>2, <3>1, <3>2, <3>3
  <2>3. PICK o \in Seq(E) : o = Retrieval!Offers(F)
    BY <1>5
  <2>4. \A x, y \in Seq(E) : x \o y \in Seq(E)
    <3> HIDE DEF E
    <3> QED OBVIOUS
  <2>5. CASE q.channel = "symbol"
    <3> HIDE DEF E, offer, note, call, F, extent, one, calls
    <3> QED BY <2>2, <2>5
  <2>6. CASE q.channel \in {"declaration", "definition"}
    <3>1. PICK g \in Seq(E) : g = offer(one)
      <4>1. one \in Facts(k, q)
        BY <2>6 DEF Facts
      <4> HIDE DEF E, offer, one
      <4> QED BY <1>2, <4>1
    <3> HIDE DEF E, offer, note, call, F, extent, one, calls
    <3> QED BY <2>2, <2>4, <2>6, <3>1
  <2>7. CASE q.channel \in {"callers", "callees"}
    <3> HIDE DEF E, offer, note, call, F, extent, one, calls
    <3> QED BY <2>2, <2>3, <2>4, <2>7
  <2>8. CASE q.channel = "graph_node"
    <3> HIDE DEF E, offer, note, call, F, extent, one, calls
    <3> QED BY <2>2, <2>4, <2>8
  <2> QED BY <2>1, <2>5, <2>6, <2>7, <2>8
<1> HIDE DEF body, E
<1>9. seed \o body \in Seq(E)
  BY <1>6, <1>8
<1> QED BY <1>7, <1>9 DEF E


(* What a query has collected so far; once it has ended, it says why.       *)
RunNotes == Remarks \union {"channel_call_limit", "fact_has_unresolved_endpoint", "record_inspection_limit",
                            "source_outside_binding_fingerprint", "query_result_limit"}

Short(r) == r.truncated \/ r.unresolved \/ r.failed

RunStates(k, q) ==
  {r \in [query : {q}, used : Nat, observed : Nat, facts : SUBSET Facts(k, q), notes : SUBSET RunNotes,
          truncated : BOOLEAN, unresolved : BOOLEAN, ended : BOOLEAN, failed : BOOLEAN] : r.ended => Short(r)}

LEMMA LimitIs ==
  ASSUME NEW k, NEW q, NEW r \in RunStates(k, q), NEW n \in RunNotes
  PROVE  Retrieval!Limit(r, n) \in RunStates(k, q) /\ Short(Retrieval!Limit(r, n))
BY DEF RunStates, Short, Retrieval!Limit

LEMMA DoubtIs ==
  ASSUME NEW k, NEW q, NEW r \in RunStates(k, q), NEW n \in RunNotes
  PROVE  /\ Retrieval!Doubt(r, n) \in RunStates(k, q) /\ Short(Retrieval!Doubt(r, n))
         /\ [Retrieval!Doubt(r, n) EXCEPT !.ended = TRUE] \in RunStates(k, q)
         /\ Short([Retrieval!Doubt(r, n) EXCEPT !.ended = TRUE])
BY DEF RunStates, Short, Retrieval!Doubt

LEMMA CalledIs ==
  ASSUME NEW k, NEW q, NEW r \in RunStates(k, q)
  PROVE  /\ Retrieval!Called(r) \in RunStates(k, q)
         /\ Retrieval!Called(r).facts = r.facts \/ Short(Retrieval!Called(r))
         /\ Short(r) => Short(Retrieval!Called(r))
<1>1. "channel_call_limit" \in RunNotes
  BY DEF RunNotes
<1>2. CASE r.used >= setup.limits.calls
  BY <1>1, <1>2, LimitIs DEF Retrieval!Called
<1>3. CASE ~ r.used >= setup.limits.calls
  <2>1. PICK more : more = [r EXCEPT !.used = @ + 1]
    OBVIOUS
  <2>2. more \in RunStates(k, q) /\ more.facts = r.facts /\ (Short(r) => Short(more))
    BY <2>1 DEF RunStates, Short
  <2>3. PICK lost : lost = [r EXCEPT !.used = @ + 1, !.failed = TRUE, !.ended = TRUE]
    OBVIOUS
  <2>4. lost \in RunStates(k, q) /\ Short(lost)
    <3>1. lost = [more EXCEPT !.failed = TRUE, !.ended = TRUE]
      BY <2>1, <2>3 DEF RunStates
    <3> QED BY <2>2, <3>1 DEF RunStates, Short
  <2>5. Retrieval!Called(r) \in {more, lost}
    BY <1>3, <2>1, <2>3 DEF Retrieval!Called
  <2> QED BY <2>2, <2>4, <2>5
<1> QED BY <1>2, <1>3

LEMMA OfferedIs ==
  ASSUME NEW k, NEW q, NEW r \in RunStates(k, q), NEW f \in Facts(k, q)
  PROVE  /\ Retrieval!Offered(k, r, f) \in RunStates(k, q)
         /\ Short(Retrieval!Offered(k, r, f)) \/ Retrieval!Offered(k, r, f).facts = r.facts \union {f}
         /\ Short(r) => Short(Retrieval!Offered(k, r, f))
<1>1. {"fact_has_unresolved_endpoint", "record_inspection_limit",
       "source_outside_binding_fingerprint", "query_result_limit"} \subseteq RunNotes
  BY DEF RunNotes
<1>2. PICK s : /\ s = [r EXCEPT !.observed = @ + 1] /\ s \in RunStates(k, q)
               /\ s.facts = r.facts /\ (Short(r) => Short(s))
  <2>1. PICK s : s = [r EXCEPT !.observed = @ + 1]
    OBVIOUS
  <2>2. s \in RunStates(k, q) /\ s.facts = r.facts /\ (Short(r) => Short(s))
    BY <2>1 DEF RunStates, Short
  <2> QED BY <2>1, <2>2
<1>3. PICK d \in RunStates(k, q) : /\ d = IF f.unresolved THEN Retrieval!Doubt(s, "fact_has_unresolved_endpoint") ELSE s
                                  /\ d.facts = r.facts /\ (Short(r) => Short(d))
  <2>1. Retrieval!Doubt(s, "fact_has_unresolved_endpoint") \in RunStates(k, q)
        /\ Short(Retrieval!Doubt(s, "fact_has_unresolved_endpoint"))
    <3>1. "fact_has_unresolved_endpoint" \in RunNotes
      BY DEF RunNotes
    <3> QED BY <1>2, <3>1, DoubtIs
  <2>2. Retrieval!Doubt(s, "fact_has_unresolved_endpoint").facts = s.facts
    BY DEF Retrieval!Doubt, RunStates
  <2> QED BY <1>2, <2>1, <2>2
<1>4. PICK o : o = Retrieval!Offered(k, r, f)
  OBVIOUS
<1>5. o \in {Retrieval!Limit(s, "record_inspection_limit"),
            Retrieval!Doubt(s, "source_outside_binding_fingerprint"),
            Retrieval!Limit(s, "query_result_limit"), [d EXCEPT !.facts = @ \union {f}]}
  BY <1>2, <1>3, <1>4 DEF Retrieval!Offered
<1>6. PICK a, b, c : /\ a = Retrieval!Limit(s, "record_inspection_limit")
                     /\ b = Retrieval!Doubt(s, "source_outside_binding_fingerprint")
                     /\ c = Retrieval!Limit(s, "query_result_limit")
                     /\ {a, b, c} \subseteq RunStates(k, q) /\ Short(a) /\ Short(b) /\ Short(c)
  <2>1. PICK a : /\ a = Retrieval!Limit(s, "record_inspection_limit") /\ a \in RunStates(k, q) /\ Short(a)
    BY <1>1, <1>2, LimitIs
  <2>2. PICK b : /\ b = Retrieval!Doubt(s, "source_outside_binding_fingerprint")
                 /\ b \in RunStates(k, q) /\ Short(b)
    BY <1>1, <1>2, DoubtIs
  <2>3. PICK c : /\ c = Retrieval!Limit(s, "query_result_limit") /\ c \in RunStates(k, q) /\ Short(c)
    BY <1>1, <1>2, LimitIs
  <2> QED BY <2>1, <2>2, <2>3
<1>7. PICK e : /\ e = [d EXCEPT !.facts = @ \union {f}] /\ e \in RunStates(k, q)
               /\ e.facts = r.facts \union {f} /\ (Short(r) => Short(e))
  <2>1. PICK e : e = [d EXCEPT !.facts = @ \union {f}]
    OBVIOUS
  <2>2. e \in RunStates(k, q) /\ e.facts = r.facts \union {f} /\ (Short(r) => Short(e))
    BY <1>3, <2>1 DEF RunStates, Short
  <2> QED BY <2>1, <2>2
<1>8. o \in {a, b, c} \/ o = e
  BY <1>5, <1>6, <1>7
<1> QED BY <1>4, <1>6, <1>7, <1>8

LEMMA EventIs ==
  ASSUME NEW k, NEW q, NEW r \in RunStates(k, q), NEW e \in Events(k, q)
  PROVE  LET after == Retrieval!OnEvent(k, r, e)
         IN  /\ after \in RunStates(k, q)
             /\ Short(after) \/ (r.facts \subseteq after.facts /\ (e.op = "offer" => e.fact \in after.facts))
             /\ Short(r) => Short(after)
<1>1. PICK after : after = Retrieval!OnEvent(k, r, e)
  OBVIOUS
<1>2. CASE r.ended
  <2>1. after = r
    BY <1>1, <1>2 DEF Retrieval!OnEvent
  <2>2. Short(r)
    BY <1>2 DEF RunStates
  <2> QED BY <1>1, <2>1, <2>2
<1>3. CASE ~r.ended /\ e = [op |-> "call"]
  <2>1. after = Retrieval!Called(r) /\ e.op # "offer"
    BY <1>1, <1>3 DEF Retrieval!OnEvent
  <2> QED BY <1>1, <2>1, CalledIs
<1>4. CASE ~r.ended /\ \E f \in Facts(k, q) : e = [op |-> "offer", fact |-> f]
  <2>1. PICK f \in Facts(k, q) : e.op = "offer" /\ e.fact = f
    BY <1>4
  <2>2. after = Retrieval!Offered(k, r, f)
    BY <1>1, <1>4, <2>1 DEF Retrieval!OnEvent
  <2> QED BY <1>1, <2>1, <2>2, OfferedIs
<1>5. CASE ~r.ended /\ \E n \in Remarks : \E o \in {"note", "unresolved"} : e = [op |-> o, note |-> n]
  <2>1. PICK n \in Remarks : \E o \in {"note", "unresolved"} : e = [op |-> o, note |-> n]
    BY <1>5
  <2>2. e.note = n /\ n \in RunNotes /\ e.op \in {"note", "unresolved"}
    BY <2>1 DEF RunNotes
  <2>3. after \in {Retrieval!Doubt(r, n), [Retrieval!Doubt(r, n) EXCEPT !.ended = TRUE]}
    BY <1>1, <1>5, <2>2 DEF Retrieval!OnEvent
  <2>4. after \in RunStates(k, q) /\ Short(after)
    <3>1. n \in RunNotes
      BY <2>2
    <3>2. /\ Retrieval!Doubt(r, n) \in RunStates(k, q) /\ Short(Retrieval!Doubt(r, n))
          /\ [Retrieval!Doubt(r, n) EXCEPT !.ended = TRUE] \in RunStates(k, q)
          /\ Short([Retrieval!Doubt(r, n) EXCEPT !.ended = TRUE])
      BY <3>1, DoubtIs
    <3> QED BY <2>3, <3>2
  <2> QED BY <1>1, <2>4
<1> QED BY <1>2, <1>3, <1>4, <1>5 DEF Events

(* What a query has found when it is over: everything its plan offers, or   *)
(* it says that it is short of something.                                   *)
LEMMA ExecuteIs ==
  ASSUME NEW k \in SomeKnowledge, NEW q \in AllQueries, NEW used \in Nat
  PROVE  /\ Retrieval!Execute(k, q, used) \in RunStates(k, q)
         /\ Short(Retrieval!Execute(k, q, used)) \/ FoundBy(k, q) \subseteq Retrieval!Execute(k, q, used).facts
<1>1. PICK plan \in Seq(Events(k, q)) : plan = Retrieval!Plan(k, q)
  BY PlanType
<1>2. PICK n \in Nat : n = Len(plan)
  OBVIOUS
<1>3. \A i \in 1..n : plan[i] \in Events(k, q)
  BY <1>2
<1>4. PICK Q : Q = RunStates(k, q)
  OBVIOUS
<1>5. PICK base \in Q : base = Retrieval!Fresh(q, used)
  BY <1>4 DEF Retrieval!Fresh, RunStates, Short
<1> DEFINE After(r, i) == Retrieval!OnEvent(k, r, plan[i])
<1>6. \A r \in Q : \A i \in 1..n : After(r, i) \in Q
  BY <1>3, <1>4, EventIs
<1>7. PICK step \in [Q \X (1..n) -> Q] : step = [x \in Q \X (1..n) |-> After(x[1], x[2])]
  BY <1>6
<1>8. PICK f \in [0..n -> Q] : f[0] = base /\ \A i \in 1..n : f[i] = After(f[i - 1], i)
  <2>1. PICK f \in [0..n -> Q] : Unfolds(f, n, base, step)
    BY Recursion
  <2>2. ASSUME NEW i \in 1..n
        PROVE  f[i] = After(f[i - 1], i)
    <3>1. i - 1 \in 0..n
      BY <1>2
    <3>2. f[i] = step[<<f[i - 1], i>>] /\ <<f[i - 1], i>> \in Q \X (1..n)
      BY <2>1, <3>1 DEF Unfolds
    <3> HIDE DEF After
    <3> QED BY <1>7, <3>2
  <2> QED BY <2>1, <2>2 DEF Unfolds
<1> DEFINE Follows(g) ==
      g = [i \in 0..n |-> IF i = 0 THEN Retrieval!Fresh(q, used) ELSE Retrieval!OnEvent(k, g[i - 1], plan[i])]
<1>9. Follows(f)
  BY <1>5, <1>8
<1>10. PICK g : Follows(g) /\ Retrieval!Execute(k, q, used) = g[n]
  <2>1. PICK g : g = CHOOSE x : Follows(x)
    OBVIOUS
  <2>2. Retrieval!Execute(k, q, used) = g[n]
    BY <1>1, <1>2, <2>1 DEF Retrieval!Execute
  <2>3. Follows(g)
    <3> HIDE DEF Follows
    <3> QED BY <1>9, <2>1
  <2> HIDE DEF Follows
  <2> QED BY <2>2, <2>3
<1>11. g[0] = base /\ \A i \in 1..n : g[i] = After(g[i - 1], i)
  <2>1. \A i \in 0..n : g[i] = IF i = 0 THEN Retrieval!Fresh(q, used) ELSE After(g[i - 1], i)
    BY <1>10
  <2>2. \A i \in 1..n : i \in 0..n /\ i # 0
    OBVIOUS
  <2> HIDE DEF After
  <2> QED BY <1>2, <1>5, <2>1, <2>2
<1> DEFINE Offered(i) == \A j \in 1..i : plan[j].op = "offer" => plan[j].fact \in g[i].facts
           Good == {i \in 0..n : g[i] \in Q /\ (Short(g[i]) \/ Offered(i))}
<1>12. 0 \in Good
  BY <1>11
<1>13. ASSUME NEW i \in (0 + 1)..n, i - 1 \in Good
       PROVE  i \in Good
  <2>1. i \in 1..n /\ i \in 0..n /\ i - 1 \in 0..n
    BY <1>2
  <2>2. g[i - 1] \in Q /\ (Short(g[i - 1]) \/ Offered(i - 1))
    BY <1>13
  <2>3. g[i] = Retrieval!OnEvent(k, g[i - 1], plan[i])
    BY <1>11, <2>1
  <2>4. /\ g[i] \in Q
        /\ Short(g[i]) \/ (g[i - 1].facts \subseteq g[i].facts /\ (plan[i].op = "offer" => plan[i].fact \in g[i].facts))
        /\ Short(g[i - 1]) => Short(g[i])
    BY <1>3, <1>4, <2>1, <2>2, <2>3, EventIs
  <2>5. \A j \in 1..i : j = i \/ j \in 1..(i - 1)
    BY <2>1
  <2>6. Short(g[i]) \/ Offered(i)
    BY <2>2, <2>4, <2>5
  <2> QED BY <2>1, <2>4, <2>6
<1> HIDE DEF Good
<1>14. n \in Good
  <2>1. 0..n \subseteq Good
    BY <1>2, <1>12, <1>13, Upwards
  <2> QED BY <1>2, <2>1
<1>15. g[n] \in Q /\ (Short(g[n]) \/ Offered(n))
  BY <1>14 DEF Good
<1>16. Offered(n) => FoundBy(k, q) \subseteq g[n].facts
  BY <1>1, <1>2 DEF FoundBy
<1> QED BY <1>4, <1>10, <1>15, <1>16


-----------------------------------------------------------------------------
(* What is admitted is kept: a merge forgets no key and no query.           *)
FactsOf(k, A) == UNION {Facts(k, q) : q \in A}

Cands(k, A) == [key : FactKeys, facts : SUBSET FactsOf(k, A), queries : SUBSET A, unresolved : BOOLEAN]

Kept(store, key, q) == \E c \in store : c.key = key /\ q \in c.queries

Keeps(store, after) == \A key, q : Kept(store, key, q) => Kept(after, key, q)

LEMMA MergedIs ==
  ASSUME NEW k \in SomeKnowledge, NEW A \in SUBSET AllQueries, NEW q \in A, NEW f \in Facts(k, q),
         NEW store \in SUBSET Cands(k, A)
  PROVE  /\ Retrieval!Merged(store, f, q) \in SUBSET Cands(k, A)
         /\ Kept(Retrieval!Merged(store, f, q), f.key, q)
         /\ Keeps(store, Retrieval!Merged(store, f, q))
<1>1. PICK same : same = {c \in store : c.key = f.key}
  OBVIOUS
<1>2. PICK b \in BOOLEAN : b = (f.unresolved \/ \E c \in same : c.unresolved)
  OBVIOUS
<1>3. PICK facts, queries : /\ facts = {f} \union UNION {c.facts : c \in same}
                            /\ queries = {q} \union UNION {c.queries : c \in same}
  OBVIOUS
<1>4. PICK new : new = [key |-> f.key, facts |-> facts, queries |-> queries, unresolved |-> b]
  OBVIOUS
<1>5. PICK after : after = Retrieval!Merged(store, f, q)
  OBVIOUS
<1>6. after = (store \ same) \union {new}
  BY <1>1, <1>2, <1>3, <1>4, <1>5 DEF Retrieval!Merged, Retrieval!Same
<1>7. new \in Cands(k, A)
  <2>1. f.key \in FactKeys
    BY FactShape
  <2>2. facts \subseteq FactsOf(k, A) /\ queries \subseteq A
    BY <1>1, <1>3 DEF FactsOf, Cands
  <2> QED BY <1>2, <1>4, <2>1, <2>2 DEF Cands
<1>8. Kept(after, f.key, q)
  BY <1>3, <1>4, <1>6 DEF Kept
<1>9. Keeps(store, after)
  <2> SUFFICES ASSUME NEW c \in store, NEW p \in c.queries
               PROVE  \E d \in after : d.key = c.key /\ p \in d.queries
    BY DEF Keeps, Kept
  <2>1. CASE c \in same
    BY <1>1, <1>3, <1>4, <1>6, <2>1
  <2>2. CASE c \notin same
    BY <1>6, <2>2
  <2> QED BY <2>1, <2>2
<1> QED BY <1>5, <1>6, <1>7, <1>8, <1>9

(* The facts of a query are admitted one by one, until the channel is full. *)
Admissions(k, A) ==
  [admitted : SUBSET (Channels \X FactKeys), retained : SUBSET FactKeys,
   candidates : SUBSET Cands(k, A), cut : BOOLEAN]

Holding(s, key, q) == key \in s.retained /\ Kept(s.candidates, key, q)

LEMMA AdmitFactIs ==
  ASSUME NEW k \in SomeKnowledge, NEW A \in SUBSET AllQueries, NEW q \in A, NEW f \in Facts(k, q),
         NEW s \in Admissions(k, A)
  PROVE  LET after == Retrieval!AdmitFact(q, s, f)
         IN  /\ after \in Admissions(k, A) /\ Keeps(s.candidates, after.candidates)
             /\ s.retained \subseteq after.retained /\ (s.cut => after.cut)
             /\ after.cut \/ Holding(after, f.key, q)
<1>1. PICK after : after = Retrieval!AdmitFact(q, s, f)
  OBVIOUS
<1>2. PICK full : full = [s EXCEPT !.cut = TRUE]
  OBVIOUS
<1>3. full \in Admissions(k, A) /\ full.candidates = s.candidates /\ full.retained = s.retained /\ full.cut
  BY <1>2 DEF Admissions
<1>4. PICK store \in SUBSET Cands(k, A) : /\ store = Retrieval!Merged(s.candidates, f, q)
                                         /\ Kept(store, f.key, q) /\ Keeps(s.candidates, store)
  BY MergedIs DEF Admissions
<1>5. PICK more : more = [s EXCEPT !.admitted = @ \union {<<q.channel, f.key>>},
                                   !.retained = @ \union {f.key},
                                   !.candidates = store]
  OBVIOUS
<1>6. /\ more \in Admissions(k, A) /\ more.candidates = store
      /\ more.retained = s.retained \union {f.key} /\ more.cut = s.cut
  <2>1. f.key \in FactKeys /\ q.channel \in Channels
    BY FactShape DEF AllQueries
  <2>2. <<q.channel, f.key>> \in Channels \X FactKeys
    BY <2>1
  <2>3. PICK a, r, c : /\ a = s.admitted \union {<<q.channel, f.key>>} /\ r = s.retained \union {f.key} /\ c = s.cut
                       /\ a \in SUBSET (Channels \X FactKeys) /\ r \in SUBSET FactKeys /\ c \in BOOLEAN
    <3>1. /\ s.admitted \in SUBSET (Channels \X FactKeys) /\ s.retained \in SUBSET FactKeys
          /\ s.cut \in BOOLEAN
      BY DEF Admissions
    <3>2. PICK P : P = Channels \X FactKeys
      OBVIOUS
    <3>3. s.admitted \union {<<q.channel, f.key>>} \in SUBSET P
      BY <2>2, <3>1, <3>2
    <3>4. s.retained \union {f.key} \in SUBSET FactKeys
      BY <2>1, <3>1
    <3> QED BY <3>1, <3>2, <3>3, <3>4
  <2>4. more = [admitted |-> a, retained |-> r, candidates |-> store, cut |-> c]
    BY <1>5, <2>3 DEF Admissions
  <2> QED BY <2>3, <2>4 DEF Admissions
<1>7. after = full \/ after = more
  BY <1>1, <1>2, <1>4, <1>5 DEF Retrieval!AdmitFact
<1>8. Keeps(s.candidates, s.candidates)
  BY DEF Keeps
<1>9. CASE after = full
  BY <1>1, <1>3, <1>8, <1>9
<1>10. CASE after = more
  BY <1>1, <1>4, <1>6, <1>10 DEF Holding
<1> QED BY <1>7, <1>9, <1>10

LEMMA KeepsOn ==
  ASSUME NEW a, NEW b, NEW c, Keeps(a, b), Keeps(b, c)
  PROVE  Keeps(a, c)
BY DEF Keeps

LEMMA AdmitFactsIs ==
  ASSUME NEW k \in SomeKnowledge, NEW A \in SUBSET AllQueries, NEW q \in A, NEW n \in Nat,
         NEW facts \in [1..n -> Facts(k, q)], NEW start \in Admissions(k, A)
  PROVE  LET after == Retrieval!AdmitFacts(q, start, facts)
         IN  /\ after \in Admissions(k, A) /\ Keeps(start.candidates, after.candidates)
             /\ after.cut \/ \A i \in 1..n : Holding(after, facts[i].key, q)
<1>1. Len(facts) = n
  OBVIOUS
<1>2. PICK Q : Q = Admissions(k, A)
  OBVIOUS
<1> DEFINE After(s, i) == Retrieval!AdmitFact(q, s, facts[i])
<1>3. \A s \in Q : \A i \in 1..n : After(s, i) \in Q
  BY <1>2, AdmitFactIs
<1>4. PICK step \in [Q \X (1..n) -> Q] : step = [x \in Q \X (1..n) |-> After(x[1], x[2])]
  BY <1>3
<1>5. PICK f \in [0..n -> Q] : f[0] = start /\ \A i \in 1..n : f[i] = After(f[i - 1], i)
  <2>1. PICK f \in [0..n -> Q] : Unfolds(f, n, start, step)
    BY <1>2, Recursion
  <2>2. ASSUME NEW i \in 1..n
        PROVE  f[i] = After(f[i - 1], i)
    <3>1. i - 1 \in 0..n
      OBVIOUS
    <3>2. f[i] = step[<<f[i - 1], i>>] /\ <<f[i - 1], i>> \in Q \X (1..n)
      BY <2>1, <3>1 DEF Unfolds
    <3> HIDE DEF After
    <3> QED BY <1>4, <3>2
  <2> QED BY <2>1, <2>2 DEF Unfolds
<1> DEFINE Follows(g) ==
      g = [i \in 0..n |-> IF i = 0 THEN start ELSE Retrieval!AdmitFact(q, g[i - 1], facts[i])]
<1>6. Follows(f)
  BY <1>5
<1>7. PICK g : Follows(g) /\ Retrieval!AdmitFacts(q, start, facts) = g[n]
  <2>1. PICK g : g = CHOOSE x : Follows(x)
    OBVIOUS
  <2>2. Retrieval!AdmitFacts(q, start, facts) = g[n]
    BY <1>1, <2>1 DEF Retrieval!AdmitFacts
  <2>3. Follows(g)
    <3> HIDE DEF Follows
    <3> QED BY <1>6, <2>1
  <2> HIDE DEF Follows
  <2> QED BY <2>2, <2>3
<1>8. g[0] = start /\ \A i \in 1..n : g[i] = After(g[i - 1], i)
  <2>1. \A i \in 0..n : g[i] = IF i = 0 THEN start ELSE After(g[i - 1], i)
    BY <1>7
  <2>2. \A i \in 1..n : i \in 0..n /\ i # 0
    OBVIOUS
  <2> HIDE DEF After
  <2> QED BY <2>1, <2>2
<1> DEFINE Done(i) == /\ g[i] \in Q /\ Keeps(start.candidates, g[i].candidates)
                      /\ g[i].cut \/ \A j \in 1..i : Holding(g[i], facts[j].key, q)
           Good == {i \in 0..n : Done(i)}
<1>9. 0 \in Good
  BY <1>2, <1>8 DEF Keeps
<1>10. ASSUME NEW i \in (0 + 1)..n, i - 1 \in Good
       PROVE  i \in Good
  <2>1. i \in 1..n /\ i \in 0..n /\ i - 1 \in 0..n
    OBVIOUS
  <2>2. Done(i - 1)
    BY <1>10
  <2>3. g[i] = Retrieval!AdmitFact(q, g[i - 1], facts[i]) /\ facts[i] \in Facts(k, q)
    BY <1>8, <2>1
  <2>4. /\ g[i] \in Q /\ Keeps(g[i - 1].candidates, g[i].candidates)
        /\ g[i - 1].retained \subseteq g[i].retained /\ (g[i - 1].cut => g[i].cut)
        /\ g[i].cut \/ Holding(g[i], facts[i].key, q)
    BY <1>2, <2>2, <2>3, AdmitFactIs
  <2>5. Keeps(start.candidates, g[i].candidates)
    BY <2>2, <2>4, KeepsOn
  <2>6. ASSUME ~g[i].cut, NEW j \in 1..i
        PROVE  Holding(g[i], facts[j].key, q)
    <3>1. CASE j = i
      BY <2>4, <2>6, <3>1
    <3>2. CASE j \in 1..(i - 1)
      BY <2>2, <2>4, <2>6, <3>2 DEF Holding, Keeps
    <3> QED BY <2>1, <3>1, <3>2
  <2> QED BY <2>1, <2>4, <2>5, <2>6
<1> HIDE DEF Good
<1>11. 0..n \subseteq Good
  BY <1>9, <1>10, Upwards
<1>12. Done(n)
  BY <1>11 DEF Good
<1> QED BY <1>2, <1>7, <1>12


(* What a query leaves behind: its report, and that it is either short of   *)
(* something or holds every fact its plan offers.                           *)
Doubted == {"truncated", "unresolved", "failure"}

QueryReports(A) ==
  [query : A, status : Doubted \union {"empty", "ok"}, keys : SUBSET FactKeys, truncated : BOOLEAN,
   notes : SUBSET (RunNotes \union {"channel_candidate_limit", "total_candidate_limit"})]

Accounts(k, A) ==
  [admitted : SUBSET (Channels \X FactKeys), candidates : SUBSET Cands(k, A),
   reports : SUBSET QueryReports(A), calls : [Channels -> Nat]]

AnswersFor(k, acc, q) ==
  \E r \in acc.reports : /\ r.query = q
                         /\ \/ r.status \in Doubted
                            \/ \A f \in FoundBy(k, q) : f.key \in r.keys /\ Kept(acc.candidates, f.key, q)

LEMMA FiniteFacts ==
  ASSUME NEW k \in SomeKnowledge, NEW q \in AllQueries, NEW S \in SUBSET Facts(k, q)
  PROVE  IsFiniteSet(S)
<1>1. PICK a, b, c, d : /\ a = Retrieval!SymbolFact(k, q.seed) /\ b = Retrieval!NodeFact(k, q.seed)
                        /\ c = Retrieval!RangeOf("declaration", k.declaration[q.seed], q.seed)
                        /\ d = Retrieval!RangeOf("definition", k.definition[q.seed], q.seed)
  OBVIOUS
<1>2. PICK T : T = {Retrieval!CallFact(k, e) : e \in {x \in k.edges : x.relation = "call"}}
  OBVIOUS
<1>3. Facts(k, q) = {a, b, c, d} \union T
  BY <1>1, <1>2 DEF Facts
<1>4. IsFiniteSet(T)
  <2>1. PICK calls \in SUBSET k.edges : calls = {x \in k.edges : x.relation = "call"}
    OBVIOUS
  <2> QED BY <1>2, <2>1, FiniteCalls
<1>5. IsFiniteSet({a}) /\ IsFiniteSet({b}) /\ IsFiniteSet({c}) /\ IsFiniteSet({d})
  BY FS_Singleton
<1>6. IsFiniteSet({a} \union {b}) /\ IsFiniteSet({c} \union {d})
  BY <1>5, FS_Union
<1>7. IsFiniteSet(({a} \union {b}) \union ({c} \union {d}))
  BY <1>6, FS_Union
<1>8. IsFiniteSet((({a} \union {b}) \union ({c} \union {d})) \union T)
  BY <1>4, <1>7, FS_Union
<1>9. S \subseteq (({a} \union {b}) \union ({c} \union {d})) \union T
  BY <1>3
<1> QED BY <1>8, <1>9, FS_Subset

LEMMA AdmitQueryIs ==
  ASSUME NEW k \in SomeKnowledge, NEW A \in SUBSET AllQueries, NEW q \in A, NEW acc \in Accounts(k, A)
  PROVE  LET after == Retrieval!AdmitQuery(k, acc, q)
         IN  /\ after \in Accounts(k, A) /\ Keeps(acc.candidates, after.candidates)
             /\ acc.reports \subseteq after.reports
             /\ \A r \in after.reports \ acc.reports : r.query = q
             /\ AnswersFor(k, after, q)
<1>1. q \in AllQueries /\ q.channel \in Channels
  BY DEF AllQueries
<1>2. PICK result : /\ result = Retrieval!Execute(k, q, acc.calls[q.channel])
                    /\ result \in RunStates(k, q)
                    /\ Short(result) \/ FoundBy(k, q) \subseteq result.facts
  <2>1. PICK used \in Nat : used = acc.calls[q.channel]
    BY <1>1 DEF Accounts
  <2> QED BY <1>1, <2>1, ExecuteIs
<1>3. PICK found : found = Retrieval!ResultFacts(result) /\ found \in SUBSET Facts(k, q)
                   /\ (Short(result) \/ found = result.facts)
  <2>1. PICK found : found = Retrieval!ResultFacts(result)
    OBVIOUS
  <2>2. result.facts \in SUBSET Facts(k, q)
    BY <1>2 DEF RunStates
  <2>3. CASE result.failed
    BY <2>1, <2>3 DEF Retrieval!ResultFacts, Short
  <2>4. CASE ~result.failed
    BY <2>1, <2>2, <2>4 DEF Retrieval!ResultFacts
  <2> QED BY <2>3, <2>4
<1>4. PICK n, facts :
        /\ n \in Nat /\ facts \in [1..n -> Facts(k, q)]
        /\ facts = Retrieval!ByKey(found)
        /\ \A f \in found : \E i \in 1..n : facts[i] = f
  <2>1. IsFiniteSet(found)
    BY <1>1, <1>3, FiniteFacts
  <2>2. \A f \in found : f.key \in FactKeys
    BY <1>1, <1>3, FactShape
  <2>3. \A f, g \in found : f.key = g.key => f = g
    BY <1>1, <1>3, FactsApart
  <2>4. /\ Cardinality(found) \in Nat
        /\ Retrieval!ByKey(found) \in [1..Cardinality(found) -> found]
        /\ \A f \in found : \E i \in 1..Cardinality(found) : Retrieval!ByKey(found)[i] = f
    BY <2>1, <2>2, <2>3, ByKeyIs
  <2> QED BY <1>3, <2>4
<1>5. PICK start :
        /\ start = [admitted |-> acc.admitted, retained |-> {}, candidates |-> acc.candidates, cut |-> FALSE]
        /\ start.candidates = acc.candidates /\ start \in Admissions(k, A)
  <2>1. PICK start :
          start = [admitted |-> acc.admitted, retained |-> {}, candidates |-> acc.candidates, cut |-> FALSE]
    OBVIOUS
  <2>2. start.candidates = acc.candidates /\ start \in Admissions(k, A)
    BY <2>1 DEF Accounts, Admissions
  <2> QED BY <2>1, <2>2
<1>6. PICK after :
        /\ after = Retrieval!AdmitFacts(q, start, facts) /\ after \in Admissions(k, A)
        /\ Keeps(acc.candidates, after.candidates)
        /\ after.cut \/ \A i \in 1..n : Holding(after, facts[i].key, q)
  BY <1>4, <1>5, AdmitFactsIs
<1>7. PICK b \in BOOLEAN : b = (after.cut \/ result.truncated)
  OBVIOUS
<1>8. PICK notes : notes = result.notes \union (IF after.cut THEN {"channel_candidate_limit"} ELSE {})
  OBVIOUS
<1>9. PICK status : status = Retrieval!Status(result, after.cut)
  OBVIOUS
<1>10. PICK report : report = [query |-> q, status |-> status, keys |-> after.retained,
                               truncated |-> b, notes |-> notes]
  OBVIOUS
<1>11. report \in QueryReports(A)
  <2>1. status \in Doubted \union {"empty", "ok"}
    BY <1>9 DEF Retrieval!Status, Doubted
  <2>2. after.retained \in SUBSET FactKeys
    BY <1>6 DEF Admissions
  <2>3. notes \in SUBSET (RunNotes \union {"channel_candidate_limit", "total_candidate_limit"})
    BY <1>2, <1>8 DEF RunStates
  <2> QED BY <1>10, <2>1, <2>2, <2>3 DEF QueryReports
<1>12. PICK end : end = Retrieval!AdmitQuery(k, acc, q)
  OBVIOUS
<1>13. end = [acc EXCEPT !.admitted = after.admitted, !.candidates = after.candidates,
                         !.reports = @ \union {report}, !.calls[q.channel] = result.used]
  BY <1>2, <1>3, <1>4, <1>5, <1>6, <1>7, <1>8, <1>9, <1>10, <1>12 DEF Retrieval!AdmitQuery, Retrieval!Recorded
<1>14. /\ end = [admitted |-> after.admitted, candidates |-> after.candidates,
                 reports |-> acc.reports \union {report},
                 calls |-> [acc.calls EXCEPT ![q.channel] = result.used]]
  BY <1>13 DEF Accounts
<1>15. end \in Accounts(k, A)
  <2>1. [acc.calls EXCEPT ![q.channel] = result.used] \in [Channels -> Nat]
    BY <1>2 DEF Accounts, RunStates
  <2>2. acc.reports \union {report} \in SUBSET QueryReports(A)
    BY <1>11 DEF Accounts
  <2>3. after.admitted \in SUBSET (Channels \X FactKeys) /\ after.candidates \in SUBSET Cands(k, A)
    BY <1>6 DEF Admissions
  <2> QED BY <1>14, <2>1, <2>2, <2>3 DEF Accounts
<1>16. status \in Doubted \/ \A f \in FoundBy(k, q) : f.key \in after.retained /\ Kept(after.candidates, f.key, q)
  <2>1. CASE Short(result) \/ after.cut
    BY <1>9, <2>1 DEF Short, Retrieval!Status, Doubted
  <2>2. CASE ~Short(result) /\ ~after.cut
    <3>1. FoundBy(k, q) \subseteq found
      BY <1>2, <1>3, <2>2
    <3>2. \A f \in found : f.key \in after.retained /\ Kept(after.candidates, f.key, q)
      BY <1>4, <1>6, <2>2 DEF Holding
    <3> QED BY <3>1, <3>2
  <2> QED BY <2>1, <2>2
<1>17. /\ end.candidates = after.candidates /\ end.reports = acc.reports \union {report}
       /\ report.query = q /\ report.status = status /\ report.keys = after.retained
  BY <1>10, <1>14
<1>18. AnswersFor(k, end, q)
  BY <1>16, <1>17 DEF AnswersFor
<1> QED BY <1>6, <1>12, <1>15, <1>17, <1>18


(* Queries are finitely many, and asked one after another.                  *)
LEMMA FiniteQueries ==
  ASSUME NEW A \in SUBSET AllQueries
  PROVE  IsFiniteSet(A)
<1>1. IsFiniteSet(Channels)
  <2>1. IsFiniteSet({"symbol"} \union {"declaration"}) /\ IsFiniteSet({"definition"} \union {"callers"})
        /\ IsFiniteSet({"callees"} \union {"graph_node"})
    BY FS_Singleton, FS_Union
  <2>2. IsFiniteSet(({"symbol"} \union {"declaration"}) \union ({"definition"} \union {"callers"}))
    BY <2>1, FS_Union
  <2>3. IsFiniteSet((({"symbol"} \union {"declaration"}) \union ({"definition"} \union {"callers"}))
                      \union ({"callees"} \union {"graph_node"}))
    BY <2>1, <2>2, FS_Union
  <2>4. Channels \subseteq (({"symbol"} \union {"declaration"}) \union ({"definition"} \union {"callers"}))
                             \union ({"callees"} \union {"graph_node"})
    BY RequestAssumption
  <2> QED BY <2>3, <2>4, FS_Subset
<1>2. IsFiniteSet(Channels \X Nodes)
  BY <1>1, EdgesAssumption, FS_Product
<1> DEFINE S == Channels \X Nodes
           f == [p \in S |-> [channel |-> p[1], seed |-> p[2]]]
<1>3. f \in Surjection(S, AllQueries)
  <2>1. \A p \in S : f[p] \in AllQueries
    BY DEF AllQueries
  <2>2. \A q \in AllQueries : <<q.channel, q.seed>> \in S /\ f[<<q.channel, q.seed>>] = q
    BY DEF AllQueries
  <2> QED BY <2>1, <2>2 DEF Surjection
<1> HIDE DEF f
<1>4. IsFiniteSet(AllQueries)
  BY <1>2, <1>3, FS_Surjection
<1> QED BY <1>4, FS_Subset

LEMMA AskedIs ==
  ASSUME NEW S \in SUBSET AllQueries
  PROVE  /\ Cardinality(S) \in Nat
         /\ Retrieval!InOrder(S) \in [1..Cardinality(S) -> S]
         /\ \A q \in S : \E i \in 1..Cardinality(S) : Retrieval!InOrder(S)[i] = q
         /\ \A i, j \in 1..Cardinality(S) : Retrieval!InOrder(S)[i] = Retrieval!InOrder(S)[j] => i = j
<1>1. PICK r : r = [q \in S |-> QueryRank[<<q.channel, q.seed>>]]
  OBVIOUS
<1>2. /\ \A q \in S : r[q] = QueryRank[<<q.channel, q.seed>>] /\ r[q] \in Nat
      /\ \A p, q \in S : r[p] = r[q] => p = q
  <2>1. \A q \in S : <<q.channel, q.seed>> \in Channels \X Nodes
    BY DEF AllQueries
  <2>2. \A p, q \in S : <<p.channel, p.seed>> = <<q.channel, q.seed>> => p = q
    BY DEF AllQueries
  <2> QED BY <1>1, <2>1, <2>2, OrderAssumption
<1>3. IsFiniteSet(S)
  BY FiniteQueries
<1>4. /\ \A x \in S : Position(S, r, x) \in 0..(Cardinality(S) - 1)
      /\ \A x, z \in S : Position(S, r, x) = Position(S, r, z) => x = z
      /\ \A i \in 1..Cardinality(S) : \E x \in S : Position(S, r, x) = i - 1
  <2>1. \A x \in S : r[x] \in Nat
    BY <1>2
  <2>2. \A x, z \in S : r[x] = r[z] => x = z
    BY <1>2
  <2> QED BY <1>3, <2>1, <2>2, Positions
<1>5. \A x \in S : Retrieval!Cardinality({y \in S : QueryRank[<<y.channel, y.seed>>] < QueryRank[<<x.channel, x.seed>>]})
                     = Position(S, r, x)
  <2> SUFFICES ASSUME NEW x \in S
               PROVE  Retrieval!Cardinality({y \in S : QueryRank[<<y.channel, y.seed>>]
                                                         < QueryRank[<<x.channel, x.seed>>]}) = Position(S, r, x)
    OBVIOUS
  <2>1. {y \in S : QueryRank[<<y.channel, y.seed>>] < QueryRank[<<x.channel, x.seed>>]} = {y \in S : r[y] < r[x]}
    BY <1>2
  <2> QED BY <2>1, SameCardinality DEF Position
<1>6. PICK n \in Nat : n = Cardinality(S) /\ n = Retrieval!Cardinality(S)
  BY <1>3, FS_CardinalityType, SameCardinality
<1>7. PICK s : s = Retrieval!InOrder(S)
  OBVIOUS
<1>8. s = [i \in 1..n |-> CHOOSE x \in S :
             Retrieval!Cardinality({y \in S : QueryRank[<<y.channel, y.seed>>] < QueryRank[<<x.channel, x.seed>>]}) = i - 1]
  BY <1>6, <1>7 DEF Retrieval!InOrder, Retrieval!Ordered
<1>9. ASSUME NEW i \in 1..n
      PROVE  s[i] \in S /\ Position(S, r, s[i]) = i - 1
  <2>1. \E x \in S : Retrieval!Cardinality({y \in S : QueryRank[<<y.channel, y.seed>>]
                                                        < QueryRank[<<x.channel, x.seed>>]}) = i - 1
    BY <1>4, <1>5, <1>6
  <2>2. s[i] = CHOOSE x \in S :
             Retrieval!Cardinality({y \in S : QueryRank[<<y.channel, y.seed>>] < QueryRank[<<x.channel, x.seed>>]}) = i - 1
    BY <1>8
  <2>3. s[i] \in S /\ Retrieval!Cardinality({y \in S : QueryRank[<<y.channel, y.seed>>]
                                                         < QueryRank[<<s[i].channel, s[i].seed>>]}) = i - 1
    BY <2>1, <2>2
  <2> QED BY <1>5, <2>3
<1>10. ASSUME NEW q \in S
       PROVE  \E i \in 1..n : s[i] = q
  <2>1. Position(S, r, q) + 1 \in 1..n /\ (Position(S, r, q) + 1) - 1 = Position(S, r, q)
    BY <1>4, <1>6
  <2>2. s[Position(S, r, q) + 1] = q
    BY <1>4, <1>9, <2>1
  <2> QED BY <2>1, <2>2
<1>11. s \in [1..n -> S]
  BY <1>8, <1>9
<1>12. \A i, j \in 1..n : s[i] = s[j] => i = j
  <2> SUFFICES ASSUME NEW i \in 1..n, NEW j \in 1..n, s[i] = s[j]
               PROVE  i = j
    OBVIOUS
  <2>1. i - 1 = j - 1
    BY <1>9
  <2> QED BY <2>1
<1> QED BY <1>6, <1>7, <1>10, <1>11, <1>12

LEMMA AnswersStay ==
  ASSUME NEW k, NEW a, NEW b, NEW q, AnswersFor(k, a, q), Keeps(a.candidates, b.candidates), a.reports \subseteq b.reports
  PROVE  AnswersFor(k, b, q)
BY DEF AnswersFor, Keeps

LEMMA AdmitQueriesIs ==
  ASSUME NEW k \in SomeKnowledge, NEW A \in SUBSET AllQueries, NEW n \in Nat,
         NEW asked, \A i \in 1..n : asked[i] \in A
  PROVE  LET run == Retrieval!AdmitQueries(k, asked, n)
         IN  /\ run \in Accounts(k, A)
             /\ \A r \in run.reports : \E i \in 1..n : r.query = asked[i]
             /\ \A i \in 1..n : AnswersFor(k, run, asked[i])
<1>1. PICK Q : Q = Accounts(k, A)
  OBVIOUS
<1>2. PICK base \in Q : base = Retrieval!Nothing /\ base.reports = {}
  <2>1. PICK base : base = Retrieval!Nothing
    OBVIOUS
  <2>2. [c \in Channels |-> 0] \in [Channels -> Nat]
    OBVIOUS
  <2>3. base = [admitted |-> {}, candidates |-> {}, reports |-> {}, calls |-> [c \in Channels |-> 0]]
    BY <2>1 DEF Retrieval!Nothing
  <2>4. base \in Accounts(k, A) /\ base.reports = {}
    BY <2>2, <2>3 DEF Accounts
  <2> QED BY <1>1, <2>1, <2>4
<1> DEFINE After(acc, i) == Retrieval!AdmitQuery(k, acc, asked[i])
<1>3. \A acc \in Q : \A i \in 1..n : After(acc, i) \in Q
  BY <1>1, AdmitQueryIs
<1>4. PICK step \in [Q \X (1..n) -> Q] : step = [x \in Q \X (1..n) |-> After(x[1], x[2])]
  BY <1>3
<1>5. PICK f \in [0..n -> Q] : f[0] = base /\ \A i \in 1..n : f[i] = After(f[i - 1], i)
  <2>1. PICK f \in [0..n -> Q] : Unfolds(f, n, base, step)
    BY Recursion
  <2>2. ASSUME NEW i \in 1..n
        PROVE  f[i] = After(f[i - 1], i)
    <3>1. i - 1 \in 0..n
      OBVIOUS
    <3>2. f[i] = step[<<f[i - 1], i>>] /\ <<f[i - 1], i>> \in Q \X (1..n)
      BY <2>1, <3>1 DEF Unfolds
    <3> HIDE DEF After
    <3> QED BY <1>4, <3>2
  <2> QED BY <2>1, <2>2 DEF Unfolds
<1> DEFINE Follows(g) ==
      g = [i \in 0..n |-> IF i = 0 THEN Retrieval!Nothing ELSE Retrieval!AdmitQuery(k, g[i - 1], asked[i])]
<1>6. Follows(f)
  BY <1>2, <1>5
<1>7. PICK g : Follows(g) /\ Retrieval!AdmitQueries(k, asked, n) = g[n]
  <2>1. PICK g : g = CHOOSE x : Follows(x)
    OBVIOUS
  <2>2. Retrieval!AdmitQueries(k, asked, n) = g[n]
    BY <2>1 DEF Retrieval!AdmitQueries
  <2>3. Follows(g)
    <3> HIDE DEF Follows
    <3> QED BY <1>6, <2>1
  <2> HIDE DEF Follows
  <2> QED BY <2>2, <2>3
<1>8. g[0] = base /\ \A i \in 1..n : g[i] = After(g[i - 1], i)
  <2>1. \A i \in 0..n : g[i] = IF i = 0 THEN Retrieval!Nothing ELSE After(g[i - 1], i)
    BY <1>7
  <2>2. \A i \in 1..n : i \in 0..n /\ i # 0
    OBVIOUS
  <2> HIDE DEF After
  <2> QED BY <1>2, <2>1, <2>2
<1> DEFINE Done(i) == /\ g[i] \in Q
                      /\ \A r \in g[i].reports : \E j \in 1..i : r.query = asked[j]
                      /\ \A j \in 1..i : AnswersFor(k, g[i], asked[j])
           Good == {i \in 0..n : Done(i)}
<1>9. 0 \in Good
  BY <1>2, <1>8
<1>10. ASSUME NEW i \in (0 + 1)..n, i - 1 \in Good
       PROVE  i \in Good
  <2>1. i \in 1..n /\ i \in 0..n /\ i - 1 \in 0..n /\ i \in 1..i /\ 1..(i - 1) \subseteq 1..i
    OBVIOUS
  <2>2. Done(i - 1)
    BY <1>10
  <2>3. g[i] = Retrieval!AdmitQuery(k, g[i - 1], asked[i]) /\ asked[i] \in A
    BY <1>8, <2>1
  <2>4. /\ g[i] \in Q /\ Keeps(g[i - 1].candidates, g[i].candidates)
        /\ g[i - 1].reports \subseteq g[i].reports
        /\ \A r \in g[i].reports \ g[i - 1].reports : r.query = asked[i]
        /\ AnswersFor(k, g[i], asked[i])
    BY <1>1, <2>2, <2>3, AdmitQueryIs
  <2>5. \A r \in g[i].reports : \E j \in 1..i : r.query = asked[j]
    BY <2>1, <2>2, <2>4
  <2>6. ASSUME NEW j \in 1..i
        PROVE  AnswersFor(k, g[i], asked[j])
    <3>1. CASE j = i
      BY <2>4, <3>1
    <3>2. CASE j \in 1..(i - 1)
      BY <2>2, <2>4, <3>2, AnswersStay
    <3> QED BY <2>1, <3>1, <3>2
  <2> QED BY <2>1, <2>4, <2>5, <2>6
<1> HIDE DEF Good
<1>11. 0..n \subseteq Good
  BY <1>9, <1>10, Upwards
<1>12. Done(n)
  BY <1>11 DEF Good
<1> QED BY <1>1, <1>7, <1>12


(* The result of a request: it proves nothing but the seeds that were asked *)
(* for, and every fact of every query is there or its absence is reported.  *)
LEMMA LimitsAre ==
  ASSUME Types
  PROVE  setup.limits.queries \in Nat
<1>1. setup.limits \in {s.limits : s \in Setups}
  BY DEF Types
<1> QED BY <1>1, RequestAssumption

LEMMA RetrieveIs ==
  ASSUME Types, NEW k \in SomeKnowledge, NEW request, request.queries \in SUBSET AllQueries
  PROVE  LET result == Retrieval!Retrieve(k, request)
         IN  /\ result.request = request
             /\ \A c \in result.candidates : \A f \in c.facts :
                  f.identity = Absent \/ \E q \in request.queries : f.identity = q.seed
             /\ \A q \in request.queries : \A f \in FoundBy(k, q) :
                  \/ \E c \in result.candidates : c.key = f.key /\ q \in c.queries
                  \/ \E r \in result.reports : r.query = q /\ r.status \in {"truncated", "unresolved", "failure"}
                  \/ result.truncated /\ \A r \in result.reports : r.query # q
<1>1. PICK A \in SUBSET AllQueries : A = request.queries
  OBVIOUS
<1>2. PICK m, asked : /\ m \in Nat /\ asked = Retrieval!InOrder(A) /\ asked \in [1..m -> A]
                      /\ \A q \in A : \E i \in 1..m : asked[i] = q
                      /\ \A i, j \in 1..m : asked[i] = asked[j] => i = j
  BY AskedIs
<1>3. Len(asked) = m
  BY <1>2
<1>4. PICK l \in Nat : l = setup.limits.queries
  BY LimitsAre
<1>5. PICK n \in Nat : /\ n = (IF Len(asked) < setup.limits.queries THEN Len(asked) ELSE setup.limits.queries)
                       /\ n <= m /\ (n = m \/ m > l)
  <2>1. CASE m < l
    BY <1>2, <1>3, <1>4, <2>1
  <2>2. CASE ~(m < l)
    <3>1. l = IF Len(asked) < setup.limits.queries THEN Len(asked) ELSE setup.limits.queries
      BY <1>3, <1>4, <2>2
    <3>2. l <= m /\ (l = m \/ m > l)
      BY <1>2, <1>4, <2>2
    <3> QED BY <1>4, <3>1, <3>2
  <2> QED BY <2>1, <2>2
<1>6. PICK run : /\ run = Retrieval!AdmitQueries(k, asked, n) /\ run \in Accounts(k, A)
                 /\ \A r \in run.reports : \E i \in 1..n : r.query = asked[i]
                 /\ \A i \in 1..n : AnswersFor(k, run, asked[i])
  <2>1. \A i \in 1..n : asked[i] \in A
    BY <1>2, <1>5
  <2> QED BY <2>1, AdmitQueriesIs
<1> DEFINE all == {c.key : c \in run.candidates}
<1>15. PICK selected :
         selected = {x \in all : Retrieval!Cardinality({y \in all : KeyRank[y] < KeyRank[x]}) < setup.limits.total}
  OBVIOUS
<1>7. PICK keys, statements, members :
        /\ keys = {c.key : c \in run.candidates}
        /\ statements = {Retrieval!CutReport(selected, r) : r \in run.reports}
        /\ members = {c \in run.candidates : c.key \in selected}
  OBVIOUS
<1>8. PICK cut \in BOOLEAN : cut = (\/ Len(asked) > setup.limits.queries
                                   \/ selected # keys
                                   \/ \E r \in statements : r.truncated)
  OBVIOUS
<1>9. PICK result : result = Retrieval!Retrieve(k, request)
  OBVIOUS
<1>10. result = [candidates |-> members, reports |-> statements, request |-> request, truncated |-> cut]
  <2>1. PICK ask, go, some, chosen, said :
          /\ ask = Retrieval!InOrder(request.queries)
          /\ go = Retrieval!AdmitQueries(k, ask, IF Len(ask) < setup.limits.queries THEN Len(ask) ELSE setup.limits.queries)
          /\ some = {c.key : c \in go.candidates}
          /\ chosen = {x \in some : Retrieval!Cardinality({y \in some : KeyRank[y] < KeyRank[x]}) < setup.limits.total}
          /\ said = {Retrieval!CutReport(chosen, r) : r \in go.reports}
    OBVIOUS
  <2>2. ask = asked /\ go = run
    BY <1>1, <1>2, <1>5, <1>6, <2>1
  <2>3. some = keys /\ chosen = selected /\ said = statements
    BY <1>7, <1>15, <2>1, <2>2
  <2>4. result = [candidates |-> {c \in go.candidates : c.key \in chosen}, reports |-> said, request |-> request,
                  truncated |-> \/ Len(ask) > setup.limits.queries
                                \/ chosen # some
                                \/ \E r \in said : r.truncated]
    BY <1>9, <2>1 DEF Retrieval!Retrieve, Retrieval!Least
  <2>5. cut = (\/ Len(ask) > setup.limits.queries
              \/ chosen # some
              \/ \E r \in said : r.truncated)
    BY <1>8, <2>2, <2>3
  <2>6. members = {c \in go.candidates : c.key \in chosen}
    BY <1>7, <2>2, <2>3
  <2> QED BY <2>3, <2>4, <2>5, <2>6
<1>11. ASSUME NEW c \in members, NEW f \in c.facts
       PROVE  f.identity = Absent \/ \E q \in A : f.identity = q.seed
  <2>1. c \in Cands(k, A)
    BY <1>6, <1>7 DEF Accounts
  <2>2. PICK q \in A : f \in Facts(k, q)
    BY <2>1 DEF Cands, FactsOf
  <2> QED BY <2>2, FactShape
<1>12. \A r \in run.reports : /\ Retrieval!CutReport(selected, r).query = r.query
                              /\ \/ r.keys \subseteq selected /\ Retrieval!CutReport(selected, r).status = r.status
                                 \/ Retrieval!CutReport(selected, r).status = "truncated"
  <2> SUFFICES ASSUME NEW r \in run.reports
               PROVE  /\ Retrieval!CutReport(selected, r).query = r.query
                      /\ \/ r.keys \subseteq selected /\ Retrieval!CutReport(selected, r).status = r.status
                         \/ Retrieval!CutReport(selected, r).status = "truncated"
    OBVIOUS
  <2>1. r \in QueryReports(A)
    BY <1>6 DEF Accounts
  <2>2. CASE r.keys \subseteq selected
    BY <2>2 DEF Retrieval!CutReport
  <2>3. CASE ~ r.keys \subseteq selected
    BY <2>1, <2>3 DEF Retrieval!CutReport, QueryReports
  <2> QED BY <2>2, <2>3
<1>13. ASSUME NEW q \in A, NEW f \in FoundBy(k, q)
       PROVE  \/ \E c \in members : c.key = f.key /\ q \in c.queries
              \/ \E r \in statements : r.query = q /\ r.status \in {"truncated", "unresolved", "failure"}
              \/ cut /\ \A r \in statements : r.query # q
  <2>1. PICK i \in 1..m : asked[i] = q
    BY <1>2
  <2>2. CASE i \in 1..n
    <3>1. PICK r \in run.reports : /\ r.query = q
                                   /\ \/ r.status \in Doubted
                                      \/ f.key \in r.keys /\ Kept(run.candidates, f.key, q)
      BY <1>6, <2>1, <2>2 DEF AnswersFor
    <3>2. PICK o \in statements : /\ o.query = q
                               /\ \/ r.keys \subseteq selected /\ o.status = r.status
                                  \/ o.status = "truncated"
      BY <1>7, <1>12, <3>1
    <3>3. CASE o.status \in Doubted
      BY <3>2, <3>3 DEF Doubted
    <3>4. CASE o.status \notin Doubted
      <4>1. f.key \in selected /\ Kept(run.candidates, f.key, q)
        BY <3>1, <3>2, <3>4 DEF Doubted
      <4> QED BY <1>7, <4>1 DEF Kept
    <3> QED BY <3>3, <3>4
  <2>3. CASE i \notin 1..n
    <3>1. m > l /\ n < i
      BY <1>2, <1>5, <2>3
    <3>2. cut
      BY <1>3, <1>4, <1>8, <3>1
    <3>3. \A r \in run.reports : r.query # q
      <4> SUFFICES ASSUME NEW r \in run.reports, r.query = q
                   PROVE  FALSE
        OBVIOUS
      <4>1. PICK j \in 1..n : asked[j] = q
        BY <1>6
      <4>2. j \in 1..m /\ j # i
        BY <1>2, <1>5, <2>1, <3>1, <4>1
      <4> QED BY <1>2, <2>1, <4>1, <4>2
    <3>4. \A r \in statements : r.query # q
      BY <1>7, <1>12, <3>3
    <3> QED BY <3>2, <3>4
  <2> QED BY <2>2, <2>3
<1>14. /\ result.request = request /\ result.candidates = members
       /\ result.reports = statements /\ result.truncated = cut
  BY <1>10
<1> QED BY <1>1, <1>9, <1>11, <1>13, <1>14


-----------------------------------------------------------------------------
(* The outcomes and the results are made once, from one another, and stay.  *)
MappingDone ==
  outcomes = [i \in DOMAIN anchors |->
                MapAnchor(Knowledge[anchors[i].side], Issue(anchors[i].side), anchors, i)]

OnlyAsked ==
  \A s \in DOMAIN retrieved :
    /\ s \in SidesOf /\ retrieved[s].request = RequestOf(s) /\ RequestOf(s).queries \in SUBSET AllQueries
    /\ \A c \in retrieved[s].candidates : \A f \in c.facts :
         f.identity = Absent \/ \E q \in RequestOf(s).queries : f.identity = q.seed

FactsInv ==
  /\ phase \in {"map", "retrieve"} => retrieved = <<>>
  /\ phase \notin {"map", "aborted"} => MappingDone
  /\ phase \notin {"map", "retrieve", "aborted"} => DOMAIN retrieved = setup.available
  /\ OnlyAsked
  /\ FactsAreKept

LEMMA RequestIs ==
  ASSUME Types, MappingDone, NEW s \in SidesOf
  PROVE  RequestOf(s).queries \in SUBSET AllQueries
<1>1. PICK mine : mine = {i \in DOMAIN anchors : anchors[i].side = s}
  OBVIOUS
<1>2. PICK seeds : seeds = UNION {outcomes[i].symbols : i \in mine}
  OBVIOUS
<1>3. RequestOf(s).queries = [channel : Channels, seed : seeds]
  BY <1>1, <1>2 DEF RequestOf, Request
<1>4. seeds \subseteq Nodes
  <2> SUFFICES ASSUME NEW i \in mine
               PROVE  outcomes[i].symbols \subseteq Nodes
    BY <1>2
  <2>1. i \in DOMAIN anchors /\ anchors[i].side = s
    BY <1>1
  <2>2. outcomes[i] = MapAnchor(Knowledge[s], Issue(s), anchors, i)
    BY <2>1 DEF MappingDone
  <2>3. outcomes[i].symbols \subseteq Knowledge[s].symbols
    BY <2>2, MappedAmong
  <2> QED BY <2>3, KnowledgeAssumption DEF SidesOf
<1> QED BY <1>3, <1>4 DEF AllQueries

LEMMA ResultsStay ==
  ASSUME OnlyAsked, FactsAreKept, UNCHANGED <<setup, outcomes, retrieved>>
  PROVE  OnlyAsked' /\ FactsAreKept'
<1>1. anchors' = anchors
  BY DEF anchors
<1>2. \A s : RequestOf(s)' = RequestOf(s)
  BY <1>1 DEF RequestOf
<1> QED BY <1>2 DEF OnlyAsked, FactsAreKept

LEMMA MapKeepsFacts == Types /\ FactsInv /\ Map => FactsInv'
<1> SUFFICES ASSUME Types, FactsInv, Map
             PROVE  FactsInv'
  OBVIOUS
<1> USE DEF Map
<1>1. retrieved = <<>> /\ retrieved' = <<>> /\ phase' = "retrieve"
  BY DEF FactsInv
<1>2. DOMAIN retrieved' = {}
  BY <1>1
<1>3. OnlyAsked' /\ FactsAreKept'
  BY <1>2 DEF OnlyAsked, FactsAreKept
<1>4. MappingDone'
  BY DEF MappingDone, anchors, Issue
<1> QED BY <1>1, <1>3, <1>4 DEF FactsInv

LEMMA RetrieveKeepsFacts == Types /\ FactsInv /\ Retrieve => FactsInv'
<1> SUFFICES ASSUME Types, FactsInv, Retrieve
             PROVE  FactsInv'
  OBVIOUS
<1>1. MappingDone /\ phase' = "begin" /\ UNCHANGED <<setup, outcomes>>
  BY DEF FactsInv, Retrieve
<1>2. setup.available \subseteq SidesOf
  BY ChangeAssumption DEF Types, SidesOf
<1>3. anchors' = anchors
  BY <1>1 DEF anchors
<1>4. \A s : RequestOf(s)' = RequestOf(s)
  BY <1>1, <1>3 DEF RequestOf
<1>5. MappingDone'
  BY <1>1, <1>3 DEF MappingDone, Issue
<1>6. DOMAIN retrieved' = setup.available
  BY DEF Retrieve
<1>7. ASSUME NEW s \in setup.available
      PROVE  LET result == retrieved'[s]
             IN  /\ result.request = RequestOf(s) /\ RequestOf(s).queries \in SUBSET AllQueries
                 /\ \A c \in result.candidates : \A f \in c.facts :
                      f.identity = Absent \/ \E q \in RequestOf(s).queries : f.identity = q.seed
                 /\ \A q \in RequestOf(s).queries : \A f \in FoundBy(Knowledge[s], q) :
                      \/ \E c \in result.candidates : c.key = f.key /\ q \in c.queries
                      \/ \E r \in result.reports : r.query = q /\ r.status \in {"truncated", "unresolved", "failure"}
                      \/ result.truncated /\ \A r \in result.reports : r.query # q
  <2>1. PICK k \in SomeKnowledge : k = Knowledge[s]
    BY <1>2 DEF SomeKnowledge
  <2>2. PICK request : request = RequestOf(s) /\ request.queries \in SUBSET AllQueries
    BY <1>1, <1>2, RequestIs
  <2>3. retrieved'[s] = Retrieval!Retrieve(k, request)
    BY <2>1, <2>2 DEF Retrieve
  <2>4. PICK result :
          /\ result = Retrieval!Retrieve(k, request) /\ result.request = request
          /\ \A c \in result.candidates : \A f \in c.facts :
               f.identity = Absent \/ \E q \in request.queries : f.identity = q.seed
          /\ \A q \in request.queries : \A f \in FoundBy(k, q) :
               \/ \E c \in result.candidates : c.key = f.key /\ q \in c.queries
               \/ \E r \in result.reports : r.query = q /\ r.status \in {"truncated", "unresolved", "failure"}
               \/ result.truncated /\ \A r \in result.reports : r.query # q
    BY <2>2, RetrieveIs
  <2>5. retrieved'[s] = result
    BY <2>3, <2>4
  <2> QED BY <2>1, <2>2, <2>4, <2>5
<1>8. OnlyAsked'
  BY <1>2, <1>4, <1>6, <1>7 DEF OnlyAsked
<1>9. FactsAreKept'
  BY <1>4, <1>6, <1>7 DEF FactsAreKept
<1> QED BY <1>1, <1>5, <1>6, <1>8, <1>9 DEF FactsInv

(* Every other step leaves them as they are.                                *)
LEMMA OthersKeepFacts ==
  ASSUME FactsInv, [Next]_vars, ~Map, ~Retrieve
  PROVE  FactsInv'
<1>1. /\ UNCHANGED <<setup, outcomes, retrieved>>
      /\ \/ phase' = phase \/ phase' = "aborted"
         \/ phase \notin {"map", "retrieve", "aborted"} /\ phase' \notin {"map", "retrieve"}
  <2>1. CASE Abort
    BY <2>1 DEF Abort, mapping
  <2>2. CASE Expand
    <3>1. CASE BeginSide
      BY <3>1 DEF BeginSide, mapping
    <3>2. CASE LeaveOut \/ SideDone
      BY <3>2 DEF LeaveOut, SideDone, NextSide, mapping
    <3>3. CASE SkipJob \/ DisabledTrace \/ FailJob \/ StartWalk \/ Walk \/ FinishWalk \/ RunTrace
      BY <3>3 DEF SkipJob, DisabledTrace, FailJob, StartWalk, Walk, FinishWalk, RunTrace, mapping
    <3> QED BY <2>2, <3>1, <3>2, <3>3 DEF Expand
  <2>3. CASE Materialize
    BY <2>3 DEF Materialize, Extract, OpenScopes, Read, CloseScopes, Withdraw, mapping
  <2>4. CASE Surroundings
    BY <2>4 DEF Surroundings, Edit, mapping
  <2>5. CASE UNCHANGED vars
    BY <2>5 DEF vars, mapping
  <2> QED BY <2>1, <2>2, <2>3, <2>4, <2>5 DEF Next, Pipeline
<1>2. OnlyAsked' /\ FactsAreKept'
  BY <1>1, ResultsStay DEF FactsInv
<1>3. MappingDone => MappingDone'
  BY <1>1 DEF MappingDone, anchors, Issue
<1> QED BY <1>1, <1>2, <1>3 DEF FactsInv

THEOREM FactsInductive == Spec => []FactsInv
<1>1. Init => FactsInv
  BY DEF Init, ExpansionInit, FactsInv, OnlyAsked, FactsAreKept
<1>2. Types /\ FactsInv /\ [Next]_vars => FactsInv'
  BY MapKeepsFacts, RetrieveKeepsFacts, OthersKeepFacts
<1>3. ContextInv => Types
  BY DEF ContextInv
<1> QED BY <1>1, <1>2, <1>3, ContextInductive, PTL DEF Spec

(* No fact that a channel finds is lost without a word: it is a candidate   *)
(* found by its query, or the query's own report says why it is not, or the *)
(* query was never run and the result says that it is truncated; whatever   *)
(* limit, fault, unresolved seed or merge the retrieval meets.              *)
THEOREM FactsAlwaysKept == Spec => []FactsAreKept
<1>1. FactsInv => FactsAreKept
  BY DEF FactsInv
<1> QED BY <1>1, FactsInductive, PTL


-----------------------------------------------------------------------------
(* The walk that a seed asks for, when it comes to rest unstopped, has seen *)
(* everything the seed reaches.                                             *)
Asks(s, n) ==
  [nodes |-> Knowledge[s].nodes, edges |-> Knowledge[s].edges, seed |-> n, direction |-> policy.direction,
   relations |-> policy.relations \ Knowledge[s].unavailable, maxDepth |-> policy.maxDepth,
   maxNodes |-> policy.nodesPerSeed, maxEdges |-> policy.edgesPerSeed]

LEMMA LevelsStay ==
  ASSUME LevelInv, UNCHANGED walk
  PROVE  LevelInv'
BY DEF walk, LevelInv, Seeded, ByDepth, Frontier, Near, Incident

LEMMA NextDoor ==
  ASSUME NEW s \in SidesOf, NEW n, query = Asks(s, n), NEW y, NEW x \in Neighbours(policy, Knowledge[s], y)
  PROVE  \E e \in Incident(query, y) : Other(e, y) = x
<1>1. /\ query.edges = Knowledge[s].edges /\ query.direction = policy.direction
      /\ query.relations = policy.relations \ Knowledge[s].unavailable
  BY DEF Asks
<1>2. PICK e \in query.edges : /\ e.relation \in query.relations
                               /\ \/ query.direction # "incoming" /\ e.source = y /\ x = e.target
                                  \/ query.direction # "outgoing" /\ e.target = y /\ x = e.source
  BY <1>1 DEF Neighbours
<1> QED BY <1>2 DEF Incident, Other

LEMMA WalkReaches ==
  ASSUME Types, WalkRuns, LevelInv, AtRest, stopped = "none", visits # <<>>,
         NEW s \in SidesOf, NEW n, query = Asks(s, n)
  PROVE  Reach(Knowledge[s], {n}) \subseteq Seen
<1>1. WalkInv
  BY DEF WalkRuns, NoVisits
<1>2. PICK m \in Nat : m = policy.maxDepth /\ m = query.maxDepth
  BY PolicyDepth DEF Asks
<1>3. PICK k : k = Knowledge[s] /\ k \in {Knowledge[x] : x \in SidesOf}
  OBVIOUS
<1>4. PICK start : start = {n}
  OBVIOUS
<1>5. PICK R : R = Reached(policy, k, start)
  OBVIOUS
<1>6. /\ R[0] = start \intersect k.nodes
      /\ \A d \in 1..m : R[d] = R[d - 1] \union UNION {Neighbours(policy, k, x) : x \in R[d - 1]}
  BY <1>2, <1>3, <1>5, ReachedIs
<1> DEFINE At(x, d) == \E j \in 1..Len(visits) : visits[j].node = x /\ visits[j].depth <= d
           Good == {d \in 0..m : \A x \in R[d] : At(x, d)}
<1>7. visits \in Seq([node : query.nodes, depth : 0..query.maxDepth]) /\ Len(visits) \in Nat
  BY <1>1 DEF WalkInv, WalkTypeOK
<1>8. \A j \in 1..Len(visits) : visits[j].depth \in 0..m
  BY <1>1, <1>2, VisitType DEF WalkInv
<1>9. 0 \in Good
  <2> SUFFICES ASSUME NEW x \in R[0]
               PROVE  At(x, 0)
    BY <1>2
  <2>1. x = query.seed /\ query.seed \in query.nodes
    BY <1>3, <1>4, <1>6 DEF Asks
  <2>2. visits # <<>> /\ visits[1].node = query.seed /\ visits[1].depth = 0
    BY <2>1 DEF LevelInv, Seeded
  <2>3. 1 \in 1..Len(visits)
    BY <1>7, <2>2
  <2> QED BY <2>1, <2>2, <2>3
<1>10. ASSUME NEW d \in (0 + 1)..m, d - 1 \in Good
       PROVE  d \in Good
  <2>1. d \in 1..m /\ d \in 0..m /\ d - 1 \in Nat
    BY <1>2
  <2> SUFFICES ASSUME NEW x \in R[d]
               PROVE  At(x, d)
    BY <2>1
  <2>2. CASE x \in R[d - 1]
    <3>1. PICK j \in 1..Len(visits) : visits[j].node = x /\ visits[j].depth <= d - 1
      BY <1>10, <2>2
    <3> QED BY <1>8, <2>1, <3>1
  <2>3. CASE \E y \in R[d - 1] : x \in Neighbours(policy, k, y)
    <3>1. PICK y \in R[d - 1] : x \in Neighbours(policy, k, y)
      BY <2>3
    <3>2. PICK i \in 1..Len(visits) : visits[i].node = y /\ visits[i].depth <= d - 1
      BY <1>10, <3>1
    <3>3. PICK e \in Incident(query, visits[i].node) : Other(e, visits[i].node) = x
      <4>1. x \in Neighbours(policy, Knowledge[s], y)
        BY <1>3, <3>1
      <4>2. \E e \in Incident(query, y) : Other(e, y) = x
        BY <4>1, NextDoor
      <4> QED BY <3>2, <4>2
    <3>4. visits[i].depth < query.maxDepth
      BY <1>2, <1>8, <2>1, <3>2
    <3>5. PICK j \in 1..Len(visits) : visits[j].node = x /\ visits[j].depth <= visits[i].depth + 1
      BY <1>1, <3>3, <3>4, RestReaches
    <3> QED BY <1>8, <2>1, <3>2, <3>5
  <2> QED BY <1>6, <2>1, <2>2, <2>3
<1> HIDE DEF Good
<1>11. 0..m \subseteq Good
  BY <1>2, <1>9, <1>10, Upwards
<1>12. \A x \in R[m] : At(x, m)
  BY <1>2, <1>11 DEF Good
<1>13. Reach(Knowledge[s], {n}) = R[m]
  BY <1>2, <1>3, <1>4, <1>5 DEF Reach
<1> QED BY <1>12, <1>13 DEF Seen

-----------------------------------------------------------------------------
(* The jobs of a side begin with one for each of its seeds.                 *)
LEMMA SeedsSorted ==
  ASSUME NEW S \in SUBSET Nodes
  PROVE  /\ Cardinality(S) \in Nat
         /\ SeedsInOrder(S) \in [1..Cardinality(S) -> S]
         /\ \A n \in S : \E i \in 1..Cardinality(S) : SeedsInOrder(S)[i] = n
<1>1. PICK r : r = [n \in S |-> NodeRank[n]]
  OBVIOUS
<1>2. \A n \in S : r[n] = NodeRank[n] /\ r[n] \in Nat
  BY <1>1, OrderAssumption
<1>3. \A x \in S : r[x] \in Nat
  BY <1>2
<1>4. \A x, z \in S : r[x] = r[z] => x = z
  BY <1>2, OrderAssumption
<1>5. IsFiniteSet(S)
  BY EdgesAssumption, FS_Subset
<1>6. /\ \A x \in S : Position(S, r, x) \in 0..(Cardinality(S) - 1)
      /\ \A x, z \in S : Position(S, r, x) = Position(S, r, z) => x = z
      /\ \A i \in 1..Cardinality(S) : \E x \in S : Position(S, r, x) = i - 1
  BY <1>3, <1>4, <1>5, Positions
<1>7. \A x \in S : Cardinality({y \in S : NodeRank[y] < NodeRank[x]}) = Position(S, r, x)
  <2> SUFFICES ASSUME NEW x \in S
               PROVE  Cardinality({y \in S : NodeRank[y] < NodeRank[x]}) = Position(S, r, x)
    OBVIOUS
  <2>1. {y \in S : NodeRank[y] < NodeRank[x]} = {y \in S : r[y] < r[x]}
    BY <1>2
  <2> QED BY <2>1 DEF Position
<1>8. PICK n \in Nat : n = Cardinality(S)
  BY <1>5, FS_CardinalityType
<1>9. PICK q : q = SeedsInOrder(S)
  OBVIOUS
<1>10. q = [i \in 1..n |-> CHOOSE x \in S : Cardinality({y \in S : NodeRank[y] < NodeRank[x]}) = i - 1]
  BY <1>8, <1>9 DEF SeedsInOrder, Ordered
<1>11. ASSUME NEW i \in 1..n
       PROVE  q[i] \in S /\ Position(S, r, q[i]) = i - 1
  <2>1. \E x \in S : Cardinality({y \in S : NodeRank[y] < NodeRank[x]}) = i - 1
    BY <1>6, <1>7, <1>8
  <2>2. q[i] = CHOOSE x \in S : Cardinality({y \in S : NodeRank[y] < NodeRank[x]}) = i - 1
    BY <1>10
  <2>3. q[i] \in S /\ Cardinality({y \in S : NodeRank[y] < NodeRank[q[i]]}) = i - 1
    BY <2>1, <2>2
  <2> QED BY <1>7, <2>3
<1>12. ASSUME NEW x \in S
       PROVE  \E i \in 1..n : q[i] = x
  <2>1. Position(S, r, x) + 1 \in 1..n /\ (Position(S, r, x) + 1) - 1 = Position(S, r, x)
    BY <1>6, <1>8
  <2>2. q[Position(S, r, x) + 1] = x
    BY <1>6, <1>11, <2>1
  <2> QED BY <2>1, <2>2
<1>13. q \in [1..n -> S]
  BY <1>10, <1>11
<1> QED BY <1>8, <1>9, <1>12, <1>13

LEMMA JobsAre ==
  ASSUME Types, NEW s \in SidesOf, Seeds(retrieved[s]) \subseteq Nodes
  PROVE  /\ JobsOf(s) \in Seq(Range(JobsOf(s)))
         /\ \A n \in Seeds(retrieved[s]) : \E i \in DOMAIN JobsOf(s) :
              JobsOf(s)[i].seed = n /\ JobsOf(s)[i].trace = Absent
<1>1. PICK S \in SUBSET Nodes : S = Seeds(retrieved[s])
  OBVIOUS
<1>2. PICK seeds, n : /\ n \in Nat /\ seeds = SeedsInOrder(S) /\ seeds \in [1..n -> S]
                      /\ \A x \in S : \E i \in 1..n : seeds[i] = x
  BY SeedsSorted
<1>3. PICK c \in Nat : c = Cardinality(setup.traces[s])
  <2>1. IsFiniteSet(setup.traces[s])
    BY TraceAssumption DEF Types, SidesOf
  <2> QED BY <2>1, FS_CardinalityType
<1>4. PICK traces : traces = TracesInOrder(setup.traces[s]) /\ DOMAIN traces = 1..c
  <2>1. PICK T : T = setup.traces[s] /\ c = Cardinality(T)
    BY <1>3
  <2>2. DOMAIN TracesInOrder(T) = 1..Cardinality(T)
    BY DEF TracesInOrder, Ordered
  <2> QED BY <2>1, <2>2
<1> DEFINE a == [i \in 1..n |-> [seed |-> seeds[i], trace |-> Absent]]
           b == [i \in 1..c |-> [seed |-> traces[i].seed, trace |-> traces[i]]]
           X == Range(a) \union Range(b)
<1>5. PICK q : q = JobsOf(s)
  OBVIOUS
<1>6. q = a \o b
  BY <1>1, <1>2, <1>4, <1>5 DEF JobsOf
<1>7. a \in Seq(X) /\ b \in Seq(X) /\ Len(a) = n /\ Len(b) = c
  <2>1. DOMAIN a = 1..n /\ DOMAIN b = 1..c
    OBVIOUS
  <2>2. a = [i \in 1..n |-> a[i]] /\ b = [i \in 1..c |-> b[i]]
    OBVIOUS
  <2> HIDE DEF a, b
  <2>3. \A i \in 1..n : a[i] \in X
    BY <2>1 DEF Range
  <2>4. \A i \in 1..c : b[i] \in X
    BY <2>1 DEF Range
  <2> HIDE DEF X
  <2>5. n \in Nat /\ c \in Nat
    BY <1>2, <1>3
  <2>6. a \in [1..n -> X] /\ b \in [1..c -> X]
    BY <2>2, <2>3, <2>4
  <2> QED BY <2>5, <2>6
<1>8. \A i \in 1..n : a[i].seed = seeds[i] /\ a[i].trace = Absent
  OBVIOUS
<1> HIDE DEF a, b, X
<1>9. q \in Seq(X) /\ Len(q) = n + c /\ \A i \in 1..n : q[i] = a[i]
  BY <1>2, <1>3, <1>6, <1>7
<1>10. q \in Seq(Range(q))
  <2>1. \A i \in 1..Len(q) : q[i] \in Range(q)
    BY <1>9 DEF Range
  <2>2. q = [i \in 1..Len(q) |-> q[i]] /\ Len(q) \in Nat
    BY <1>9
  <2> QED BY <2>1, <2>2
<1>11. \A x \in S : \E i \in DOMAIN q : q[i].seed = x /\ q[i].trace = Absent
  <2> SUFFICES ASSUME NEW x \in S
               PROVE  \E i \in DOMAIN q : q[i].seed = x /\ q[i].trace = Absent
    OBVIOUS
  <2>1. PICK i \in 1..n : seeds[i] = x
    BY <1>2
  <2>2. i \in DOMAIN q
    BY <1>2, <1>3, <1>9
  <2> QED BY <1>8, <1>9, <2>1, <2>2
<1> QED BY <1>1, <1>5, <1>10, <1>11


-----------------------------------------------------------------------------
(* Every seed of a side is still to be walked from or has a report; and if  *)
(* the report is ok it holds everything the seed reaches.                   *)
Waiting(n) == \E i \in DOMAIN jobs : jobs[i].seed = n /\ jobs[i].trace = Absent

Answered(s, n) ==
  \E i \in DOMAIN reports[s] :
    /\ reports[s][i].seed = n
    /\ reports[s][i].status = "ok" => \E o \in reports[s][i].taken : Reach(Knowledge[s], {n}) \subseteq o.nodes

Later == {"materialize", "open", "read", "failed", "done"}

Ended(s) == phase \in Later \/ (s = "new" /\ side = "old")

ServiceInv ==
  /\ LevelInv
  /\ jobs \in Seq(Range(jobs))
  /\ walking => Job.trace = Absent /\ query = Asks(side, Job.seed)
  /\ phase = "expand" => \A n \in Seeds(retrieved[side]) : Waiting(n) \/ Answered(side, n)
  /\ phase # "aborted" => \A s \in DOMAIN retrieved : Ended(s) => \A n \in Seeds(retrieved[s]) : Answered(s, n)

LEMMA SameReach ==
  ASSUME setup' = setup
  PROVE  /\ \A k, n : Reach(k, {n})' = Reach(k, {n})
         /\ \A s, n : Asks(s, n)' = Asks(s, n)
<1>1. policy' = policy
  BY DEF policy
<1> QED BY <1>1 DEF Reach, Asks

LEMMA StillAnswered ==
  ASSUME setup' = setup, NEW s, NEW n, Answered(s, n),
         \A i \in DOMAIN reports[s] : i \in DOMAIN reports'[s] /\ reports'[s][i] = reports[s][i]
  PROVE  Answered(s, n)'
BY SameReach DEF Answered

LEMMA SameAnswers ==
  ASSUME setup' = setup, reports' = reports, NEW s, NEW n, Answered(s, n)
  PROVE  Answered(s, n)'
BY StillAnswered

LEMMA ReportsGrow ==
  ASSUME Types, NEW status, NEW taken, Report(status, taken)
  PROVE  /\ \A s \in SidesOf : \A i \in DOMAIN reports[s] :
              i \in DOMAIN reports'[s] /\ reports'[s][i] = reports[s][i]
         /\ \E i \in DOMAIN reports'[side] :
              reports'[side][i] = [seed |-> Job.seed, trace |-> Job.trace, status |-> status, taken |-> taken]
<1>1. PICK r : r = [seed |-> Job.seed, trace |-> Job.trace, status |-> status, taken |-> taken]
  OBVIOUS
<1>2. reports' = [reports EXCEPT ![side] = Append(reports[side], r)]
  BY <1>1 DEF Report
<1>3. /\ side \in SidesOf /\ reports = [s \in SidesOf |-> reports[s]]
      /\ reports[side] \in Seq(Range(reports[side]))
  BY DEF Types
<1>4. reports'[side] = Append(reports[side], r) /\ \A s \in SidesOf : s # side => reports'[s] = reports[s]
  BY <1>2, <1>3
<1>5. PICK q, X : q = reports[side] /\ q \in Seq(X)
  BY <1>3
<1>6. /\ DOMAIN q = 1..Len(q) /\ Len(q) \in Nat
      /\ Append(q, r) = [i \in 1..(Len(q) + 1) |-> IF i = Len(q) + 1 THEN r ELSE q[i]]
  BY <1>5
<1>7. /\ \A i \in DOMAIN q : i \in DOMAIN Append(q, r) /\ Append(q, r)[i] = q[i]
      /\ Len(q) + 1 \in DOMAIN Append(q, r) /\ Append(q, r)[Len(q) + 1] = r
  BY <1>6
<1> QED BY <1>1, <1>4, <1>5, <1>7

LEMMA TailIs ==
  ASSUME jobs \in Seq(Range(jobs)), jobs # <<>>
  PROVE  /\ Tail(jobs) \in Seq(Range(Tail(jobs)))
         /\ \A i \in DOMAIN jobs : i = 1 \/ (i - 1 \in DOMAIN Tail(jobs) /\ Tail(jobs)[i - 1] = jobs[i])
<1>1. PICK q, X : q = jobs /\ q \in Seq(X) /\ q # <<>>
  OBVIOUS
<1>2. PICK n \in Nat : n = Len(q) /\ n >= 1 /\ DOMAIN q = 1..n
  BY <1>1
<1>3. PICK t : t = Tail(q) /\ t \in Seq(X) /\ Len(t) = n - 1 /\ \A i \in 1..(n - 1) : t[i] = q[i + 1]
  <2>1. Tail(q) \in Seq(X) /\ Len(Tail(q)) = n - 1
    BY <1>1, <1>2
  <2>2. \A i \in 1..(n - 1) : Tail(q)[i] = q[i + 1]
    BY <1>1, <1>2
  <2> QED BY <2>1, <2>2
<1>4. DOMAIN t = 1..(n - 1) /\ t = [i \in 1..(n - 1) |-> t[i]] /\ n - 1 \in Nat
  <2>1. n - 1 \in Nat
    BY <1>2
  <2>2. t \in Seq(X)
    BY <1>3
  <2>3. DOMAIN t = 1..Len(t) /\ t = [i \in 1..Len(t) |-> t[i]]
    BY <2>2
  <2>4. Len(t) = n - 1
    BY <1>3
  <2> QED BY <2>1, <2>3, <2>4
<1>5. t \in Seq(Range(t))
  <2>1. \A i \in 1..(n - 1) : t[i] \in Range(t)
    BY <1>4 DEF Range
  <2> QED BY <1>4, <2>1
<1>6. \A i \in 1..n : i = 1 \/ (i - 1 \in 1..(n - 1) /\ t[i - 1] = q[i])
  <2> SUFFICES ASSUME NEW i \in 1..n, i # 1
               PROVE  i - 1 \in 1..(n - 1) /\ t[i - 1] = q[i]
    OBVIOUS
  <2>1. i - 1 \in 1..(n - 1) /\ (i - 1) + 1 = i
    BY <1>2
  <2> QED BY <1>3, <2>1
<1> QED BY <1>1, <1>2, <1>3, <1>4, <1>5, <1>6

(* A job is answered by the report that ends it.                            *)
LEMMA JobServed ==
  ASSUME Types, OnlyAsked, ServiceInv, Running, UNCHANGED <<setup, phase, side, retrieved>>, LevelInv',
         NEW status, NEW taken, Report(status, taken),
         Job.trace = Absent /\ status = "ok" =>
           \E o \in taken : Reach(Knowledge[side], {Job.seed}) \subseteq o.nodes
  PROVE  ServiceInv'
<1>1. jobs' = Tail(jobs) /\ walking' = FALSE /\ jobs # <<>> /\ phase = "expand"
  BY DEF Report, Running
<1>2. jobs \in Seq(Range(jobs))
  BY DEF ServiceInv
<1>3. /\ jobs' \in Seq(Range(jobs'))
      /\ \A i \in DOMAIN jobs : i = 1 \/ (i - 1 \in DOMAIN jobs' /\ jobs'[i - 1] = jobs[i])
  BY <1>1, <1>2, TailIs
<1>4. /\ \A s \in SidesOf : \A i \in DOMAIN reports[s] :
           i \in DOMAIN reports'[s] /\ reports'[s][i] = reports[s][i]
      /\ \E i \in DOMAIN reports'[side] :
           reports'[side][i] = [seed |-> Job.seed, trace |-> Job.trace, status |-> status, taken |-> taken]
  BY ReportsGrow
<1>5. \A s \in SidesOf : \A n : Answered(s, n) => Answered(s, n)'
  BY <1>4, StillAnswered
<1>6. side \in SidesOf
  BY DEF Types
<1>7. ASSUME NEW n \in Seeds(retrieved[side])
      PROVE  Waiting(n)' \/ Answered(side, n)'
  <2>1. CASE Answered(side, n)
    BY <1>5, <1>6, <2>1
  <2>2. CASE Waiting(n)
    <3>1. PICK i \in DOMAIN jobs : jobs[i].seed = n /\ jobs[i].trace = Absent
      BY <2>2 DEF Waiting
    <3>2. CASE i = 1
      <4>1. Job.seed = n /\ Job.trace = Absent
        BY <3>1, <3>2 DEF Job
      <4>2. PICK j \in DOMAIN reports'[side] : /\ reports'[side][j].seed = n
                                              /\ reports'[side][j].status = status
                                              /\ reports'[side][j].taken = taken
        BY <1>4, <4>1
      <4>3. status = "ok" => \E o \in taken : Reach(Knowledge[side], {n})' \subseteq o.nodes
        BY <4>1, SameReach
      <4> QED BY <4>2, <4>3 DEF Answered
    <3>3. CASE i # 1
      BY <1>3, <3>1, <3>3 DEF Waiting
    <3> QED BY <3>2, <3>3
  <2> QED BY <1>1, <2>1, <2>2 DEF ServiceInv
<1>8. ASSUME NEW s \in DOMAIN retrieved, Ended(s)', NEW n \in Seeds(retrieved[s])
      PROVE  Answered(s, n)'
  <2>1. s \in SidesOf /\ Ended(s)
    BY <1>8 DEF OnlyAsked, Ended
  <2>2. Answered(s, n)
    BY <1>1, <2>1 DEF ServiceInv
  <2> QED BY <1>5, <2>1, <2>2
<1> QED BY <1>1, <1>3, <1>7, <1>8 DEF ServiceInv


(* A walk that is finished and found ok has been where its seed leads.      *)
LEMMA FinishServes ==
  ASSUME ContextInv, FactsInv, ServiceInv, FinishWalk
  PROVE  ServiceInv'
<1>1. /\ walking /\ AtRest /\ UNCHANGED <<setup, phase, side, retrieved>> /\ UNCHANGED walk
      /\ Settle(held, perSeed[Job.seed], Walked,
                IF stopped # "none" THEN "truncated" ELSE IF visits = <<>> THEN "unresolved" ELSE "ok")
  BY DEF FinishWalk, mapping
<1>2. phase = "expand" /\ jobs # <<>> /\ WalkRuns /\ Types
  BY <1>1, WalkingJobs
<1>3. LevelInv /\ query = Asks(side, Job.seed) /\ LevelInv'
  BY <1>1, LevelsStay DEF ServiceInv
<1>4. PICK o : o = Walked
  OBVIOUS
<1>5. o.nodes = Seen
  BY <1>4 DEF Walked
<1>6. PICK good : good = (o.files \subseteq kb.hashed /\ ~Exceeded(held, perSeed[Job.seed], o))
  OBVIOUS
<1>7. PICK status, taken :
        /\ status = (IF ~ o.files \subseteq kb.hashed THEN "unresolved"
                     ELSE IF ~good THEN "truncated"
                     ELSE IF stopped # "none" THEN "truncated" ELSE IF visits = <<>> THEN "unresolved" ELSE "ok")
        /\ taken = IF good THEN {o} ELSE {}
  OBVIOUS
<1>8. Report(status, taken)
  BY <1>1, <1>4, <1>6, <1>7 DEF Settle
<1>9. ASSUME status = "ok"
      PROVE  \E p \in taken : Reach(Knowledge[side], {Job.seed}) \subseteq p.nodes
  <2>1. good /\ stopped = "none" /\ visits # <<>>
    BY <1>7, <1>9
  <2>2. side \in SidesOf
    BY <1>2 DEF Types
  <2>3. Reach(Knowledge[side], {Job.seed}) \subseteq Seen
    BY <1>1, <1>2, <1>3, <2>1, <2>2, WalkReaches
  <2> QED BY <1>5, <1>7, <2>1, <2>3
<1> QED BY <1>1, <1>2, <1>3, <1>8, <1>9, JobServed DEF FactsInv, Running

(* The other jobs promise nothing, or are traces.                           *)
LEMMA TraceIsNoSeed ==
  ASSUME Types, Tracing
  PROVE  Job.trace # Absent
BY TraceAssumption DEF Types, SidesOf, Tracing

LEMMA JobsServe ==
  ASSUME ContextInv, FactsInv, ServiceInv, SkipJob \/ DisabledTrace \/ FailJob \/ RunTrace
  PROVE  ServiceInv'
<1>1. UNCHANGED <<setup, phase, side, retrieved>> /\ UNCHANGED walk /\ Running
  BY DEF SkipJob, DisabledTrace, FailJob, RunTrace, mapping
<1>2. Types /\ OnlyAsked /\ LevelInv'
  BY <1>1, LevelsStay, WalkingJobs DEF ServiceInv, FactsInv
<1>3. CASE SkipJob \/ DisabledTrace \/ FailJob
  <2>1. PICK status \in {"truncated", "unsupported", "failure"} : Report(status, {})
    BY <1>3 DEF SkipJob, DisabledTrace, FailJob
  <2>2. status # "ok"
    BY <2>1
  <2> QED BY <1>1, <1>2, <2>1, <2>2, JobServed
<1>4. CASE RunTrace
  <2>1. PICK status, taken : Report(status, taken)
    <3>1. CASE TraceRefused # "no"
      BY <1>4, <3>1 DEF RunTrace
    <3>2. CASE TraceRefused = "no"
      BY <1>4, <3>2 DEF RunTrace, Settle
    <3> QED BY <3>1, <3>2
  <2>2. Job.trace # Absent
    BY <1>2, <1>4, TraceIsNoSeed DEF RunTrace
  <2> QED BY <1>1, <1>2, <2>1, <2>2, JobServed
<1> QED BY <1>3, <1>4

(* Steps that leave the jobs, the reports and the results alone.            *)
LEMMA QuietServes ==
  ASSUME ServiceInv, LevelInv', UNCHANGED <<setup, side, retrieved, jobs, reports>>,
         walking' => Job.trace = Absent /\ query' = Asks(side, Job.seed),
         \/ phase' = phase
         \/ phase' = "aborted"
         \/ phase \in Later /\ phase' \in Later
  PROVE  ServiceInv'
<1>1. \A s, n : Answered(s, n) => Answered(s, n)'
  BY SameAnswers
<1>2. \A n : Waiting(n) => Waiting(n)'
  BY DEF Waiting
<1>3. jobs' \in Seq(Range(jobs')) /\ Job' = Job
  BY DEF ServiceInv, Job
<1>4. walking' => Job'.trace = Absent /\ query' = Asks(side, Job.seed)'
  BY <1>3, SameReach
<1>5. phase' = "expand" => \A n \in Seeds(retrieved[side]) : Waiting(n)' \/ Answered(side, n)'
  BY <1>1, <1>2 DEF ServiceInv, Later
<1>6. phase' # "aborted" => \A s \in DOMAIN retrieved : Ended(s)' => \A n \in Seeds(retrieved[s]) : Answered(s, n)'
  <2> SUFFICES ASSUME phase' # "aborted", NEW s \in DOMAIN retrieved, Ended(s)', NEW n \in Seeds(retrieved[s])
               PROVE  Answered(s, n)'
    OBVIOUS
  <2>1. Ended(s) /\ phase # "aborted"
    BY DEF Ended, Later
  <2> QED BY <1>1, <2>1 DEF ServiceInv
<1> QED BY <1>3, <1>4, <1>5, <1>6 DEF ServiceInv

LEMMA WalksServe ==
  ASSUME ContextInv, ServiceInv, StartWalk \/ Walk
  PROVE  ServiceInv'
<1>1. CASE StartWalk
  <2>1. PICK q : q = Asks(side, Job.seed)
    OBVIOUS
  <2>2. Traverse(q) /\ Job.trace = Absent /\ UNCHANGED <<setup, side, retrieved, jobs, reports, phase>>
    BY <1>1, <2>1 DEF StartWalk, Asks, kb, mapping
  <2>3. LevelInv' /\ query' = q
    BY <2>2, LevelsBegin DEF Traverse
  <2> QED BY <2>1, <2>2, <2>3, QuietServes
<1>2. CASE Walk
  <2>1. walking /\ Step /\ UNCHANGED <<setup, side, retrieved, jobs, reports, phase>>
    BY <1>2 DEF Walk, expansion, mapping
  <2>2. WalkInv
    <3>1. CASE NoVisits
      <4>1. Len(visits) = 0
        BY <3>1 DEF NoVisits
      <4>2. ~Take
        BY <3>1, <4>1 DEF NoVisits, Take
      <4>3. \A e \in Edges : ~Refuse(e) /\ ~Admit(e)
        BY <3>1 DEF NoVisits, Refuse, Admit, First
      <4> QED BY <2>1, <4>2, <4>3 DEF Step
    <3> QED BY <3>1, WalkingJobs DEF WalkRuns
  <2>3. LevelInv'
    BY <2>1, <2>2, StepKeepsLevels DEF ServiceInv
  <2>4. query' = query
    BY <2>1 DEF Step, Take, Refuse, Admit
  <2> QED BY <2>1, <2>3, <2>4, QuietServes DEF ServiceInv
<1> QED BY <1>1, <1>2

(* A side begins with a job for each of its seeds, and is done when none is *)
(* left.                                                                    *)
LEMMA BeginServes ==
  ASSUME ContextInv, FactsInv, ServiceInv, BeginSide
  PROVE  ServiceInv'
<1>1. /\ phase = "begin" /\ UNCHANGED <<setup, side, retrieved, reports, walking>> /\ UNCHANGED walk
      /\ side \in DOMAIN retrieved
      /\ (phase' = "expand" /\ jobs' = JobsOf(side)) \/ (phase' = "aborted" /\ jobs' = jobs)
  BY DEF BeginSide, mapping
<1>2. LevelInv' /\ Types /\ ~walking
  BY <1>1, LevelsStay, WalkingJobs DEF ServiceInv
<1>3. CASE phase' = "aborted" /\ jobs' = jobs
  BY <1>1, <1>2, <1>3 DEF ServiceInv
<1>4. CASE phase' = "expand" /\ jobs' = JobsOf(side)
  <2>1. side \in SidesOf
    BY <1>2 DEF Types
  <2>2. Seeds(retrieved[side]) \subseteq Nodes
    <3>1. PICK r : r = retrieved[side]
      OBVIOUS
    <3>2. /\ r.request = RequestOf(side) /\ RequestOf(side).queries \in SUBSET AllQueries
          /\ \A c \in r.candidates : \A f \in c.facts :
               f.identity = Absent \/ \E q \in RequestOf(side).queries : f.identity = q.seed
      BY <1>1, <3>1 DEF FactsInv, OnlyAsked
    <3>3. \A q \in RequestOf(side).queries : q.seed \in Nodes
      BY <3>2 DEF AllQueries
    <3> QED BY <3>1, <3>2, <3>3 DEF Seeds
  <2>3. /\ jobs' \in Seq(Range(jobs'))
        /\ \A n \in Seeds(retrieved[side]) : \E i \in DOMAIN jobs' : jobs'[i].seed = n /\ jobs'[i].trace = Absent
    BY <1>2, <1>4, <2>1, <2>2, JobsAre
  <2>4. \A n \in Seeds(retrieved[side]) : Waiting(n)'
    BY <1>1, <2>3 DEF Waiting
  <2>5. ASSUME NEW s \in DOMAIN retrieved, Ended(s)', NEW n \in Seeds(retrieved[s])
        PROVE  Answered(s, n)'
    <3>1. Ended(s)
      BY <1>1, <1>4, <2>5 DEF Ended, Later
    <3>2. Answered(s, n)
      BY <1>1, <3>1 DEF ServiceInv
    <3> QED BY <1>1, <3>2, SameAnswers
  <2> QED BY <1>1, <1>2, <1>4, <2>3, <2>4, <2>5 DEF ServiceInv
<1> QED BY <1>1, <1>3, <1>4

LEMMA EndServes ==
  ASSUME ContextInv, FactsInv, ServiceInv, LeaveOut \/ SideDone
  PROVE  ServiceInv'
<1>1. /\ UNCHANGED <<setup, retrieved, reports, walking, jobs>> /\ UNCHANGED walk
      /\ \/ side = "new" /\ phase' = "begin" /\ side' = "old"
         \/ side # "new" /\ phase' = "materialize" /\ side' = side
      /\ \/ phase = "begin" /\ side \notin DOMAIN retrieved
         \/ phase = "expand" /\ jobs = <<>>
  BY DEF LeaveOut, SideDone, NextSide, mapping, expansion
<1>2. LevelInv' /\ Types /\ ~walking
  BY <1>1, LevelsStay, WalkingJobs DEF ServiceInv
<1>3. side \in {"old", "new"} /\ \A s \in DOMAIN retrieved : s \in {"old", "new"}
  BY <1>2 DEF Types, FactsInv, OnlyAsked, SidesOf
<1>4. ASSUME NEW s \in DOMAIN retrieved, Ended(s)', NEW n \in Seeds(retrieved[s])
      PROVE  Answered(s, n)'
  <2>1. CASE s = side
    <3>1. phase = "expand" /\ jobs = <<>>
      BY <1>1, <2>1
    <3>2. ~Waiting(n)
      BY <3>1 DEF Waiting
    <3>3. Answered(s, n)
      BY <2>1, <3>1, <3>2 DEF ServiceInv
    <3> QED BY <1>1, <3>3, SameAnswers
  <2>2. CASE s # side
    <3>1. s = "new" /\ side = "old"
      BY <1>1, <1>3, <1>4, <2>2 DEF Ended, Later
    <3>2. Answered(s, n)
      BY <1>1, <3>1 DEF ServiceInv, Ended
    <3> QED BY <1>1, <3>2, SameAnswers
  <2> QED BY <2>1, <2>2
<1>5. jobs' \in Seq(Range(jobs'))
  BY <1>1 DEF ServiceInv
<1> QED BY <1>1, <1>2, <1>4, <1>5 DEF ServiceInv

(* Before the first side nothing is owed.                                   *)
LEMMA EarlyServes ==
  ASSUME ContextInv, ServiceInv, Map \/ Retrieve
  PROVE  ServiceInv'
<1>1. /\ UNCHANGED <<setup, side, jobs, walking>> /\ UNCHANGED walk
      /\ phase \in {"map", "retrieve"} /\ phase' \in {"retrieve", "begin"}
  BY DEF Map, Retrieve, expansion
<1>2. LevelInv' /\ ~walking /\ side = "new"
  BY <1>1, LevelsStay DEF ServiceInv, ContextInv, Stage
<1>3. \A s : ~Ended(s)'
  BY <1>1, <1>2 DEF Ended, Later
<1>4. jobs' \in Seq(Range(jobs'))
  BY <1>1 DEF ServiceInv
<1> QED BY <1>1, <1>2, <1>3, <1>4 DEF ServiceInv

LEMMA OthersServe ==
  ASSUME ContextInv, ServiceInv, Abort \/ Materialize \/ Surroundings \/ UNCHANGED vars
  PROVE  ServiceInv'
<1>1. UNCHANGED <<setup, side, retrieved, jobs, walking, reports>> /\ UNCHANGED walk
  BY DEF Abort, Materialize, Extract, OpenScopes, Read, CloseScopes, Withdraw, Surroundings, Edit, vars,
         mapping, expansion
<1>2. \/ phase' = phase
      \/ phase' = "aborted"
      \/ phase \in Later /\ phase' \in Later
  BY DEF Abort, Materialize, Extract, OpenScopes, Read, CloseScopes, Withdraw, Surroundings, Edit, vars, Later
<1>3. LevelInv' /\ (walking' => Job.trace = Absent /\ query' = Asks(side, Job.seed))
  BY <1>1, LevelsStay DEF ServiceInv, walk
<1> QED BY <1>1, <1>2, <1>3, QuietServes

LEMMA InitServes == Init => ServiceInv
<1> SUFFICES ASSUME Init
             PROVE  ServiceInv
  OBVIOUS
<1>1. /\ visits = <<>> /\ next = 0 /\ query = NoWalk /\ jobs = <<>> /\ walking = FALSE
      /\ phase = "map" /\ retrieved = <<>>
  BY DEF Init, ExpansionInit
<1>2. jobs \in Seq(Range(jobs)) /\ DOMAIN retrieved = {}
  BY <1>1
<1>3. query.seed \notin query.nodes /\ Len(visits) = 0
  BY <1>1 DEF NoWalk
<1>4. LevelInv
  BY <1>1, <1>3 DEF LevelInv, Seeded, ByDepth, Frontier, Near
<1> QED BY <1>1, <1>2, <1>4 DEF ServiceInv

THEOREM ServiceInductive == Spec => []ServiceInv
<1>1. ContextInv /\ FactsInv /\ ServiceInv /\ [Next]_vars => ServiceInv'
  <2> SUFFICES ASSUME ContextInv, FactsInv, ServiceInv, [Next]_vars
               PROVE  ServiceInv'
    OBVIOUS
  <2>1. CASE Expand
    BY <2>1, BeginServes, EndServes, JobsServe, WalksServe, FinishServes DEF Expand
  <2>2. CASE Map \/ Retrieve
    BY <2>2, EarlyServes
  <2>3. CASE Abort \/ Materialize \/ Surroundings \/ UNCHANGED vars
    BY <2>3, OthersServe
  <2> QED BY <2>1, <2>2, <2>3 DEF Next, Pipeline
<1> QED BY <1>1, InitServes, ContextInductive, FactsInductive, PTL DEF Spec

(* A symbol whose stored extent the change touches is asked for, when all   *)
(* ranges of its side were mapped.                                          *)
LEMMA TouchedSought ==
  ASSUME Types, MappingDone, OnlyAsked, NEW s \in DOMAIN retrieved, s \in setup.available, Mapped(s),
         NEW y \in Touched(s)
  PROVE  y \in Seeds(retrieved[s])
<1>1. s \in SidesOf
  BY DEF OnlyAsked
<1>2. PICK k : k = Knowledge[s]
  OBVIOUS
<1>3. y \in k.symbols /\ \E a \in {anchors[j] : j \in {x \in DOMAIN anchors :
                   anchors[x].side = s /\ anchors[x].path # Absent /\ anchors[x].range # Absent}} : Touching(k, y, a) # {}
  BY <1>2 DEF Touched
<1>4. PICK i \in DOMAIN anchors :
        anchors[i].side = s /\ anchors[i].path # Absent /\ Touching(k, y, anchors[i]) # {}
  BY <1>3
<1>5. PICK a : a = anchors[i]
  OBVIOUS
<1>6. PICK x \in {k.declaration[y], k.definition[y]} \ {Absent} :
        x.path = a.path /\ ExtentRelation(a.range, x.at) # "none"
  BY <1>4, <1>5 DEF Touching
<1>7. outcomes[i] = MapAnchor(k, "none", anchors, i)
  BY <1>2, <1>4 DEF MappingDone, Issue
<1>8. outcomes[i].status \in {"mapped", "not_applicable"} /\ "invalid_range" \notin outcomes[i].notes
  BY <1>4 DEF Mapped
<1>9. PICK out : out = outcomes[i] /\ out = Match(k, a.path, a.range)
  BY <1>4, <1>5, <1>7, <1>8, MappedByMatch
<1>10. out.status = "mapped"
  <2>1. out.status # "not_applicable"
    BY <1>9 DEF Match, Outcome
  <2> QED BY <1>8, <1>9, <2>1
<1>11. /\ IsFiniteSet(k.symbols) /\ \A z \in k.symbols : SymbolRank[z] \in Nat
       /\ k.symbols \subseteq Nodes
  <2>1. k.symbols \subseteq Nodes
    BY <1>1, <1>2, KnowledgeAssumption DEF SidesOf
  <2>2. IsFiniteSet(k.symbols)
    BY <2>1, EdgesAssumption, FS_Subset
  <2> QED BY <2>1, <2>2, OrderAssumption
<1>12. y \in out.symbols
  <2>1. y \in Match(k, a.path, a.range).symbols
    BY <1>3, <1>6, <1>8, <1>9, <1>10, <1>11, MatchFinds
  <2> QED BY <1>9, <2>1
<1>13. \E q \in RequestOf(s).queries : q.seed = y
  <2>1. PICK seeds : seeds = UNION {outcomes[j].symbols : j \in {x1 \in DOMAIN anchors : anchors[x1].side = s}}
    OBVIOUS
  <2>2. RequestOf(s).queries = [channel : Channels, seed : seeds]
    BY <2>1 DEF RequestOf, Request
  <2>3. y \in seeds
    BY <1>4, <1>9, <1>12, <2>1
  <2>4. PICK c \in Channels : TRUE
    BY RequestAssumption
  <2>5. [channel |-> c, seed |-> y] \in RequestOf(s).queries
    BY <2>2, <2>3, <2>4
  <2> QED BY <2>5
<1>14. PICK r : r = retrieved[s] /\ r.request = RequestOf(s)
  BY DEF OnlyAsked
<1>15. y \in {q.seed : q \in r.request.queries}
  BY <1>13, <1>14
<1> QED BY <1>14, <1>15 DEF Seeds

(* Nothing that a change can reach is left out in silence: if every changed *)
(* range of a side was mapped without a doubt and every report of its       *)
(* expansion is ok, the observations hold every node in reach, within the   *)
(* depth, the direction and the available relations, of a symbol whose      *)
(* stored extent the change touches; whatever the graphs, the budgets, the  *)
(* faults and the edits.                                                    *)
THEOREM NothingLost == Spec => []NothingLostInSilence
<1>1. ContextInv /\ FactsInv /\ ServiceInv => NothingLostInSilence
  <2> SUFFICES ASSUME ContextInv, FactsInv, ServiceInv, phase = "done",
                      NEW s \in setup.available, Mapped(s),
                      \A i \in DOMAIN reports[s] : reports[s][i].status = "ok",
                      NEW x \in Reach(Knowledge[s], Touched(s))
               PROVE  x \in UNION {o.nodes : o \in Observed(s)}
    BY DEF NothingLostInSilence
  <2>1. Types /\ MappingDone /\ OnlyAsked /\ DOMAIN retrieved = setup.available
    BY DEF ContextInv, FactsInv
  <2>2. s \in SidesOf
    BY <2>1 DEF OnlyAsked
  <2>3. PICK y \in Touched(s) : x \in Reach(Knowledge[s], {y})
    BY <2>1, <2>2, ReachFromOne
  <2>4. y \in Seeds(retrieved[s])
    BY <2>1, <2>3, TouchedSought
  <2>5. Answered(s, y)
    BY <2>1, <2>4 DEF ServiceInv, Ended, Later
  <2>6. PICK i \in DOMAIN reports[s] : \E o \in reports[s][i].taken : Reach(Knowledge[s], {y}) \subseteq o.nodes
    BY <2>5 DEF Answered
  <2>7. PICK o \in reports[s][i].taken : x \in o.nodes
    BY <2>3, <2>6
  <2>8. o \in Observed(s)
    BY <2>7 DEF Observed
  <2> QED BY <2>7, <2>8
<1> QED BY <1>1, ContextInductive, FactsInductive, ServiceInductive, PTL
=============================================================================

---------------------------- MODULE ContextExpansion ----------------------------
(***************************************************************************)
(* From a change to the observations a review context is made of:          *)
(* ChangedRangeMapper.retrieve (retrieval/change_mapping.py) and           *)
(* GraphExpander.expand_change (retrieval/expansion.py).  The changed      *)
(* ranges of both sides are mapped to symbols, each side's candidates are  *)
(* retrieved, and from the seeds both give the repository graph is walked  *)
(* and traced: the new side first, the old side with what is left of the   *)
(* global budgets.                                                         *)
(*                                                                         *)
(* Every stage runs inside read scopes of the two snapshot sessions.  A    *)
(* scope validates its workspace when it is entered and when it is left;   *)
(* an edit that is there then raises SnapshotReadError and no result of    *)
(* the stage escapes.                                                      *)
(***************************************************************************)
EXTENDS GraphTraversal, ChangeMapping

CONSTANTS
  Channels,      \* the channels of the request
  KeyRank, QueryRank, NodeRank, TraceRank,   \* the orders of keys, queries, identities, traces
  Knowledge,     \* [side -> the snapshot of that side]
  TraceAnswer,   \* what a P2 trace finds: [request -> observation]
  Setups         \* inputs: [files, available, traces, limits, faulty, policy],
                 \* and how many edits and failures the run allows them

(* Change and its records validate themselves when they are made, and a     *)
(* change has two sides.                                                    *)
ASSUME ChangeAssumption ==
  \A s \in Setups : ChangeValid(s.files) /\ s.available \subseteq {"old", "new"}

(* MemoryGraph refuses an edge without its nodes, ExpansionPolicy a bound   *)
(* below zero; the identity of a symbol is one a node can have.             *)
ASSUME KnowledgeAssumption ==
  \A s \in {"old", "new"} :
    /\ Knowledge[s].nodes \subseteq Nodes /\ Knowledge[s].edges \subseteq Edges
    /\ Closed(Knowledge[s]) /\ Knowledge[s].symbols \subseteq Nodes

(* A request names some channels, and its bounds are positive.              *)
ASSUME RequestAssumption ==
  /\ Channels # {} /\ Channels \subseteq {"symbol", "declaration", "definition", "callers", "callees", "graph_node"}
  /\ \A l \in {s.limits : s \in Setups} :
       {l.queries, l.calls, l.results, l.records, l.perChannel, l.total} \subseteq Nat \ {0}

(* Different identities, queries and fact keys sort differently.            *)
FactKeys == {"symbol", "declaration", "definition", "node", "call"} \X Nodes \X Nodes

ASSUME OrderAssumption ==
  /\ \A m, n \in Nodes :
       /\ NodeRank[n] \in Nat /\ SymbolRank[n] \in Nat
       /\ NodeRank[m] = NodeRank[n] \/ SymbolRank[m] = SymbolRank[n] => m = n
  /\ \A p, q \in Channels \X Nodes : QueryRank[q] \in Nat /\ (QueryRank[p] = QueryRank[q] => p = q)
  /\ \A j, k \in FactKeys : KeyRank[k] \in Nat /\ (KeyRank[j] = KeyRank[k] => j = k)

ASSUME PolicyAssumption ==
  \A p \in {s.policy : s \in Setups} :
    /\ p.maxQueries \in Nat /\ p.maxNodes \in Nat /\ p.maxEdges \in Nat /\ p.maxPaths \in Nat
    /\ p.nodesPerSeed \in Nat \ {0} /\ p.edgesPerSeed \in Nat /\ p.maxDepth \in Nat
    /\ p.direction \in Directions /\ p.relations \subseteq Relations

ASSUME TraceAssumption ==
  \A s \in Setups : \A at \in {"old", "new"} :
    /\ IsFiniteSet(s.traces[at]) /\ Absent \notin s.traces[at]
    /\ \A t \in s.traces[at] : /\ TraceAnswer[t].nodes \subseteq Nodes /\ TraceAnswer[t].edges \subseteq Edges
                              /\ TraceAnswer[t].paths \in Nat

VARIABLES
  setup,      \* the change, the sessions at hand and every configured bound
  phase,      \* map, retrieve, begin, expand, materialize, open, read, failed, done, aborted
  outcomes,   \* the RangeMapping of every anchor
  retrieved,  \* the CandidateRetrievalResult of each side that has one
  side,       \* the side being expanded
  jobs,       \* seeds and trace requests still to be run on that side
  walking,    \* whether the job at the head is in the middle of its walk
  held,       \* nodes, edges, paths and queries of that side so far
  perSeed,    \* the same for each seed
  reports,    \* [side -> its ExpansionReports]
  spent,      \* [side -> held when the side was done]
  edited,     \* <<side, path>>: workspace files that differ from the snapshot
  edits, faults

expansion == <<jobs, walking, held, perSeed, reports>>
mapping == <<outcomes, retrieved>>
world == <<edited, edits, faults>>

Retrieval == INSTANCE CandidateRetrieval WITH Bounds <- setup.limits, Faulty <- setup.faulty

anchors == ChangedAnchors(setup.files)
policy == setup.policy
kb == Knowledge[side]

Drifted(sides) == \E e \in edited : e[1] \in sides \intersect setup.available

None == [nodes |-> {}, edges |-> {}, paths |-> 0, queries |-> 0]
NoWalk == [nodes |-> {}, edges |-> {}, seed |-> CHOOSE n \in Nodes : TRUE, direction |-> "both",
           relations |-> {}, maxDepth |-> 0, maxNodes |-> 1, maxEdges |-> 0]

ExpansionInit ==
  /\ setup \in Setups
  /\ phase = "map" /\ outcomes = <<>> /\ retrieved = <<>>
  /\ side = "new" /\ jobs = <<>> /\ walking = FALSE
  /\ held = None /\ perSeed = [n \in Nodes |-> None]
  /\ reports = [s \in {"old", "new"} |-> <<>>]
  /\ spent = [s \in {"old", "new"} |-> None]
  /\ edited = {} /\ edits = 0 /\ faults = 0
  /\ query = NoWalk /\ visits = <<>> /\ next = 0 /\ todo = {} /\ edges = {} /\ stopped = "none"

-----------------------------------------------------------------------------
(* A scope over `sides' that finds its workspace edited ends the operation. *)
Abort ==
  /\ \/ phase \in {"map", "retrieve"} /\ Drifted({"old", "new"})
     \/ phase = "begin" /\ Drifted(IF side = "new" THEN {"old", "new"} ELSE {"old"})
     \/ phase = "expand" /\ jobs = <<>> /\ Drifted(IF side = "new" THEN {"new"} ELSE {"old", "new"})
  /\ phase' = "aborted"
  /\ UNCHANGED <<walk, setup, mapping, side, expansion, spent, world>>

(* ChangedRangeMapper.map: a side without a session is an issue of all of   *)
(* its anchors, never a fallback to the other side.                         *)
Issue(s) == IF s \in setup.available THEN "none" ELSE "session_absent"

Map ==
  /\ phase = "map" /\ ~Drifted({"old", "new"})
  /\ outcomes' = [i \in DOMAIN anchors |->
       MapAnchor(Knowledge[anchors[i].side], Issue(anchors[i].side), anchors, i)]
  /\ phase' = "retrieve"
  /\ UNCHANGED <<walk, setup, retrieved, side, expansion, spent, world>>

(* ChangedRangeMapper.retrieve: one request per side that has a session.    *)
RequestOf(s) == Request(anchors, outcomes, s, Channels)

Retrieve ==
  /\ phase = "retrieve" /\ ~Drifted({"old", "new"})
  /\ retrieved' = [s \in setup.available |-> Retrieval!Retrieve(Knowledge[s], RequestOf(s))]
  /\ phase' = "begin"
  /\ UNCHANGED <<walk, setup, outcomes, side, expansion, spent, world>>

-----------------------------------------------------------------------------
(* Only what the candidates prove.                                          *)
SeedsOfCandidates(result) == {f.identity : f \in UNION {c.facts : c \in result.candidates}} \ {Absent}

(* expansion_seeds: the identities the candidates prove, and those the      *)
(* queries ask for even when a retrieval limit cut their candidates.        *)
Seeds(result) ==
  ({f.identity : f \in UNION {c.facts : c \in result.candidates}} \ {Absent})
    \union {q.seed : q \in result.request.queries}

SeedsInOrder(S) == Ordered(S, LAMBDA n : NodeRank[n])
TracesInOrder(S) == Ordered(S, LAMBDA t : TraceRank[t])

JobsOf(s) ==
  LET seeds == SeedsInOrder(Seeds(retrieved[s]))
      traces == TracesInOrder(setup.traces[s])
  IN  [i \in DOMAIN seeds |-> [seed |-> seeds[i], trace |-> Absent]]
        \o [i \in DOMAIN traces |-> [seed |-> traces[i].seed, trace |-> traces[i]]]

(* GraphExpander.expand begins a side; a side without candidates is left    *)
(* out, and a trace whose seed nothing proved is refused.                   *)
BeginSide ==
  /\ phase = "begin" /\ side \in DOMAIN retrieved
  /\ ~Drifted(IF side = "new" THEN {"old", "new"} ELSE {"old"})
  /\ IF \A t \in setup.traces[side] : t.seed \in Seeds(retrieved[side])
     THEN phase' = "expand" /\ jobs' = JobsOf(side)
     ELSE phase' = "aborted" /\ UNCHANGED jobs
  /\ held' = None /\ perSeed' = [n \in Nodes |-> None]
  /\ UNCHANGED <<walk, setup, mapping, side, walking, reports, spent, world>>

NextSide == IF side = "new" THEN phase' = "begin" /\ side' = "old"
                            ELSE phase' = "materialize" /\ UNCHANGED side

LeaveOut ==
  /\ phase = "begin" /\ side \notin DOMAIN retrieved
  /\ ~Drifted({"old", "new"})
  /\ NextSide
  /\ UNCHANGED <<walk, setup, mapping, expansion, spent, world>>

(* A budget that knows nothing of the other side.                           *)
BudgetWhole == [nodes |-> policy.maxNodes, edges |-> policy.maxEdges,
                paths |-> policy.maxPaths, queries |-> policy.maxQueries]

(* expand_change hands the old side what the new side left of each budget.  *)
Budget == [nodes |-> policy.maxNodes - Cardinality(spent["new"].nodes),
           edges |-> policy.maxEdges - Cardinality(spent["new"].edges),
           paths |-> policy.maxPaths - spent["new"].paths,
           queries |-> policy.maxQueries - spent["new"].queries]

Job == jobs[1]
Running == phase = "expand" /\ jobs # <<>>
Tracing == Job.trace \in setup.traces[side]

Limited == \/ held.queries >= Budget.queries
           \/ perSeed[Job.seed].queries >= policy.queriesPerSeed

Asked(h) == [h EXCEPT !.queries = @ + 1]
WithObservation(h, o) ==
  [h EXCEPT !.nodes = @ \union o.nodes, !.edges = @ \union o.edges, !.paths = @ + o.paths]

(* `taken' holds the observation of the report, if it has one.               *)
Report(status, taken) ==
  /\ reports' = [reports EXCEPT ![side] =
       Append(@, [seed |-> Job.seed, trace |-> Job.trace, status |-> status, taken |-> taken])]
  /\ jobs' = Tail(jobs)
  /\ walking' = FALSE

(* The six limits an observation is held to, all or nothing.                *)
Over(h, o, nodeCap, edgeCap, pathCap) ==
  LET after == WithObservation(h, o)
  IN  \/ Cardinality(after.nodes) > nodeCap
      \/ Cardinality(after.edges) > edgeCap
      \/ after.paths > pathCap

Exceeded(h, own, o) ==
  \/ Over(h, o, Budget.nodes, Budget.edges, Budget.paths)
  \/ Over(own, o, policy.nodesPerSeed, policy.edgesPerSeed, policy.pathsPerSeed)

(* What becomes of an observation, h and own being the counters its query   *)
(* has already been charged to.                                             *)
Settle(h, own, o, status) ==
  LET admitted == o.files \subseteq kb.hashed /\ ~Exceeded(h, own, o)
  IN  /\ held' = IF admitted THEN WithObservation(h, o) ELSE h
      /\ perSeed' = [perSeed EXCEPT ![Job.seed] = IF admitted THEN WithObservation(own, o) ELSE own]
      /\ Report(IF ~ o.files \subseteq kb.hashed THEN "unresolved" ELSE IF ~admitted THEN "truncated" ELSE status,
                IF admitted THEN {o} ELSE {})

Charge == held' = Asked(held) /\ perSeed' = [perSeed EXCEPT ![Job.seed] = Asked(@)]

SkipJob ==
  /\ Running /\ ~walking /\ Limited
  /\ Report("truncated", {})
  /\ UNCHANGED <<walk, setup, phase, mapping, side, held, perSeed, spent, world>>

DisabledTrace ==
  /\ Running /\ ~Limited /\ Tracing /\ Job.trace.family \notin policy.families
  /\ Report("unsupported", {})
  /\ UNCHANGED <<walk, setup, phase, mapping, side, held, perSeed, spent, world>>

FailJob ==
  /\ Running /\ ~walking /\ ~Limited /\ faults < setup.faults
  /\ Tracing => Job.trace.family \in policy.families
  /\ faults' = faults + 1
  /\ Charge /\ Report("failure", {})
  /\ UNCHANGED <<walk, setup, phase, mapping, side, spent, edited, edits>>

StartWalk ==
  /\ Running /\ ~walking /\ ~Limited /\ Job.trace = Absent
  /\ Charge /\ walking' = TRUE
  /\ Traverse([nodes |-> kb.nodes, edges |-> kb.edges, seed |-> Job.seed, direction |-> policy.direction,
               relations |-> policy.relations \ kb.unavailable, maxDepth |-> policy.maxDepth,
               maxNodes |-> policy.nodesPerSeed, maxEdges |-> policy.edgesPerSeed])
  /\ UNCHANGED <<setup, phase, mapping, side, jobs, reports, spent, world>>

Walk ==
  /\ walking /\ Step
  /\ UNCHANGED <<setup, phase, mapping, side, expansion, spent, world>>

(* The paths of an observation: the sources of its nodes and of its edges.  *)
Walked == [nodes |-> Seen, edges |-> edges, paths |-> 0,
           files |-> {x.path : x \in {kb.evidence[e] : e \in edges} \union UNION {kb.anchors[n] : n \in Seen}}]

FinishWalk ==
  /\ walking /\ AtRest
  /\ Settle(held, perSeed[Job.seed], Walked,
            IF stopped # "none" THEN "truncated" ELSE IF visits = <<>> THEN "unresolved" ELSE "ok")
  /\ UNCHANGED <<walk, setup, phase, mapping, side, spent, world>>

(* A trace asks for identities the retrieval proved and the graph holds, a  *)
(* component of the domain catalogue, and a snapshot all of whose sources   *)
(* are fingerprinted: its footprint may exceed what it returns.             *)
Sources == {x.path : x \in {kb.evidence[e] : e \in kb.edges} \union UNION {kb.anchors[n] : n \in kb.nodes}}
             \union UNION {Retrieval!SymbolFiles(kb, s) : s \in kb.symbols}

TraceRefused ==
  LET t == Job.trace
  IN  IF ~ {t.seed} \union t.others \subseteq Seeds(retrieved[side]) \intersect kb.nodes THEN "unresolved"
      ELSE IF t.component \notin kb.components THEN "unresolved"
      ELSE IF policy.maxDepth = 0 /\ t.family # "layout" THEN "truncated"
      ELSE IF ~ Sources \subseteq kb.hashed THEN "unresolved" ELSE "no"

RunTrace ==
  /\ Running /\ ~Limited /\ Tracing /\ Job.trace.family \in policy.families
  /\ IF TraceRefused # "no" THEN Charge /\ Report(TraceRefused, {})
     ELSE LET o == TraceAnswer[Job.trace]
          IN  Settle(Asked(held), Asked(perSeed[Job.seed]), o, IF o.complete THEN "ok" ELSE "partial")
  /\ UNCHANGED <<walk, setup, phase, mapping, side, spent, world>>

SideDone ==
  /\ phase = "expand" /\ jobs = <<>>
  /\ ~Drifted(IF side = "new" THEN {"new"} ELSE {"old", "new"})
  /\ spent' = [spent EXCEPT ![side] = held]
  /\ NextSide
  /\ UNCHANGED <<walk, setup, mapping, expansion, world>>

Expand == \/ BeginSide \/ LeaveOut \/ SkipJob \/ DisabledTrace \/ FailJob
          \/ StartWalk \/ Walk \/ FinishWalk \/ RunTrace \/ SideDone

-----------------------------------------------------------------------------
(* Whatever the diff looks like, the ranges given to the mapper cover on    *)
(* each side exactly the lines the change edits there, in order and no line *)
(* twice: no context line, no marker and no line of the other side moves    *)
(* them.                                                                    *)
EditsAreAnchored ==
  \A i \in DOMAIN setup.files : \A s \in {"old", "new"} : ExactlyAnchored(setup.files[i], s)

(* The two sides together never hold more nodes, edges or paths, and never  *)
(* ask more queries, than the one policy of the operation allows, and what  *)
(* a side was charged for is exactly what its admitted observations hold:   *)
(* an observation is taken whole or not at all.                             *)
Observed(s) == UNION {reports[s][i].taken : i \in DOMAIN reports[s]}

BudgetsHold ==
  LET of(s) == IF phase = "expand" /\ s = side THEN held ELSE spent[s]
  IN  phase \in {"expand", "materialize", "open", "read", "failed", "done"} =>
        /\ Cardinality(of("new").nodes) + Cardinality(of("old").nodes) <= policy.maxNodes
        /\ Cardinality(of("new").edges) + Cardinality(of("old").edges) <= policy.maxEdges
        /\ of("new").paths + of("old").paths <= policy.maxPaths
        /\ of("new").queries + of("old").queries <= policy.maxQueries
        /\ \A s \in {"old", "new"} :
             /\ of(s).nodes = UNION {o.nodes : o \in Observed(s)}
             /\ of(s).edges = UNION {o.edges : o \in Observed(s)}
=============================================================================

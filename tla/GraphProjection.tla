---- MODULE GraphProjection ----
(***************************************************************************)
(* graph/projection.py, the construction of graph/memory.py and the role   *)
(* mapping of graph/domain.py: from the rows of an index to the nodes and  *)
(* edges of a snapshot, and to a decision for every symbol.                *)
(*                                                                         *)
(* A node is [id, kind, name, anchors], an edge record [source, target,    *)
(* relation, evidence]; an anchor is [symbol, file, range] and evidence is *)
(* [fact, anchor].                                                         *)
(***************************************************************************)
EXTENDS SymbolIndex

FileNode(file) == <<"file", file>>
SymbolNode(id) == <<"symbol", id>>

Anchor(symbol, range) ==
  [symbol |-> symbol, file |-> IF range = None THEN None ELSE range.file, range |-> range]

NodeKind(kind) ==
  CASE kind \in {"class", "struct"} -> "class"
    [] kind \in {"function", "method", "test_fixture", "test_case"} -> kind
    [] OTHER -> "symbol"

Node(id, kind, name, anchors) == [id |-> id, kind |-> kind, name |-> name, anchors |-> anchors]

Edge(source, target, relation, fact, anchor) ==
  [id |-> <<source, target, relation>>, evidence |-> {[fact |-> fact, anchor |-> anchor]}]

Projected(t) == UNION {SymbolsInFile(t, f) : f \in t.files}

FileNodes(t) == {Node(FileNode(f), "file", "path", {[symbol |-> None, file |-> f, range |-> None]}) :
                   f \in t.files}

RangesOf(s) == {s.decl, s.def} \ {None}

SymbolNodes(t) ==
  {Node(SymbolNode(s.id), NodeKind(s.kind), s.name, {Anchor(s.id, r) : r \in RangesOf(s)}) :
     s \in Projected(t)}

Ranged(t, role, relation) ==
  {Edge(FileNode(s[role].file), SymbolNode(s.id), relation, "range", Anchor(s.id, s[role])) :
     s \in {s \in Projected(t) : s[role] # None}}
DeclareEdges(t) == Ranged(t, "decl", "declare") \cup Ranged(t, "def", "define")

\* A test entity replaces the node of its identity and keeps its anchors.
TestNodes(t, others) ==
  LET Earlier(id) == UNION {n.anchors : n \in {n \in others : n.id = SymbolNode(id)}}
  IN {Node(SymbolNode(f.id), "test_fixture", f.name, {Anchor(f.id, f.range)} \cup Earlier(f.id)) :
        f \in TestFixtures(t)}
     \cup UNION {{Node(SymbolNode(c.id), "test_case", c.name,
                       {Anchor(c.id, r) : r \in {c.range, c.body} \ {None}} \cup Earlier(c.id)) :
                    c \in TestCasesForFixture(t, f.id)} : f \in TestFixtures(t)}

TestEdges(t) ==
  UNION {UNION {{Edge(SymbolNode(f.id), SymbolNode(c.id), "test", "member", Anchor(c.id, c.range))}
                \cup UNION {{Edge(SymbolNode(m.case), SymbolNode(m.symbol), "test", "reference",
                                  Anchor(m.symbol, r)) : r \in m.references} :
                              m \in TestedSymbolMappingsForCase(t, c.id)} :
                  c \in TestCasesForFixture(t, f.id)} : f \in TestFixtures(t)}

ReferenceEdges(t) ==
  UNION {{Edge(FileNode(r.file), SymbolNode(s.id), "reference", "references", Anchor(s.id, r)) :
            r \in SemanticFacts(t, s.id).references} : s \in Projected(t)}

\* ReferenceCallRetriever: the stored callers and callees of one symbol, each
\* relation as the pair it states, no reciprocal one inferred.
Calls(t, id) ==
  {<<c, id, "callers">> : c \in SemanticFacts(t, id).callers}
  \cup {<<id, c, "callees">> : c \in SemanticFacts(t, id).callees}
AllCalls(t) == UNION {Calls(t, s.id) : s \in Projected(t)}

\* The provenance of a call is where its caller is defined, else declared.
Provenance(t, id) ==
  LET s == Get(t, id)
  IN IF s = None THEN None ELSE IF s.def # None THEN s.def ELSE s.decl

CallEdges(t) ==
  {Edge(SymbolNode(c[1]), SymbolNode(c[2]), "call", c[3], Anchor(c[1], Provenance(t, c[1]))) :
     c \in AllCalls(t)}

\* An endpoint that the index does not hold becomes an anchored bare node.
EndpointNodes(t, others) ==
  {Node(SymbolNode(id), "symbol", id, {Anchor(id, None)}) :
     id \in {id \in UNION {{c[1], c[2]} : c \in AllCalls(t)} :
               \A n \in others : n.id # SymbolNode(id)}}

ProjectedEdges(t) == DeclareEdges(t) \cup TestEdges(t) \cup ReferenceEdges(t) \cup CallEdges(t)

ProjectedNodes(t) ==
  LET semantic == FileNodes(t) \cup SymbolNodes(t)
      tests    == TestNodes(t, semantic)
      placed   == {n \in semantic : \A m \in tests : m.id # n.id} \cup tests
  IN placed \cup EndpointNodes(t, placed)

\* What MemoryGraph raises ValueError for.
Unbuildable(nodes, edges) ==
  \/ \E n, m \in nodes : n.id = m.id /\ n # m
  \/ \E e \in edges : {e.id[1], e.id[2]} \ {n.id : n \in nodes} # {}

\* Edges of one identity union their evidence.
Merged(edges) ==
  {[id |-> i, evidence |-> UNION {e.evidence : e \in {e \in edges : e.id = i}}] :
     i \in {e.id : e \in edges}}

Project(t) == [nodes |-> ProjectedNodes(t), edges |-> Merged(ProjectedEdges(t))]

\* Role rules are [role, qname, file, component]; a decision is [id, status,
\* candidates].  Only a class in an allowed file of its own name has a role.
Candidates(rules, s) ==
  {<<r.role, r.component>> : r \in {r \in rules : r.qname = s.qname /\
                                      \E range \in RangesOf(s) : range.file = r.file}}

AuthorityDeclared(s) == IF s.decl # None THEN s.decl ELSE s.def
Authority(s) == IF s.def # None THEN s.def ELSE s.decl

Mismatch(t, node) ==
  LET s == Get(t, node.id[2])
  IN /\ s # None /\ node.kind = "class"
     /\ \/ node.name # s.name
        \/ \E r \in RangesOf(s) : Anchor(s.id, r) \notin node.anchors

Decision(t, rules, node) ==
  LET s       == Get(t, node.id[2])
      Named   == {r \in rules : r.qname = s.qname}
      capable == /\ s # None /\ node.kind = "class"
                 /\ s.kind = "class"
                 /\ Authority(s).file \in {r.file : r \in Named}
      found   == IF capable THEN Candidates(rules, s) ELSE {}
  IN [id |-> node.id, candidates |-> found,
      status |-> IF ~capable THEN "unknown"
                 ELSE IF Cardinality(found) = 1 THEN "recognized" ELSE "ambiguous"]

DomainMap(t, rules, graph) ==
  {Decision(t, rules, n) : n \in {n \in graph.nodes : n.id[1] = "symbol"}}
====

------------------------------- MODULE Evaluation -------------------------------
(***************************************************************************)
(* The retrieval benchmark over one index: what P1RetrievalExecutor        *)
(* answers to a query (evaluation/p1_executor.py), and how runner.py       *)
(* scores and classifies the answer against an annotation.                 *)
(*                                                                         *)
(* A symbol is the pair of its identity and its qualified name, which is   *)
(* what both sides are compared by; a test is [id, name, file], a relation *)
(* a pair of symbols.  A dimension that is not annotated is None.          *)
(***************************************************************************)
EXTENDS GraphProjection, Sequences

SearchSymbol(match, name, limit) ==
  [kind |-> "search_symbol", match |-> match, name |-> name, limit |-> limit]

IdentityKinds == {"find_declaration", "find_definition", "find_references",
                  "find_callers", "find_callees", "find_tests"}

IdentityQuery(kind, symbol) == [kind |-> kind, symbol |-> symbol]

ExpectedResults(files, symbols, tests, relations) ==
  [files |-> files, symbols |-> symbols, tests |-> tests, relations |-> relations]

RetrievalOutput(files, symbols, tests, relations) ==
  [files |-> files, symbols |-> symbols, tests |-> tests, relations |-> relations]

NoOutput == RetrievalOutput({}, <<>>, {}, {})

Elements(seq) == {seq[i] : i \in DOMAIN seq}

-----------------------------------------------------------------------------
(* P1RetrievalExecutor.                                                     *)
Symbol(s) == <<s.id, s.qname>>

\* Rows come in an order of their own, which no annotation depends on.
Ranked(S) == CHOOSE seq \in [1..Cardinality(S) -> S] : Elements(seq) = S

SearchAnswer(t, q) ==
  LET found == IF q.match = "display_name" THEN FindByName(t, q.name)
               ELSE FindByQualifiedName(t, q.name)
      all   == Ranked(found)
      kept  == IF q.limit = None \/ q.limit >= Len(all) THEN all ELSE SubSeq(all, 1, q.limit)
  IN RetrievalOutput({Provenance(t, s.id).file : s \in {s \in Elements(kept) : Provenance(t, s.id) # None}},
                     [i \in DOMAIN kept |-> Symbol(kept[i])], {}, {})

\* An identity under another name does not select anything.
ExactSymbolByIdentity(t, q) == Get(t, q.symbol[1])

ExactSymbol(t, q) ==
  LET s == Get(t, q.symbol[1]) IN IF s # None /\ Symbol(s) = q.symbol THEN s ELSE None

SourceFact(s, range) ==
  IF range = None THEN NoOutput ELSE RetrievalOutput({range.file}, <<Symbol(s)>>, {}, {})

NamedEndpoint(t, id) == <<id, IF Get(t, id) = None THEN None ELSE Get(t, id).qname>>

RelationAnswer(t, pairs) ==
  LET places == {Provenance(t, p[1]) : p \in pairs} \ {None}
      ends   == {NamedEndpoint(t, id) : id \in UNION {{p[1], p[2]} : p \in pairs}}
  IN RetrievalOutput({r.file : r \in places}, Ranked({e \in ends : e[2] # None}), {},
                     {<<NamedEndpoint(t, p[1]), NamedEndpoint(t, p[2])>> : p \in pairs})

IdentityAnswer(t, q, s) ==
  CASE q.kind = "find_declaration" -> SourceFact(s, s.decl)
    [] q.kind = "find_definition"  -> SourceFact(s, s.def)
    [] q.kind = "find_references"  ->
         LET references == SemanticFacts(t, s.id).references
         IN RetrievalOutput({r.file : r \in references},
                            [i \in 1..Cardinality(references) |-> Symbol(s)], {}, {})
    [] q.kind = "find_callers"     -> RelationAnswer(t, {<<c, s.id>> : c \in SemanticFacts(t, s.id).callers})
    [] q.kind = "find_callees"     -> RelationAnswer(t, {<<s.id, c>> : c \in SemanticFacts(t, s.id).callees})
    [] OTHER                       ->
         LET tests == TestCasesForSymbol(t, s.id)
         IN RetrievalOutput({c.range.file : c \in tests}, <<>>,
                            {[id |-> c.id, name |-> c.name, file |-> c.range.file] : c \in tests}, {})

Execute(t, q) ==
  IF q.kind = "search_symbol" THEN [output |-> SearchAnswer(t, q), failures |-> {}]
  ELSE IF ExactSymbol(t, q) = None THEN [output |-> NoOutput, failures |-> {"query_rejected"}]
  ELSE [output |-> IdentityAnswer(t, q, ExactSymbol(t, q)), failures |-> {}]

-----------------------------------------------------------------------------
(* calculate_metrics.  A recall is the targets that were hit and their      *)
(* number; without targets it is full.                                      *)
Recall(expected, actual) == [hit |-> Cardinality(expected \cap actual), of |-> Cardinality(expected)]

Full(recall) == recall = None \/ recall.hit = recall.of

Measured(expected, actual) == IF expected = None THEN None ELSE Recall(expected, actual)

Metrics(kind, expected, output) ==
  LET ranks == {i \in DOMAIN output.symbols : output.symbols[i] \in expected.symbols}
      ranked == kind = "search_symbol" /\ expected.symbols \notin {None, {}}
  IN [files     |-> Measured(expected.files, output.files),
      symbols   |-> Measured(expected.symbols, Elements(output.symbols)),
      tests     |-> Measured(expected.tests, output.tests),
      relations |-> IF expected.relations = None THEN None ELSE expected.relations = output.relations,
      first     |-> IF ranked /\ ranks # {} THEN Lowest(ranks) ELSE None]

(* classify_result_failures.                                                *)
\* The annotation is looked up by identity (1) and by qualified name (2), where
\* of several symbols with one name the last one listed is left.
Listed(expected, key, value) == CHOOSE e \in expected : e[key] = value

Mismatched(expected, actual) ==
  \E a \in actual, key \in {1, 2} :
    /\ \E e \in expected : e[key] = a[key]
    /\ Listed(expected, key, a[key]) # a

Failures(expected, output) ==
  LET symbols == Elements(output.symbols)
      Missed(dimension, actual) == expected[dimension] # None /\ ~(expected[dimension] \subseteq actual)
      Surplus(dimension, actual) == expected[dimension] = {} /\ actual # {}
  IN {c \in {"empty_result"} : output = NoOutput /\ \E d \in DOMAIN expected : expected[d] \notin {None, {}}}
     \cup {c \in {"target_file_miss"} : Missed("files", output.files)}
     \cup {c \in {"unexpected_file"} : Surplus("files", output.files)}
     \cup {c \in {"target_symbol_miss"} : Missed("symbols", symbols)}
     \cup {c \in {"symbol_identity_mismatch"} : expected.symbols # None /\ Mismatched(expected.symbols, symbols)}
     \cup {c \in {"unexpected_symbol"} : Surplus("symbols", symbols)}
     \cup {c \in {"target_test_miss"} : Missed("tests", output.tests)}
     \cup {c \in {"unexpected_test"} : Surplus("tests", output.tests)}
     \cup {c \in {"direct_relation_miss"} : Missed("relations", output.relations)}
     \cup {c \in {"unexpected_direct_relation"} :
             expected.relations # None /\ ~(output.relations \subseteq expected.relations)}

RunCase(t, q, expected) ==
  LET e == Execute(t, q)
  IN [metrics |-> Metrics(q.kind, expected, e.output),
      failures |-> IF e.failures # {} THEN e.failures ELSE Failures(expected, e.output)]

Passed(result) == result.failures = {}

\* _summarize, but for the means: a mean of recalls is 1 only when each is full.
Summarize(results) ==
  [passed |-> Cardinality({r \in results : Passed(r)}),
   failed |-> Cardinality({r \in results : ~Passed(r)}),
   perfect |-> \A r \in results : /\ Full(r.metrics.files) /\ Full(r.metrics.symbols)
                                  /\ Full(r.metrics.tests) /\ r.metrics.relations # FALSE]

-----------------------------------------------------------------------------
(* What the rows say of a symbol, annotated as an identity query asks it.   *)
Annotated(t, kind, s) ==
  LET Name(id)  == <<id, OneOf({r.qname : r \in {r \in t.symbols : r.id = id}})>>
      Role(role) == {r.range.file : r \in {r \in t.ranges : r.id = s.id /\ r.role = role}}
      Self(S)   == IF S = {} THEN {} ELSE {Name(s.id)}
      uses      == {r.range.file : r \in {r \in t.references : r.id = s.id}}
      Ends(k)   == {r.target : r \in {r \in t.relations : r.source = s.id /\ r.kind = k}}
  IN CASE kind = "find_declaration" -> ExpectedResults(Role("declaration"), Self(Role("declaration")), None, None)
       [] kind = "find_definition"  -> ExpectedResults(Role("definition"), Self(Role("definition")), None, None)
       [] kind = "find_references"  -> ExpectedResults(uses, Self(uses), None, None)
       [] kind = "find_callers"     -> ExpectedResults(None, None, None, {<<Name(c), Name(s.id)>> : c \in Ends("caller")})
       [] kind = "find_callees"     -> ExpectedResults(None, None, None, {<<Name(s.id), Name(c)>> : c \in Ends("callee")})
       [] OTHER -> ExpectedResults(None, None,
            {[id |-> e.id, name |-> e.name, file |-> e.range.file] :
               e \in {e \in t.entities : \E r \in t.tests : r.case = e.id /\ r.symbol = s.id}}, None)
=============================================================================

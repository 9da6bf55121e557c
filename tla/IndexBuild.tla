---- MODULE IndexBuild ----
(***************************************************************************)
(* The pipeline that turns what clangd and the test sources say into an    *)
(* index file, a graph file and a role map: P1P2RefreshBuilder.build       *)
(* (knowledge/refresh.py) and, in mode "prepare", prepare_p1_index         *)
(* (evaluation/preparation.py), which writes over an index that exists.    *)
(*                                                                         *)
(* The process may be killed at any step and SQLite or the disk may fail.  *)
(* A transaction that a kill cut short leaves its journal beside a file    *)
(* that is partly rewritten.  Readers open the file sealed (read only,     *)
(* immutable) or live; their caller keeps writers away meanwhile.          *)
(***************************************************************************)
EXTENDS Evaluation

CONSTANTS
  Worlds,        \* what there is to see: records [mode, observations, related,
                 \* calls, queries, sources, readable]
  Edits,         \* worlds that a later attempt may meet instead
  Rules,         \* the reviewed role rules
  SemanticFiles, \* scope of the semantic collection
  MaxAttempts,   \* bound on the builds of one destination
  MaxFaults      \* bound on kills and on I/O errors

\* A symbol is declared or defined somewhere, and a collected one was seen
\* somewhere; lines and columns are not negative (repository/model.py).
Places     == [file : Nat, lo : Nat, hi : Nat]
Located(S) == \A s \in S : RangesOf(s) # {} /\ RangesOf(s) \subseteq Places

\* All symbols a world shows, their names, and what can be made of their parts.
Seen(w)    == w.observations \cup w.related
NamesIn(w) == {Symbol(s) : s \in Seen(w)}
PartsIn(w) ==
  [id : Values(Seen(w), "id"), kind : Values(Seen(w), "kind"), name : Values(Seen(w), "name"),
   qname : Values(Seen(w), "qname"), decl : Values(Seen(w), "decl") \cup {None},
   def : Values(Seen(w), "def") \cup {None}, parent : Values(Seen(w), "parent") \cup {None},
   ns : Values(Seen(w), "ns") \cup {None}]

\* There is an end to what clangd reports and to a source, and a symbol has a
\* qualified name.
ASSUME WorldsAssumption ==
  \A w \in Worlds \cup Edits :
    /\ Located(w.observations) /\ Located(w.related)
    /\ \A o \in w.observations : o.site \in Places
    /\ IsFiniteSet(Seen(w)) /\ \A s \in Seen(w) : s.qname # None
    /\ IsFiniteSet(DOMAIN w.sources) /\ \A f \in DOMAIN w.sources : IsFiniteSet(DOMAIN w.sources[f])

\* None is not a symbol, nor a limit, a verdict or a measure of the benchmark.
ASSUME NoneAssumption ==
  /\ None \notin Nat /\ None \notin BOOLEAN /\ None \notin [hit : Nat, of : Nat]
  /\ \A w \in Worlds \cup Edits : None \notin PartsIn(w)

ASSUME RulesAssumption == IsFiniteSet(Rules)
ASSUME BoundsAssumption == MaxAttempts \in Nat /\ MaxFaults \in Nat

VARIABLES
  world,      \* the inputs of the running or next build
  pc,         \* where the build stands; "idle" when none runs
  work,       \* what the build holds in memory
  db,         \* the index file: [schema, torn, rows, journal]; a journal, where
              \* one stands beside the file, holds the rows before the transaction
  graph,      \* the graph file, or None
  committed,  \* history: the rows of the last transaction that committed
  shown,      \* what the last reader saw: [how, rows] or None
  attempts, faults

vars == <<world, pc, work, db, graph, committed, shown, attempts, faults>>

NoWork   == [observed |-> {}, symbols |-> {}, facts |-> {}]
NoFile   == [schema |-> FALSE, torn |-> FALSE, rows |-> NoTables, journal |-> <<>>]

Files(w) == SemanticFiles \cup DOMAIN w.sources

\* The words of the sources that name a symbol are what clangd reports as its
\* references.
ReferencesTo(id) ==
  UNION {{At(f, i, 0, 1) : i \in {i \in Where(world.sources[f], "word") :
            world.sources[f][i].span = 0 /\ world.sources[f][i].name = id}} :
           f \in DOMAIN world.sources}

\* The related symbols clangd answers for id, and so their endpoints.
Callees(id) == {s \in world.related : <<id, s.id>> \in world.calls}
Callers(id) == {s \in world.related : <<s.id, id>> \in world.calls}

\* A refresh asks everything of every symbol, a preparation its own queries.
Asked(id, kind) == world.mode = "refresh" \/ <<id, kind>> \in world.queries
CalleesOf(id) == IF Asked(id, "callees") THEN Callees(id) ELSE {}
CallersOf(id) == IF Asked(id, "callers") THEN Callers(id) ELSE {}
FactOf(id) == [id |-> id, references |-> IF Asked(id, "references") THEN ReferencesTo(id) ELSE {},
               callers |-> Ids(CallersOf(id)), callees |-> Ids(CalleesOf(id))]
RelatedTo(ids) == UNION {CallersOf(id) \cup CalleesOf(id) : id \in ids}

Input == [symbols  |-> work.symbols, files |-> Files(world), facts |-> work.facts,
          fixtures |-> Fixtures(world.sources), cases |-> Cases(world.sources)]

Init ==
  /\ world \in Worlds
  /\ pc = "idle" /\ work = NoWork
  /\ db = NoFile /\ graph = None /\ committed = NoTables /\ shown = None
  /\ attempts = 0 /\ faults = 0

OnDisk == <<db, graph, committed, shown>>

\* A build ends, however it ends: its memory is gone, its files stay.
Stop(outcome) == pc' = outcome /\ work' = NoWork

\* Attempts of a refresh have a generation directory each, so this one is new;
\* a preparation meets the file of the one before.
Begin ==
  /\ pc \in {"idle", "failed", "done"} /\ attempts < MaxAttempts
  /\ world.mode = "refresh" => db = NoFile
  /\ pc' = "started" /\ attempts' = attempts + 1
  /\ UNCHANGED <<world, work, OnDisk, faults>>

\* The tree moves between two builds.
Edit ==
  /\ pc \in {"idle", "failed", "done"} /\ attempts > 0 /\ attempts < MaxAttempts
  /\ \E w \in Edits : w.mode = world.mode /\ world' = w
  /\ UNCHANGED <<pc, work, OnDisk, attempts, faults>>

Discover ==
  /\ pc = "started"
  /\ IF world.readable THEN pc' = "discovered" /\ UNCHANGED work ELSE Stop("failed")
  /\ UNCHANGED <<world, OnDisk, attempts, faults>>

\* The refresh canonicalizes the whole collection or fails.  The preparation
\* keeps, of each identity, the symbol of the first file that shows it, in the
\* order of its manifest, by which the files of its world are numbered.
FirstShown(observations) ==
  LET Ordered(o, p) == Before(o.site, p.site)
      First(id) == CHOOSE o \in Group(observations, id) :
                     \A p \in Group(observations, id) : Ordered(o, p)
  IN {Scalar(First(id)) : id \in Ids(observations)}

Collect ==
  /\ pc = "discovered"
  /\ LET seen == world.observations IN
     IF world.mode = "prepare"
       THEN /\ pc' = "collected"
            /\ work' = [NoWork EXCEPT !.observed = seen, !.symbols = FirstShown(seen)]
       ELSE IF Conflicting(seen) THEN Stop("failed")
       ELSE /\ pc' = "collected"
            /\ work' = [NoWork EXCEPT !.observed = seen, !.symbols = Canonical(seen)]
  /\ UNCHANGED <<world, OnDisk, attempts, faults>>

\* References and calls of the symbols asked about, with their endpoints.  A
\* preparation adds an endpoint it does not hold as it is first reported.
Targets == IF world.mode = "refresh" THEN Ids(work.symbols) ELSE {q[1] : q \in world.queries}

Relate ==
  /\ pc = "collected"
  /\ LET ends == RelatedTo(Targets)
         new  == {s \in ends : s.id \notin Ids(work.symbols)}
     IN IF ~(Targets \subseteq Ids(work.symbols)) THEN Stop("failed")
        ELSE \E kept \in SUBSET new :
          /\ Ids(kept) = Ids(new) /\ ~Ambiguous(kept)
          /\ work' = [observed |-> work.observed \cup {Endpoint(s) : s \in ends},
                      facts    |-> {FactOf(id) : id \in Targets},
                      symbols  |-> IF world.mode = "refresh" THEN work.symbols
                                   ELSE work.symbols \cup {Scalar(s) : s \in kept}]
          /\ pc' = IF world.mode = "refresh" THEN "related" ELSE "merged"
  /\ UNCHANGED <<world, OnDisk, attempts, faults>>

\* The refresh merges once more, now with the evidence of the endpoints and
\* of everything the provider converted.
EvidenceOfEndpoints == RelatedTo(Ids(work.symbols))
AllEvidence == work.observed \cup RelatedTo(Ids(work.symbols))

MergeAgain ==
  /\ pc = "related"
  /\ LET all == AllEvidence
     IN IF Conflicting(all) THEN Stop("failed")
        ELSE pc' = "merged" /\ work' = [work EXCEPT !.observed = all, !.symbols = Canonical(all)]
  /\ UNCHANGED <<world, OnDisk, attempts, faults>>

RecoveredRows(file) ==
  [file EXCEPT !.schema = TRUE, !.journal = <<>>,
               !.rows = IF file.journal = <<>> THEN file.rows ELSE file.journal[1]]

\* A writable connection rolls a hot journal back, then makes the schema.
Recovered(file) ==
  [schema |-> TRUE, torn |-> FALSE, journal |-> <<>>,
   rows |-> IF file.journal = <<>> THEN file.rows ELSE file.journal[1]]

OpenIndex ==
  /\ pc = "merged"
  /\ db' = Recovered(db) /\ pc' = "opened"
  /\ UNCHANGED <<world, work, graph, committed, shown, attempts, faults>>

\* rebuild refuses its input before the transaction begins.
Validate ==
  /\ pc = "opened"
  /\ IF Rejected(Input) THEN Stop("failed") ELSE pc' = "valid" /\ UNCHANGED work
  /\ UNCHANGED <<world, OnDisk, attempts, faults>>

\* replace_all: one transaction of deletes and inserts.
Write ==
  /\ pc = "valid"
  /\ IF SchemaHolds(Tables(Input))
       THEN /\ db' = [db EXCEPT !.journal = <<db.rows>>, !.torn = TRUE]
            /\ pc' = "writing" /\ UNCHANGED work
       ELSE Stop("failed") /\ UNCHANGED db
  /\ UNCHANGED <<world, graph, committed, shown, attempts, faults>>

Commit ==
  /\ pc = "writing"
  /\ db' = [db EXCEPT !.rows = Tables(Input), !.journal = <<>>, !.torn = FALSE]
  /\ committed' = Tables(Input)
  /\ IF world.mode = "refresh" THEN pc' = "indexed" /\ UNCHANGED work ELSE Stop("done")
  /\ UNCHANGED <<world, graph, shown, attempts, faults>>

\* Projection, construction and role mapping read the committed index.
BuildGraph ==
  /\ pc = "indexed"
  /\ IF \/ Unbuildable(ProjectedNodes(db.rows), ProjectedEdges(db.rows))
        \/ \E n \in ProjectedNodes(db.rows) : n.id[1] = "symbol" /\ Mismatch(db.rows, n)
       THEN Stop("failed") ELSE pc' = "graphed" /\ UNCHANGED work
  /\ UNCHANGED <<world, OnDisk, attempts, faults>>

\* GraphStore.save replaces the file by a complete temporary one.
SaveGraph ==
  /\ pc = "graphed"
  /\ LET snapshot == Project(db.rows)
     IN graph' = [of |-> snapshot, roles |-> DomainMap(db.rows, Rules, snapshot)]
  /\ Stop("done")
  /\ UNCHANGED <<world, db, committed, shown, attempts, faults>>

Running == pc \notin {"idle", "failed", "done"}

\* An error of SQLite or of the disk: the transaction rolls back.
Fail ==
  /\ Running /\ faults < MaxFaults /\ faults' = faults + 1
  /\ db' = IF pc = "writing" THEN Recovered(db) ELSE db
  /\ Stop("failed")
  /\ UNCHANGED <<world, graph, committed, shown, attempts>>

Kill ==
  /\ Running /\ faults < MaxFaults /\ faults' = faults + 1
  /\ Stop("idle")
  /\ UNCHANGED <<world, OnDisk, attempts>>

\* open_read_only refuses sidecars and a file without the schema.
SealedSchema == db.schema
Sealed == db.journal = <<>> /\ db.schema
OpenSealed ==
  /\ ~Running /\ Sealed
  /\ shown' = [how |-> "sealed", torn |-> db.torn, rows |-> db.rows]
  /\ UNCHANGED <<world, pc, work, db, graph, committed, attempts, faults>>

OpenLive ==
  /\ ~Running /\ world.mode = "prepare"
  /\ db' = Recovered(db)
  /\ shown' = [how |-> "live", torn |-> FALSE, rows |-> Recovered(db).rows]
  /\ UNCHANGED <<world, pc, work, graph, committed, attempts, faults>>

Next ==
  \/ Begin \/ Edit \/ Discover \/ Collect \/ Relate \/ MergeAgain \/ OpenIndex
  \/ Validate \/ Write \/ Commit \/ BuildGraph \/ SaveGraph
  \/ Fail \/ Kill \/ OpenSealed \/ OpenLive

Spec == Init /\ [][Next]_vars

---------------------------------------------------------------------------

\* The variables stay in their domains; a file is torn only while the journal
\* that mends it is there.
BuildTypeOK ==
  /\ pc \in {"idle", "started", "discovered", "collected", "related", "merged", "opened",
             "valid", "writing", "indexed", "graphed", "done", "failed"}
  /\ world \in Worlds \cup Edits
  /\ db.schema \in BOOLEAN /\ db.torn = (db.journal # <<>>)
  /\ (pc = "writing") => db.torn
  /\ attempts \in 0 .. MaxAttempts /\ faults \in 0 .. MaxFaults

\* What discovery, canonicalization and the relations produce is never refused
\* further down: not by the validation of rebuild, not by a key of the schema
\* in the middle of the transaction, not as a conflicting node or a dangling
\* edge by MemoryGraph, not as a mismatch by the role mapper.
PipelineAccepts ==
  /\ pc \in {"opened", "valid"} => ~Rejected(Input) /\ SchemaHolds(Tables(Input))
  /\ pc = "indexed" => LET nodes == ProjectedNodes(db.rows) IN
       /\ ~Unbuildable(nodes, ProjectedEdges(db.rows))
       /\ ~\E n \in nodes : n.id[1] = "symbol" /\ Mismatch(db.rows, n)

\* Whoever opens the file between builds, sealed or live, sees exactly the
\* rows of the last transaction that committed, whatever was killed or failed
\* before: never a part of a rebuild, and never the loss of the old index.
ReadsLastCommit ==
  [][shown' # shown => ~shown'.torn /\ shown'.rows = committed]_vars

\* No reference counts as a direct test by two cases: bodies found by matching
\* brackets do not run into each other, whatever comments stand between.
OneTestPerReference ==
  \A r, q \in committed.tests : r.symbol = q.symbol /\ r.range = q.range => r.case = q.case

\* The rows answer as the models they were made from: every symbol by identity,
\* name and file, every fact, every case under its fixture, and the tests of a
\* symbol are those that reference it directly.
IndexAnswers ==
  pc = "indexed" =>
    /\ \A s \in work.symbols :
         /\ Get(db.rows, s.id) = s
         /\ s \in FindByName(db.rows, s.name) \cap FindByQualifiedName(db.rows, s.qname)
         /\ \A r \in RangesOf(s) : s \in SymbolsInFile(db.rows, r.file)
         /\ SemanticFacts(db.rows, s.id).references \subseteq ReferencesTo(s.id)
    /\ \A f \in work.facts : SemanticFacts(db.rows, f.id) = f
    /\ \A f \in Fixtures(world.sources) :
         GetTestFixture(db.rows, f.id) = f /\ f \in FindTestFixtures(db.rows, f.name)
    /\ \A c \in Cases(world.sources) :
         /\ GetTestCase(db.rows, c.id) = c
         /\ c \in FindTestCases(db.rows, c.name) \cap TestCasesForFixture(db.rows, c.fixture)
         /\ \A s \in work.symbols :
              TestedSymbolMapping(db.rows, c.id, s.id).references # {} <=>
                \E m \in TestedSymbolMappingsForCase(db.rows, c.id)
                           \cap TestedSymbolMappingsForSymbol(db.rows, s.id) : m.case = c.id

\* The evidence that relations add never takes back what the first merge knew:
\* kind and names of identity stay, a known range stays unless a namespace was
\* reopened earlier, and containment changes only where a declaration site
\* inside a class or struct says so.
EvidenceOnlyRefines ==
  [][pc = "related" /\ pc' = "merged" =>
       \A s \in work.symbols : \E t \in work'.symbols :
         /\ t.id = s.id /\ t.kind = s.kind /\ t.qname = s.qname
         /\ s.kind # "namespace" => s.decl \in {None, t.decl} /\ s.def \in {None, t.def}
         /\ \/ s.parent \in {None, t.parent}
            \/ \E o \in work'.observed : /\ o.id = s.id /\ o.parent = t.parent
                                         /\ o.pkind \in {"class", "struct"}]_vars

\* A recognized role is one that a rule gives to the file of the definition
\* (of the declaration where there is none): a forward declaration in another
\* header never decides it.
RoleFromDefinition ==
  graph # None =>
    \A d \in graph.roles : d.status = "recognized" =>
      LET s     == Get(db.rows, d.id[2])
          place == IF s.def # None THEN s.def ELSE s.decl
      IN \E r \in Rules : /\ r.qname = s.qname /\ r.file = place.file
                          /\ d.candidates = {<<r.role, r.component>>}

\* What a search matches, by match kind.
Searched == [display_name |-> "name", qualified_name |-> "qname"]

\* Overloads have different identities and one qualified name.
Overloaded(names) == \E a, b \in names : a # b /\ a[2] = b[2]

\* A search annotated with all symbols of the name finds them all and ranks one
\* first, and finds one where one is asked for.  It passes unless two of them
\* are overloads, and then fails with symbol_identity_mismatch alone.
FairSearch(t, match, name) ==
  LET alike == {Symbol(r) : r \in {r \in t.symbols : r[Searched[match]] = name}}
      Found(limit) == RunCase(t, SearchSymbol(match, name, limit),
                              ExpectedResults(None, alike, None, None))
      all  == Found(None)
      best == Found(1).metrics
  IN /\ all.failures = IF Overloaded(alike) THEN {"symbol_identity_mismatch"} ELSE {}
     /\ Full(all.metrics.symbols) /\ all.metrics.first = 1
     /\ best.symbols.hit = 1 /\ best.first = 1

\* A benchmark over the index that a reader opened is fair but for overloads:
\*   - the suite that annotates every symbol with what the rows hold passes as
\*     a whole and measures 1;
\*   - so does every search annotated with all symbols of the name, and only
\*     the annotation of overloads fails nevertheless;
\*   - no relation has an endpoint without a name, which no annotation could
\*     match, and a case with one relation less fails;
\*   - a case with one target more fails and measures less;
\*   - an identity under a wrong name is rejected rather than answered, though
\*     a case that expects nothing then still measures 1.
BenchmarkIsFair ==
  shown # None =>
    LET t == shown.rows
        Case(kind, s) == RunCase(t, IdentityQuery(kind, Symbol(s)), Annotated(t, kind, s))
        Against(kind, s, q, expected) == RunCase(t, IdentityQuery(kind, q), expected)
    IN /\ LET summary == Summarize({Case(p[1], p[2]) : p \in IdentityKinds \X t.symbols})
          IN summary.failed = 0 /\ summary.perfect
       /\ \A s \in t.symbols :
            /\ \A match \in DOMAIN Searched : FairSearch(t, match, s[Searched[match]])
            /\ \A kind \in {"find_callers", "find_callees"} :
                 LET relations == Annotated(t, kind, s).relations IN
                   /\ \A r \in relations : r[1][2] # None /\ r[2][2] # None
                   /\ \A r \in relations :
                        ~Passed(Against(kind, s, Symbol(s), ExpectedResults(None, None, None, relations \ {r})))
            /\ LET a == Annotated(t, "find_definition", s)
                   r == Against("find_definition", s, Symbol(s), [a EXCEPT !.symbols = @ \cup {<<None, None>>}])
               IN ~Passed(r) /\ ~Full(r.metrics.symbols)
            /\ LET r == Against("find_definition", s, <<s.id, None>>, ExpectedResults({}, None, None, None))
               IN r.failures = {"query_rejected"} /\ Full(r.metrics.files)

\* What the document of the baseline says of an annotation that is not empty:
\* a search that returns the annotated symbol passes, whatever more it returns.
AdditionalCandidatesPass ==
  shown # None =>
    \A s \in shown.rows.symbols : \A match \in DOMAIN Searched :
      Passed(RunCase(shown.rows, SearchSymbol(match, s[Searched[match]], None),
                     ExpectedResults(None, {Symbol(s)}, None, None)))
====

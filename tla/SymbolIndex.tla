---- MODULE SymbolIndex ----
(***************************************************************************)
(* repository/index.py over the schema of _sqlite_symbol_storage.py: what  *)
(* a rebuild refuses, the rows it writes, what the schema demands of them, *)
(* and the queries.  A table is a set of rows, so a duplicate row of the   *)
(* program is a primary key held by two rows here.                         *)
(*                                                                         *)
(* input is [symbols, files, facts, fixtures, cases]; one fact is          *)
(* [id, references, callers, callees].                                     *)
(***************************************************************************)
EXTENDS TestDiscovery

Ambiguous(records) == \E a, b \in records : a.id = b.id /\ a # b

SymbolIds(input) == {s.id : s \in input.symbols}

\* Everything rebuild raises SymbolIndexError for before it touches the file.
Rejected(input) ==
  \/ Ambiguous(input.symbols) \/ Ambiguous(input.fixtures) \/ Ambiguous(input.cases)
  \/ {f.id : f \in input.fixtures} \cap {c.id : c \in input.cases} # {}
  \/ \E c \in input.cases : c.fixture \notin {f.id : f \in input.fixtures}
  \/ \E f \in input.facts : f.id \notin SymbolIds(input)

Row(id, role, range) == [id |-> id, role |-> role, range |-> range]

Ranges(input) ==
  {r \in {Row(s.id, "declaration", s.decl) : s \in input.symbols}
         \cup {Row(s.id, "definition", s.def) : s \in input.symbols} : r.range # None}

References(input) == UNION {{[id |-> f.id, range |-> r] : r \in f.references} : f \in input.facts}

RelationsSwapped(input) ==
  UNION {{[source |-> f.id, kind |-> "callee", target |-> c] : c \in f.callers}
         \cup {[source |-> f.id, kind |-> "caller", target |-> c] : c \in f.callees} :
         f \in input.facts}

Relations(input) ==
  UNION {{[source |-> f.id, kind |-> "caller", target |-> c] : c \in f.callers}
         \cup {[source |-> f.id, kind |-> "callee", target |-> c] : c \in f.callees} :
         f \in input.facts}

Entities(input) ==
  {[id |-> f.id, kind |-> "fixture", name |-> f.name, range |-> f.range] : f \in input.fixtures}
  \cup {[id |-> c.id, kind |-> "case", name |-> c.name, range |-> c.range] : c \in input.cases}

Bodies(input) == {[case |-> c.id, range |-> c.body] : c \in {c \in input.cases : c.body # None}}

\* A direct test of a symbol: a reference inside the body of the case.
TestReferences(input) ==
  UNION {{[case |-> b.case, symbol |-> r.id, range |-> r.range] :
            b \in {b \in Bodies(input) : Encloses(b.range, r.range)}} : r \in References(input)}

Tables(input) ==
  [files      |-> input.files \cup {r.range.file : r \in Ranges(input)}
                  \cup {r.range.file : r \in References(input)}
                  \cup {e.range.file : e \in Entities(input)}
                  \cup {b.range.file : b \in Bodies(input)},
   symbols    |-> {[id |-> s.id, kind |-> s.kind, name |-> s.name, qname |-> s.qname,
                    parent |-> s.parent, ns |-> s.ns] : s \in input.symbols},
   ranges     |-> Ranges(input),
   references |-> References(input),
   relations  |-> Relations(input),
   entities   |-> Entities(input),
   members    |-> {[fixture |-> c.fixture, case |-> c.id] : c \in input.cases},
   bodies     |-> Bodies(input),
   tests      |-> TestReferences(input)]

NoTables == Tables([symbols |-> {}, files |-> {}, facts |-> {}, fixtures |-> {}, cases |-> {}])

Key(rows, K(_)) == \A a, b \in rows : K(a) = K(b) => a = b

\* PRIMARY KEY and FOREIGN KEY clauses: SQLite raises where one fails.
SchemaHolds(t) ==
  LET symbols  == {s.id : s \in t.symbols}
      entities == {e.id : e \in t.entities}
      ById(r) == r.id
      ByRole(r) == <<r.id, r.role>>
      ByCase(r) == r.case
  IN /\ Key(t.symbols, ById) /\ Key(t.ranges, ByRole) /\ Key(t.entities, ById)
     /\ Key(t.members, ByCase) /\ Key(t.bodies, ByCase)
     /\ {r.id : r \in t.ranges \cup t.references} \subseteq symbols
     /\ {r.source : r \in t.relations} \cup {r.symbol : r \in t.tests} \subseteq symbols
     /\ {m.fixture : m \in t.members} \cup {m.case : m \in t.members}
        \cup {b.case : b \in t.bodies} \cup {r.case : r \in t.tests} \subseteq entities
     /\ {r.range.file : r \in t.ranges \cup t.references \cup t.entities \cup t.bodies \cup t.tests}
        \subseteq t.files

-----------------------------------------------------------------------------
\* What the statements of SQLiteSymbolStorage select.
Indexed(t, id)             == \E s \in t.symbols : s.id = id
SymbolRow(t, id)           == OneOf({s \in t.symbols : s.id = id})
SymbolRowsBy(t, field, v)  == {s \in t.symbols : s[field] = v}
SymbolRowsInFile(t, f)     == {s \in t.symbols : \E r \in t.ranges : r.id = s.id /\ r.range.file = f}
RangeRows(t, id)           == {r \in t.ranges : r.id = id}
ReferenceRows(t, id)       == {r \in t.references : r.id = id}
RelationRows(t, id)        == {r \in t.relations : r.source = id}
FixtureRows(t)             == {e \in t.entities : e.kind = "fixture"}
EntityRows(t, id, kind)    == {e \in t.entities : e.id = id /\ e.kind = kind}
EntityRowsBy(t, kind, name) == {e \in t.entities : e.kind = kind /\ e.name = name}

\* An entity joined with its fixture, and with its body where there is one.
CaseRows(t, entities) ==
  UNION {{[id |-> e.id, name |-> e.name, range |-> e.range, fixture |-> m.fixture,
           body |-> OneOf({b.range : b \in {b \in t.bodies : b.case = e.id}})] :
            m \in {m \in t.members : m.case = e.id}} : e \in entities}

CaseRow(t, id)          == OneOf(CaseRows(t, EntityRows(t, id, "case")))
CaseRowsBy(t, name)     == CaseRows(t, {e \in t.entities : e.kind = "case" /\ e.name = name})
CaseRowsOfFixture(t, f) == CaseRows(t, {e \in t.entities : \E m \in t.members : m.fixture = f /\ m.case = e.id})
SymbolRowsOfCase(t, c)  == {s \in t.symbols : \E r \in t.tests : r.case = c /\ r.symbol = s.id}
CaseRowsOfSymbol(t, id) == CaseRows(t, {e \in t.entities : \E r \in t.tests : r.case = e.id /\ r.symbol = id})
TestReferenceRows(t, c, id) == {r \in t.tests : r.case = c /\ r.symbol = id}

-----------------------------------------------------------------------------
\* What SymbolIndex makes of them: _symbol_from_row joins a symbol row with its
\* two ranges, the other rows are models as they are.
SymbolFrom(t, row) ==
  LET RangeOf(role) == OneOf({r.range : r \in {r \in RangeRows(t, row.id) : r.role = role}})
  IN [id |-> row.id, kind |-> row.kind, name |-> row.name, qname |-> row.qname,
      decl |-> RangeOf("declaration"), def |-> RangeOf("definition"),
      parent |-> row.parent, ns |-> row.ns]

Symbols(t, rows) == {SymbolFrom(t, s) : s \in rows}

Get(t, id) == IF Indexed(t, id) THEN SymbolFrom(t, SymbolRow(t, id)) ELSE None
FindByName(t, name)           == Symbols(t, SymbolRowsBy(t, "name", name))
FindByQualifiedName(t, qname) == Symbols(t, SymbolRowsBy(t, "qname", qname))
SymbolsInFile(t, f)           == Symbols(t, SymbolRowsInFile(t, f))

SemanticFacts(t, id) ==
  LET Targets(kind) == {r.target : r \in {r \in RelationRows(t, id) : r.kind = kind}}
  IN IF Indexed(t, id)
       THEN [id |-> id, references |-> {r.range : r \in ReferenceRows(t, id)},
             callers |-> Targets("caller"), callees |-> Targets("callee")]
       ELSE None

FixtureFrom(row) == [id |-> row.id, name |-> row.name, range |-> row.range]
TestFixtures(t)           == {FixtureFrom(e) : e \in FixtureRows(t)}
GetTestFixture(t, id)     == OneOf({FixtureFrom(e) : e \in EntityRows(t, id, "fixture")})
FindTestFixtures(t, name) == {FixtureFrom(e) : e \in EntityRowsBy(t, "fixture", name)}

GetTestCase(t, id)               == CaseRow(t, id)
FindTestCases(t, name)           == CaseRowsBy(t, name)
TestCasesForFixture(t, fixture)  == CaseRowsOfFixture(t, fixture)
TestCasesForSymbol(t, id)        == CaseRowsOfSymbol(t, id)
DirectlyReferencedSymbols(t, c)  == Symbols(t, SymbolRowsOfCase(t, c))

TestedSymbolMapping(t, c, id) ==
  [case |-> c, symbol |-> id, references |-> {r.range : r \in TestReferenceRows(t, c, id)}]
TestedSymbolMappingsForCase(t, c) ==
  {TestedSymbolMapping(t, c, s.id) : s \in DirectlyReferencedSymbols(t, c)}
TestedSymbolMappingsForSymbol(t, id) ==
  {TestedSymbolMapping(t, c.id, id) : c \in TestCasesForSymbol(t, id)}
====

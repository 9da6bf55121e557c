---- MODULE SymbolMerge ----
(***************************************************************************)
(* The symbol facts of repository/model.py and their canonicalization in   *)
(* repository/symbol_merge.py: many observations of one identity become    *)
(* one symbol, or the whole collection is refused.                         *)
(*                                                                         *)
(* A position is one integer (line and column together), a range is        *)
(* half open, and files are numbered in path order.                        *)
(***************************************************************************)
EXTENDS Integers, FiniteSets

CONSTANT None      \* Python's None: absence of evidence, never a value

SourceRange(file, lo, hi) == [file |-> file, lo |-> lo, hi |-> hi]

\* One observation: what clangd said of identity id at one place.
Observation(id, kind, name, decl, def, parent, ns, site, pkind) ==
  [id |-> id, kind |-> kind, name |-> name, qname |-> id, decl |-> decl, def |-> def,
   parent |-> parent, ns |-> ns, site |-> site, pkind |-> pkind]

\* The scalar view of an observation, which Symbol(...) keeps.
Scalar(o) == [id |-> o.id, kind |-> o.kind, name |-> o.name, qname |-> o.qname,
              decl |-> o.decl, def |-> o.def, parent |-> o.parent, ns |-> o.ns]

\* A related symbol comes without a site of its own (refresh.py:327).
Endpoint(s) == [id |-> s.id, kind |-> s.kind, name |-> s.name, qname |-> s.qname,
                decl |-> s.decl, def |-> s.def, parent |-> s.parent, ns |-> s.ns,
                site |-> None, pkind |-> None]

Overlaps(r, s) ==
  /\ r.file = s.file
  /\ r.lo < s.hi /\ s.lo < r.hi
  /\ r.lo < r.hi /\ s.lo < s.hi

Encloses(outer, inner) ==
  outer.file = inner.file /\ outer.lo <= inner.lo /\ inner.hi <= outer.hi

Before(r, s) ==
  \/ r.file < s.file
  \/ r.file = s.file /\ r.lo < s.lo
  \/ r.file = s.file /\ r.lo = s.lo /\ r.hi <= s.hi

Values(facts, field) == {o[field] : o \in facts}
Known(facts, field)  == Values(facts, field) \ {None}
OneOf(S)             == IF S = {} THEN None ELSE CHOOSE v \in S : TRUE
AtMostOne(S)         == \A v, w \in S : v = w

Kind(facts) == OneOf(Values(facts, "kind"))

\* A namespace may be reopened: its first site stands for all of them.
Site(facts, role) ==
  LET ranges == Known(facts, role)
  IN IF ranges = {} THEN None ELSE CHOOSE r \in ranges : \A s \in ranges : Before(r, s)

\* Only an observation whose own selection overlaps the declaration says
\* where a member is declared.
DeclarationSites(facts) ==
  LET declaration == Site(facts, "decl")
  IN IF declaration = None THEN {}
     ELSE {o \in facts : /\ None \notin {o.site, o.parent, o.pkind}
                         /\ Overlaps(o.site, declaration)}

Presentations(facts) == {<<o.name, o.parent>> : o \in facts}

\* One name everywhere: containment is whatever is known of it.
Agreed(facts) == AtMostOne(Values(facts, "name")) /\ AtMostOne(Known(facts, "parent"))

\* Several names: a member of a class whose declaration sites agree, every
\* other observation agreeing with them or showing the namespace instead.
Proven(facts) ==
  LET sites == DeclarationSites(facts)
      owner == OneOf(Presentations(sites))
  IN /\ Kind(facts) \in {"method", "field"}
     /\ Cardinality(Values(facts, "name")) > 1
     /\ sites # {} /\ AtMostOne(Presentations(sites))
     /\ \A o \in sites : o.pkind \in {"class", "struct"}
     /\ \A o \in facts :
          \/ o.name = owner[1] /\ o.parent \in {None, owner[2]}
          \/ /\ o.site # None /\ o.pkind = "namespace"
             /\ o.parent # None /\ o.parent = OneOf(Known(facts, "ns"))
             /\ o.name # owner[1]

Mergeable(facts) ==
  /\ \A field \in {"kind", "qname"} : AtMostOne(Values(facts, field))
  /\ Kind(facts) # "namespace" => \A role \in {"decl", "def"} : AtMostOne(Known(facts, role))
  /\ AtMostOne(Known(facts, "ns"))
  /\ Agreed(facts) \/ Proven(facts)

Merge(facts) ==
  LET some  == CHOOSE o \in facts : TRUE
      owner == IF Agreed(facts) THEN <<some.name, OneOf(Known(facts, "parent"))>>
               ELSE OneOf(Presentations(DeclarationSites(facts)))
  IN [id |-> some.id, kind |-> some.kind, name |-> owner[1], qname |-> some.qname,
      decl |-> Site(facts, "decl"), def |-> Site(facts, "def"),
      parent |-> owner[2], ns |-> OneOf(Known(facts, "ns"))]

Ids(observations)       == Values(observations, "id")
Group(observations, id) == {o \in observations : o.id = id}

\* canonicalize_symbol_groups refuses the collection for one bad group.
Conflicting(observations) ==
  \E id \in Ids(observations) : ~Mergeable(Group(observations, id))

Canonical(observations) == {Merge(Group(observations, id)) : id \in Ids(observations)}
====

------------------------- MODULE ContextMaterialization -------------------------
(***************************************************************************)
(* materialize_context and materialize_snippets (context/materialization.py *)
(* and snippets.py): the accepted observations of both sides become one    *)
(* closed set of context candidates, and the source text of every range    *)
(* among them is read under the sessions of both sides.                    *)
(*                                                                         *)
(* An item is a tuple <<kind, x, y>>: an identity, a range (path and        *)
(* position), a fact, a relation, its evidence or a change mapping.  A      *)
(* candidate is an item on a side.  The flags and notes that candidates     *)
(* carry along are left out.                                                *)
(***************************************************************************)
EXTENDS ContextExpansion

CONSTANTS MaxBacking,   \* SnippetBounds.max_backing_characters
          Large         \* files above SnippetBounds.max_file_bytes

(* The kinds of the other items are not relations; every file that was      *)
(* fingerprinted has lines.                                                 *)
ASSUME KindsAssumption ==
  Relations \intersect {"identity", "range", "symbol", "declaration", "definition",
                        "node", "evidence", "change"} = {}
ASSUME LinesAssumption ==
  /\ Width \in Nat
  /\ \A s \in {"old", "new"} : \A path \in Knowledge[s].hashed : Knowledge[s].lines[path] \in Nat

VARIABLES
  candidates, \* ContextCandidates of both sides
  pending,   \* <<side, path>> groups of ranges still to be read
  output,    \* CandidateSnippets
  backings   \* SnippetBackings

vars == <<walk, setup, phase, mapping, side, expansion, spent, world, candidates, pending, output, backings>>

Init == ExpansionInit /\ candidates = {} /\ pending = {} /\ output = {} /\ backings = {}

SidesOf == {"old", "new"}

-----------------------------------------------------------------------------
(* walk: the records nested in a record, at every depth.                    *)
Identity(n) == <<"identity", n, n>>
RangeItem(x) == <<"range", x.path, x.at>>
Ranges(S) == {RangeItem(x) : x \in S \ {Absent}}

SymbolParts(k, s) == {Identity(s)} \union Ranges({k.declaration[s], k.definition[s]})

EdgeOf(k, item) == CHOOSE e \in k.edges : <<e.relation, e.source, e.target>> = item

(* A relation is a DirectCallRelation with the symbols of its ends when the *)
(* retrieval saw it, a GraphEdge with its evidence when the walk did.       *)
RelationParts(k, item, origins) ==
  LET ends == IF "retrieval" \in origins THEN {item[2], item[3]} \intersect k.symbols ELSE {}
  IN  {Identity(item[2]), Identity(item[3])} \union Ranges({k.evidence[EdgeOf(k, item)]})
        \union {<<"evidence", item, item>> : o \in origins \intersect {"expansion"}}
        \union {<<"symbol", s, s>> : s \in ends} \union UNION {SymbolParts(k, s) : s \in ends}

(* The stored extents of a symbol that a changed range touches.             *)
Touching(k, s, a) ==
  {x \in {k.declaration[s], k.definition[s]} \ {Absent} :
     x.path = a.path /\ ExtentRelation(a.range, x.at) # "none"}

(* The changed range itself is added beside the mapping, and linked to it.  *)
ChangedRange(a) ==
  IF a.path = Absent \/ a.range = Absent THEN {}
  ELSE {<<"range", a.path, <<<<a.range[1], 1>>, <<a.range[2], 1>>>>>>}

MatchParts(k, s, a) == {Identity(s)} \union Ranges(Touching(k, s, a))

ChangeParts(k, a, symbols) == ChangedRange(a) \union UNION {MatchParts(k, s, a) : s \in symbols}

Parts(k, item, origins) ==
  CASE item[1] \in {"identity", "range"} -> {}
    [] item[1] = "symbol" -> SymbolParts(k, item[2])
    [] item[1] = "declaration" -> {Identity(item[2])} \union Ranges({k.declaration[item[2]]})
    [] item[1] = "definition" -> {Identity(item[2])} \union Ranges({k.definition[item[2]]})
    [] item[1] = "node" -> {Identity(item[2])} \union Ranges(k.anchors[item[2]])
    [] item[1] = "evidence" -> Ranges({k.evidence[EdgeOf(k, item[2])]})
    [] item[1] = "change" -> ChangeParts(k, anchors[item[2]], outcomes[item[2]].symbols)
    [] OTHER -> RelationParts(k, item, origins)

(* _Extractor: everything a side observed, and the stage that observed it.  *)
Contributed(s) ==
  {[item |-> f.key, origin |-> "retrieval", hashes |-> f.files] :
     f \in UNION {c.facts : c \in UNION {retrieved[t].candidates : t \in {s} \intersect DOMAIN retrieved}}}
  \union (UNION {{[item |-> i, origin |-> "expansion", hashes |-> o.files] :
                     i \in {<<"node", n, n>> : n \in o.nodes}
                             \union {<<e.relation, e.source, e.target>> : e \in o.edges}} : o \in Observed(s)})
  \union {[item |-> <<"change", i, i>>, origin |-> "change_mapping",
           hashes |-> IF s \in setup.available THEN Knowledge[s].hashed ELSE {}] :
            i \in {j \in DOMAIN anchors : anchors[j].side = s}}

OwnRanges(item, parts) == {p \in parts \union {item} : p[1] = "range"}

(* The records of a side: each added item and each record nested in it, the *)
(* links and the source hashes of its several additions united.             *)
Origins(added, item) == {c.origin : c \in {d \in added : d.item = item}}

Within(s, c) == {c.item} \union Parts(Knowledge[s], c.item, {c.origin})

RecordOf(s, added, item) ==
  LET parts == Parts(Knowledge[s], item, Origins(added, item))
      ranges == OwnRanges(item, parts)
  IN  [side |-> s, item |-> item, deps |-> parts \ {item}, ranges |-> ranges,
       hashes |-> {r[2] : r \in ranges} \intersect UNION {c.hashes : c \in {d \in added : item \in Within(s, d)}}]

Records(s) ==
  LET added == Contributed(s)
  IN  {RecordOf(s, added, item) : item \in UNION {Within(s, c) : c \in added}}

(* The second pass of materialize_context: an identity stands for whatever  *)
(* ranges the facts about it have, and is linked to those ranges directly.  *)
FactsAbout(records, c) == {f \in records : f.item[1] \in {"symbol", "node"} /\ f.item[2] = c.item[2]}

Located(records, c) ==
  LET facts == FactsAbout(records, c)
      ranges == UNION {f.ranges : f \in facts}
  IN  IF c.item[1] # "identity" THEN c
      ELSE [c EXCEPT !.ranges = ranges, !.deps = ranges, !.hashes = UNION {f.hashes : f \in facts}]

Sourced(records) == {Located(records, c) : c \in records}

Extract ==
  /\ phase = "materialize"
  /\ candidates' = UNION {Sourced(Records(s)) : s \in SidesOf}
  /\ phase' = "open"
  /\ UNCHANGED <<walk, setup, mapping, side, expansion, spent, world, pending, output, backings>>

-----------------------------------------------------------------------------
Snippet(c, status, backing) == [side |-> c.side, item |-> c.item, status |-> status, backing |-> backing]

RangesOf(s) == {c \in candidates : c.side = s /\ c.item[1] = "range"}
Group(s, path) == {c \in RangesOf(s) : c.item[2] = path}
Groups == UNION {{<<s, c.item[2]>> : c \in RangesOf(s)} : s \in setup.available}

(* Ranges of a side without a session are answered without being read; a    *)
(* scope that cannot be entered answers for none.                           *)
OpenScopes ==
  /\ phase = "open"
  /\ output' = {Snippet(c, "source_unavailable", Absent) : c \in UNION {RangesOf(s) : s \in SidesOf \ setup.available}}
  /\ IF Groups # {} /\ Drifted({g[1] : g \in Groups})
     THEN phase' = "failed" /\ UNCHANGED pending
     ELSE phase' = "read" /\ pending' = Groups
  /\ UNCHANGED <<walk, setup, mapping, side, expansion, spent, world, candidates, backings>>

Offset(p) == (p[1] - 1) * (Width + 1) + p[2] - 1

(* Intervals in their order are cut into clusters where one of them begins  *)
(* after all before it have ended: overlapping ranges share one backing     *)
(* text, adjacent ones do not.                                              *)
Earlier(i, j) == i.start < j.start \/ (i.start = j.start /\ i.end < j.end)

Begins(intervals, i) == \A j \in intervals : Earlier(j, i) => j.end <= i.start

ClusterOf(intervals, b) ==
  {j \in intervals : /\ ~Earlier(j, b)
                     /\ \A c \in intervals : Begins(intervals, c) /\ Earlier(b, c) => Earlier(j, c)}

Clusters(intervals) == {ClusterOf(intervals, b) : b \in {i \in intervals : Begins(intervals, i)}}

Span(c) == [start |-> CHOOSE x \in {i.start : i \in c} : \A i \in c : x <= i.start,
            end |-> CHOOSE x \in {i.end : i \in c} : \A i \in c : i.end <= x]

(* One file of one side: its bytes are read once, compared with the hash    *)
(* the snapshot recorded, and cut into the texts of its ranges.             *)
Refusal(g) ==
  IF g[2] \in Large THEN "materialization_limit"
  ELSE IF g[2] \notin Knowledge[g[1]].hashed \/ g \in edited THEN "source_hash_mismatch"
  ELSE "none"

Valid(g, at) == \A p \in {at[1], at[2]} : ValidPosition(p, Knowledge[g[1]].lines[g[2]])

Verdict(g, refusal, c) ==
  IF refusal # "none" THEN refusal
  ELSE IF g[2] \notin c.hashes THEN "source_hash_mismatch"
  ELSE IF ~Valid(g, c.item[3]) THEN "range_invalid" ELSE "none"

Intervals(g, refusal) ==
  {[start |-> Offset(c.item[3][1]), end |-> Offset(c.item[3][2]), of |-> c] :
     c \in {d \in Group(g[1], g[2]) : Verdict(g, refusal, d) = "none"}}

Backing(g, c) ==
  [side |-> g[1], path |-> g[2], span |-> Span(c), text |-> IF g \in edited THEN "edited" ELSE "bound"]

Backed(c) == Span(c).end - Span(c).start <= MaxBacking

Cut(g, c, i) == IF Backed(c) THEN Snippet(i.of, "available", Backing(g, c))
                             ELSE Snippet(i.of, "materialization_limit", Absent)

ReadWhole(g, refusal) ==
  LET clusters == Clusters(Intervals(g, refusal))
  IN  /\ output' = output
           \union {Snippet(c, Verdict(g, refusal, c), Absent) :
                     c \in {d \in Group(g[1], g[2]) : Verdict(g, refusal, d) # "none"}}
           \union UNION {{Cut(g, c, i) : i \in c} : c \in clusters}
      /\ backings' = backings \union {Backing(g, c) : c \in {d \in clusters : Backed(d)}}

(* A read that trusts the validation of its scope.                          *)
ReadUnchecked(g) ==
  /\ phase = "read" /\ g \in pending
  /\ pending' = pending \ {g}
  /\ ReadWhole(g, IF g[2] \in Large THEN "materialization_limit" ELSE "none")
  /\ UNCHANGED <<walk, setup, phase, mapping, side, expansion, spent, world, candidates>>

Read(g) ==
  /\ phase = "read" /\ g \in pending
  /\ pending' = pending \ {g}
  /\ ReadWhole(g, Refusal(g))
  /\ UNCHANGED <<walk, setup, phase, mapping, side, expansion, spent, world, candidates>>

CloseScopes ==
  /\ phase = "read" /\ pending = {}
  /\ phase' = IF Drifted({g[1] : g \in Groups}) THEN "failed" ELSE "done"
  /\ UNCHANGED <<walk, setup, mapping, side, expansion, spent, world, candidates, pending, output, backings>>

(* A scope that was not valid to the end publishes no text of either side.  *)
Withdraw ==
  /\ phase = "failed"
  /\ output' = {o \in output : o.side \notin setup.available}
       \union {Snippet(c, "consistency_failure", Absent) : c \in UNION {RangesOf(s) : s \in setup.available}}
  /\ backings' = {} /\ pending' = {}
  /\ phase' = "done"
  /\ UNCHANGED <<walk, setup, mapping, side, expansion, spent, world, candidates>>

Materialize == Extract \/ OpenScopes \/ (\E g \in pending : Read(g)) \/ CloseScopes \/ Withdraw

(* The environment: files of a workspace are edited and put back.           *)
Edit(s, path) ==
  /\ edits < setup.edits /\ phase \notin {"done", "aborted"}
  /\ edits' = edits + 1
  /\ edited' = IF <<s, path>> \in edited THEN edited \ {<<s, path>>} ELSE edited \union {<<s, path>>}
  /\ UNCHANGED <<walk, setup, phase, mapping, side, expansion, spent, faults, candidates, pending, output, backings>>

Surroundings == \E s \in setup.available : \E path \in Knowledge[s].hashed : Edit(s, path)

Pipeline == (Map \/ Retrieve \/ Abort \/ Expand) /\ UNCHANGED <<candidates, pending, output, backings>>

Next == Pipeline \/ Materialize \/ Surroundings

Spec == Init /\ [][Next]_vars

-----------------------------------------------------------------------------
(* Whenever the context is handed out, its constructor would accept it: no  *)
(* dependency leads outside it or back to itself, both ends of a relation   *)
(* are in it, every range of every candidate has exactly one verdict, and a *)
(* text that is handed out is the text the snapshot was made from, lies in   *)
(* the backing it names and shares no character with another backing, even  *)
(* when files are edited and put back while they are being read.            *)
ContextIsSound ==
  phase = "done" =>
    /\ \A c \in candidates :
         LET items == {d.item : d \in {x \in candidates : x.side = c.side}}
         IN  /\ c.deps \union c.ranges \subseteq items
             /\ c.item \notin c.deps
             /\ c.item[1] \in Relations => {Identity(c.item[2]), Identity(c.item[3])} \subseteq c.deps
    /\ \A c \in candidates : c.item[1] = "range" =>
         Cardinality({o \in output : o.side = c.side /\ o.item = c.item}) = 1
    /\ \A o \in output : o.status = "available" =>
         /\ o.backing \in backings /\ o.backing.text = "bound"
         /\ o.backing.span.start <= Offset(o.item[3][1]) /\ Offset(o.item[3][2]) <= o.backing.span.end
    /\ \A b, c \in backings : b # c /\ b.side = c.side /\ b.path = c.path =>
         b.span.end <= c.span.start \/ c.span.end <= b.span.start

(* What the expansion leaves out it says it left out.  If every changed     *)
(* range of a side was mapped, without a doubt about an extent, or does not *)
(* exist there, and every report of its expansion is ok, then the           *)
(* observations of the side hold every node that can be reached, within the *)
(* depth and in the direction of the policy and along its available         *)
(* relations, from a symbol whose stored extent the change touches.         *)
Touched(s) ==
  LET k == Knowledge[s]
      ranges == {anchors[i] : i \in {j \in DOMAIN anchors :
                   anchors[j].side = s /\ anchors[j].path # Absent /\ anchors[j].range # Absent}}
  IN  {y \in k.symbols : \E a \in ranges : Touching(k, y, a) # {}}

Neighbours(p, k, n) ==
  LET usable == {e \in k.edges : e.relation \in p.relations \ k.unavailable}
  IN  {e.target : e \in {x \in usable : p.direction # "incoming" /\ x.source = n}}
        \union {e.source : e \in {x \in usable : p.direction # "outgoing" /\ x.target = n}}

(* What can be reached under a policy within each depth.                    *)
Reached(p, k, start) ==
  LET within[d \in 0..p.maxDepth] ==
        IF d = 0 THEN start \intersect k.nodes
        ELSE within[d - 1] \union UNION {Neighbours(p, k, n) : n \in within[d - 1]}
  IN  within

Reach(k, start) == Reached(policy, k, start)[policy.maxDepth]

Mapped(s) ==
  \A i \in DOMAIN anchors : anchors[i].side = s =>
    outcomes[i].status \in {"mapped", "not_applicable"} /\ "invalid_range" \notin outcomes[i].notes

NothingLostInSilence ==
  phase = "done" => \A s \in setup.available :
    Mapped(s) /\ (\A i \in DOMAIN reports[s] : reports[s][i].status = "ok")
      => Reach(Knowledge[s], Touched(s)) \subseteq UNION {o.nodes : o \in Observed(s)}

(* A fact that a channel finds for a query of a side is a candidate of that *)
(* side, found by that query, unless the query's own report says that it    *)
(* was cut short, could not be resolved or failed, or the query was beyond  *)
(* the limit, has no report, and the result says that it is truncated.      *)
FoundBy(k, q) ==
  LET plan == Retrieval!Plan(k, q)
  IN  {plan[i].fact : i \in {j \in DOMAIN plan : plan[j].op = "offer" /\ \A m \in 1..j : plan[m].op # "unresolved"}}

FactsAreKept ==
  \A s \in DOMAIN retrieved :
    \A q \in RequestOf(s).queries : \A f \in FoundBy(Knowledge[s], q) :
      \/ \E c \in retrieved[s].candidates : c.key = f.key /\ q \in c.queries
      \/ \E r \in retrieved[s].reports : r.query = q /\ r.status \in {"truncated", "unresolved", "failure"}
      \/ retrieved[s].truncated /\ \A r \in retrieved[s].reports : r.query # q
=============================================================================

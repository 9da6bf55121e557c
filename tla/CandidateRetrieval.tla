--------------------------- MODULE CandidateRetrieval ---------------------------
(***************************************************************************)
(* Candidate retrieval for one side of a change (retrieval/service.py,     *)
(* channels.py, candidates.py): every query runs one channel over the      *)
(* snapshot under call, record and result budgets; its facts are admitted  *)
(* under a budget per channel and merged into candidates by fact key; the  *)
(* total is cut last.                                                      *)
(*                                                                         *)
(* A channel is modelled as its plan: the sequence of calls, offers and    *)
(* refusals its code goes through for this snapshot.  A fact carries what   *)
(* the budgets and the later stages tell apart: its key, its files, the     *)
(* identity it proves (or Absent) and whether its source is unresolved.     *)
(***************************************************************************)
EXTENDS Integers, Sequences, FiniteSets, Ordering

CONSTANTS Absent,
          Channels,   \* the seed channels of the request
          Bounds,     \* RetrievalBounds: [queries, calls, results, records, perChannel, total]
          KeyRank,    \* the order of fact keys (and of candidate ids)
          QueryRank,  \* the order of queries
          Faulty      \* queries whose backend fails: {} or some <<channel, seed>>

SeedOf(kb, q) == {q.seed} \intersect kb.symbols

(* Facts.  A call relation keeps one key whether it is seen from its caller *)
(* or from its callee.                                                      *)
Fact(key, files, identity, unresolved) ==
  [key |-> key, files |-> files, identity |-> identity, unresolved |-> unresolved]

FilesOf(extent) == IF extent = Absent THEN {} ELSE {extent.path}

SymbolFiles(kb, s) == FilesOf(kb.declaration[s]) \union FilesOf(kb.definition[s])

SymbolFact(kb, s) == Fact(<<"symbol", s, s>>, SymbolFiles(kb, s), s, FALSE)

RangeOf(role, extent, s) == Fact(<<role, s, s>>, FilesOf(extent), s, FALSE)

CallFact(kb, e) ==
  LET ends == {e.source, e.target} \intersect kb.symbols
  IN  Fact(<<"call", e.source, e.target>>, FilesOf(kb.evidence[e]) \union UNION {SymbolFiles(kb, s) : s \in ends},
           Absent, Cardinality(ends) < Cardinality({e.source, e.target}))

NodeFact(kb, n) == Fact(<<"node", n, n>>, {x.path : x \in kb.anchors[n]}, n, kb.anchors[n] = {})

(* _ChannelRun.run: what the channel of a query does, as events.            *)
Call == <<[op |-> "call"]>>
Offer(f) == <<[op |-> "offer", fact |-> f]>>
Note(n) == <<[op |-> "note", note |-> n]>>
Stop(n) == <<[op |-> "unresolved", note |-> n]>>

ByKey(S) == Ordered(S, LAMBDA f : KeyRank[f.key])

Offers(S) == [i \in DOMAIN ByKey(S) |-> [op |-> "offer", fact |-> ByKey(S)[i]]]

Plan(kb, q) ==
  LET s == q.seed
      extent == IF q.channel = "declaration" THEN kb.declaration[s] ELSE kb.definition[s]
      calls == {e \in kb.edges : e.relation = "call"
                  /\ (IF q.channel = "callers" THEN e.target ELSE e.source) = s}
      \* symbols(): one call finds the seed; a seed of unhashed source is dropped
      seed == IF SeedOf(kb, q) = {} THEN Call \o Stop("symbol_seed_not_resolved")
              ELSE IF SymbolFiles(kb, s) \subseteq kb.hashed THEN Call
              ELSE Call \o Note("seed_source_outside_binding_fingerprint") \o Stop("symbol_seed_not_resolved")
      body == CASE q.channel = "symbol" -> Offer(SymbolFact(kb, s))
                [] q.channel \in {"declaration", "definition"} ->
                     Call \o (IF extent = Absent THEN Note("source_range_not_recorded")
                              ELSE Offer(RangeOf(q.channel, extent, s)))
                [] q.channel \in {"callers", "callees"} -> Call \o Offers({CallFact(kb, e) : e \in calls})
                [] q.channel = "graph_node" ->
                     Call \o (IF s \in kb.nodes THEN Offer(NodeFact(kb, s)) ELSE Note("graph_seed_not_resolved"))
  IN  seed \o body

(* call, offer and execute: one event of a plan under the budgets.  A limit *)
(* or an unresolved seed ends the run and keeps what was collected; a       *)
(* backend failure ends it and keeps nothing.                               *)
Fresh(q, used) == [query |-> q, used |-> used, observed |-> 0, facts |-> {}, notes |-> {},
                   truncated |-> FALSE, unresolved |-> FALSE, ended |-> FALSE, failed |-> FALSE]

Limit(r, note) == [r EXCEPT !.truncated = TRUE, !.notes = @ \union {note}, !.ended = TRUE]
Doubt(r, note) == [r EXCEPT !.unresolved = TRUE, !.notes = @ \union {note}]

Called(r) ==
  IF r.used >= Bounds.calls THEN Limit(r, "channel_call_limit")
  ELSE IF <<r.query.channel, r.query.seed>> \in Faulty
       THEN [r EXCEPT !.used = @ + 1, !.failed = TRUE, !.ended = TRUE]
       ELSE [r EXCEPT !.used = @ + 1]

Offered(kb, r0, f) ==
  LET r == [r0 EXCEPT !.observed = @ + 1]
      doubted == IF f.unresolved THEN Doubt(r, "fact_has_unresolved_endpoint") ELSE r
      keys == {g.key : g \in r.facts}
  IN  IF r.observed > Bounds.records THEN Limit(r, "record_inspection_limit")
      ELSE IF ~ f.files \subseteq kb.hashed THEN Doubt(r, "source_outside_binding_fingerprint")
      ELSE IF f.key \notin keys /\ Cardinality(keys) >= Bounds.results THEN Limit(r, "query_result_limit")
      ELSE [doubted EXCEPT !.facts = @ \union {f}]

OnEvent(kb, r, e) ==
  IF r.ended THEN r
  ELSE CASE e.op = "call" -> Called(r)
         [] e.op = "offer" -> Offered(kb, r, e.fact)
         [] e.op = "note" -> Doubt(r, e.note)
         [] e.op = "unresolved" -> [Doubt(r, e.note) EXCEPT !.ended = TRUE]

Execute(kb, q, used) ==
  LET plan == Plan(kb, q)
      run[i \in 0..Len(plan)] == IF i = 0 THEN Fresh(q, used) ELSE OnEvent(kb, run[i - 1], plan[i])
  IN  run[Len(plan)]

ResultFacts(r) == IF r.failed THEN {} ELSE r.facts

Status(r, cut) ==
  IF r.failed THEN "failure"
  ELSE IF cut \/ r.truncated THEN "truncated"
  ELSE IF r.unresolved THEN "unresolved"
  ELSE IF r.facts = {} THEN "empty" ELSE "ok"

-----------------------------------------------------------------------------
(* CandidateRetriever.retrieve: the facts of a query are admitted in the    *)
(* order of their keys while their channel has room; a fact already         *)
(* admitted through the channel is merged, whatever room is left.           *)
Nothing == [admitted |-> {}, candidates |-> {}, reports |-> {},
            calls |-> [c \in Channels |-> 0]]

(* A store of candidates is a set of [key, facts, queries, unresolved].     *)
Same(store, f) == {c \in store : c.key = f.key}

(* A merge that remembers only the last query.                              *)
MergedLatest(store, f, q) ==
  (store \ Same(store, f)) \union
  {[key |-> f.key, facts |-> {f} \union UNION {c.facts : c \in Same(store, f)}, queries |-> {q},
    unresolved |-> f.unresolved \/ \E c \in Same(store, f) : c.unresolved]}

Merged(store, f, q) ==
  LET same == Same(store, f)
  IN  (store \ same) \union
      {[key |-> f.key,
        facts |-> {f} \union UNION {c.facts : c \in same},
        queries |-> {q} \union UNION {c.queries : c \in same},
        unresolved |-> f.unresolved \/ \E c \in same : c.unresolved]}

AdmitFact(q, state, f) ==
  LET taken == {p[2] : p \in {x \in state.admitted : x[1] = q.channel}}
  IN  IF f.key \notin taken /\ Cardinality(taken) >= Bounds.perChannel
      THEN [state EXCEPT !.cut = TRUE]
      ELSE [state EXCEPT !.admitted = @ \union {<<q.channel, f.key>>},
                         !.retained = @ \union {f.key},
                         !.candidates = Merged(@, f, q)]

AdmitFacts(q, start, facts) ==
  LET state[i \in 0..Len(facts)] == IF i = 0 THEN start ELSE AdmitFact(q, state[i - 1], facts[i])
  IN  state[Len(facts)]

(* The report of a query, and what it leaves to the next one.               *)
Recorded(acc, q, result, after) ==
  LET report == [query |-> q, status |-> Status(result, after.cut), keys |-> after.retained,
                 truncated |-> after.cut \/ result.truncated,
                 notes |-> result.notes \union (IF after.cut THEN {"channel_candidate_limit"} ELSE {})]
  IN  [acc EXCEPT !.admitted = after.admitted, !.candidates = after.candidates,
                  !.reports = @ \union {report},
                  !.calls[q.channel] = result.used]

AdmitQuery(kb, acc, q) ==
  LET result == Execute(kb, q, acc.calls[q.channel])
      start == [admitted |-> acc.admitted, retained |-> {}, candidates |-> acc.candidates, cut |-> FALSE]
  IN  Recorded(acc, q, result, AdmitFacts(q, start, ByKey(ResultFacts(result))))

InOrder(queries) == Ordered(queries, LAMBDA q : QueryRank[<<q.channel, q.seed>>])

CutReport(selected, r) ==
  IF r.keys \subseteq selected THEN r
  ELSE [r EXCEPT !.keys = @ \intersect selected, !.status = "truncated", !.truncated = TRUE,
                 !.notes = @ \union {"total_candidate_limit"}]

AdmitQueries(kb, asked, n) ==
  LET state[i \in 0..n] == IF i = 0 THEN Nothing ELSE AdmitQuery(kb, state[i - 1], asked[i])
  IN  state[n]

Retrieve(kb, request) ==
  LET asked == InOrder(request.queries)
      run == AdmitQueries(kb, asked, IF Len(asked) < Bounds.queries THEN Len(asked) ELSE Bounds.queries)
      keys == {c.key : c \in run.candidates}
      selected == Least(keys, Bounds.total, LAMBDA k : KeyRank[k])
      reports == {CutReport(selected, r) : r \in run.reports}
  IN  [candidates |-> {c \in run.candidates : c.key \in selected},
       reports |-> reports, request |-> request,
       truncated |-> \/ Len(asked) > Bounds.queries
                     \/ selected # keys
                     \/ \E r \in reports : r.truncated]
=============================================================================

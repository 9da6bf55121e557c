---- MODULE MCIndexBuild ----
(* Files 1 (a header), 2 (its source) and 3 (the tests).  Class cls with     *)
(* method mth lives in namespace nsp; fun calls mth; oth is only ever met as *)
(* the endpoint of a call.  Another fun is an overload, or a function of the *)
(* same display name elsewhere.                                              *)
EXTENDS IndexBuild, TLC

CONSTANTS nsp, cls, aux, mth, fun, oth, ovl

R(f, lo, hi) == SourceRange(f, lo, hi)

Space1 == Observation(nsp, "namespace", "nsp", R(1, 0, 30), None, None, None, R(1, 0, 1), None)
Space2 == Observation(nsp, "namespace", "nsp", R(2, 0, 30), None, None, None, R(2, 0, 1), None)
Forward == Observation(cls, "class", "cls", R(2, 1, 2), None, nsp, nsp, R(2, 1, 2), "namespace")
Class  == Observation(cls, "class", "cls", R(2, 1, 2), R(1, 3, 4), nsp, nsp, R(1, 3, 4), "namespace")
Twofold == Observation(aux, "class", "aux", R(2, 3, 4), R(1, 7, 8), nsp, nsp, R(1, 7, 8), "namespace")
Inside == Observation(mth, "method", "mth", R(1, 5, 6), R(2, 5, 6), cls, nsp, R(1, 5, 6), "class")
Outside == Observation(mth, "method", "cls::mth", R(1, 5, 6), R(2, 5, 6), nsp, nsp, R(2, 5, 6), "namespace")
Caller == Observation(fun, "function", "fun", None, R(2, 7, 8), None, nsp, R(2, 7, 8), None)

Namesake == Observation(ovl, "function", "fun", R(2, 9, 10), None, None, nsp, R(2, 9, 10), None)
Overload == [Namesake EXCEPT !.qname = fun]

Known1 == Observation(fun, "function", "fun", R(1, 9, 10), None, None, None, R(1, 9, 10), None)
Known2 == Observation(fun, "function", "fun", R(1, 11, 12), None, nsp, nsp, R(1, 11, 12), "namespace")
Bare   == Observation(oth, "function", "oth", R(1, 13, 14), None, None, None, R(1, 13, 14), None)
Wrong  == Observation(mth, "method", "mth", R(1, 5, 6), None, nsp, None, R(1, 15, 16), "namespace")

ClassOf(name)   == Token("class", name, "", 0)
Test(name, case, span) == Token("test", name, case, span)
Mark(t, span)  == Token(t, "", "", span)
Word(id, span) == Token("word", id, "", span)
Empty(span)    == <<Mark(")", span), Mark("{", span), Mark("}", span)>>

\* Two cases of one name, one fixture declared between them.
Twice == <<Test("F", "a", 0), Mark(")", 0), Mark("{", 0), Word(mth, 0), Mark("}", 0),
           ClassOf("F"), Test("F", "a", 0), Mark(")", 0), Mark("{", 0), Word(fun, 0), Mark("}", 0)>>
\* A nested block, a brace in a comment, a case commented out inside a body.
Nested == <<ClassOf("F"), Test("F", "a", 0), Mark(")", 0), Mark("}", 1), Mark("{", 0), Mark("{", 0),
            Mark("}", 2), Word(mth, 0), Mark("}", 0), Word(fun, 0), Test("F", "b", 3)>>
          \o Empty(3) \o <<Mark("}", 0), Word(fun, 0), Test("F", "c", 0), Mark(")", 0), Word(mth, 0)>>
\* A case without an end, and one of another fixture after it.
Cut    == <<Test("F", "a", 0), Mark(")", 0), Mark("{", 0), Word(fun, 0),
            Test("G", "b", 0), Mark(")", 0), Mark("{", 0), Word(fun, 0), Mark("}", 0)>>

World(mode, observations, related, calls, queries, source, readable) ==
  [mode |-> mode, observations |-> observations, related |-> related, calls |-> calls,
   queries |-> queries, sources |-> (3 :> source), readable |-> readable]

Pairs == {<<fun, mth>>, <<mth, oth>>, <<nsp, fun>>, <<mth, fun>>}

MCWorlds ==
  {World("refresh", {Caller, Space1} \cup seen, related, Pairs, {}, source, TRUE) :
     seen \in SUBSET {Space2, Class, Inside, Outside}, related \in SUBSET {Known1, Known2, Bare, Wrong, Inside},
     source \in {Twice, Nested}}
  \cup {World("refresh", seen, {}, {}, {}, Cut, readable) :
     seen \in {{Forward, Twofold}, {Class, Twofold}}, readable \in BOOLEAN}
  \cup {World("prepare", {Class, Inside, Outside}, {Known1, Known2, Bare}, Pairs, queries, source, TRUE) :
     queries \in {{}, {<<mth, "callees">>, <<cls, "references">>}, {<<fun, "callers">>}},
     source \in {Nested, Cut}}
  \cup {World("refresh", {Caller, other}, {Known1, Bare}, Pairs, {}, Twice, TRUE) :
     other \in {Namesake, Overload}}

MCEdits == {World("prepare", {Outside, Caller, Space1}, {Bare}, Pairs,
                  {<<mth, "callees">>, <<fun, "references">>}, source, TRUE) : source \in {Twice, Cut}}

MCRules == {[role |-> "model", qname |-> cls, file |-> 2, component |-> "text"],
            [role |-> "model", qname |-> aux, file |-> 1, component |-> "text"],
            [role |-> "pattern", qname |-> aux, file |-> 2, component |-> "text"]}
====

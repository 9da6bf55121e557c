---- MODULE TestDiscovery ----
(***************************************************************************)
(* repository/test_discovery.py: lexical recognition of fixture tests.     *)
(*                                                                         *)
(* A source is a sequence of tokens [t, name, case, span]: a class          *)
(* declaration, a whole invocation TEST_F(name, case up to the end of the  *)
(* case name, a bracket, or a word.  span is 0 in code and k in the k-th   *)
(* comment.  The regular expressions look into comments; the delimiter     *)
(* matcher skips a comment unless it starts inside it.  Token i stands at  *)
(* the positions 3*i .. 3*i+2 of its file.                                 *)
(***************************************************************************)
EXTENDS SymbolMerge, Sequences

Token(t, name, case, span) == [t |-> t, name |-> name, case |-> case, span |-> span]

At(file, i, from, to) == SourceRange(file, 3 * i + from, 3 * i + to)

Where(source, t) == {i \in DOMAIN source : source[i].t = t}

Highest(S) == CHOOSE i \in S : \A j \in S : j <= i
Lowest(S)  == CHOOSE i \in S : \A j \in S : i <= j

\* What a scan that starts at token i reads after it.
Visible(source, i) == {j \in i + 1 .. Len(source) : source[j].span \in {0, source[i].span}}

\* An invocation opens the parenthesis of its arguments.
Opening(bracket) == IF bracket = "(" THEN {"(", "test"} ELSE {"{"}
Closing(bracket) == IF bracket = "(" THEN ")" ELSE "}"

MatchingToEnd(source, scan, start, bracket) ==
  LET Upto(j, ts) == Cardinality({k \in scan : start < k /\ k <= j /\ source[k].t \in ts})
      ends == {j \in scan : /\ start < j /\ source[j].t = Closing(bracket)
                            /\ Upto(j, {Closing(bracket)}) = 1 + Upto(j, Opening(bracket))}
  IN IF ends = {} THEN Len(source) ELSE Lowest(ends)

\* _matching_delimiter: the first close that balances the open at start.
Matching(source, scan, start, bracket) ==
  LET Upto(j, ts) == Cardinality({k \in scan : start < k /\ k <= j /\ source[k].t \in ts})
      ends == {j \in scan : /\ start < j /\ source[j].t = Closing(bracket)
                            /\ Upto(j, {Closing(bracket)}) = 1 + Upto(j, Opening(bracket))}
  IN IF ends = {} THEN None ELSE Lowest(ends)

\* _test_body_range: the compound statement right after the arguments, with
\* nothing but trivia between.
Body(file, source, test) ==
  LET scan    == Visible(source, test)
      closing == Matching(source, scan, test, "(")
      rest    == IF closing = None THEN {} ELSE {j \in scan : j > closing}
      opening == IF rest = {} THEN None ELSE Lowest(rest)
      braced  == IF opening = None THEN FALSE ELSE source[opening].t = "{"
      end     == IF braced THEN Matching(source, scan, opening, "{") ELSE None
  IN IF end = None THEN None ELSE SourceRange(file, 3 * opening, 3 * end + 1)

\* _fixture_range and the identity: the nearest preceding class of that name,
\* or the name alone at its first use.
FixtureOf(file, source, test) ==
  LET name    == source[test].name
      classes == {i \in Where(source, "class") : source[i].name = name /\ i < test}
      uses    == {i \in Where(source, "test") :
                    /\ source[i].name = name
                    /\ ~\E j \in Where(source, "class") : source[j].name = name /\ j < i}
  IN IF classes # {}
       THEN [id |-> <<"fixture", file, name, Highest(classes)>>, name |-> name,
             range |-> At(file, Highest(classes), 0, 1)]
       ELSE [id |-> <<"fixture", file, name>>, name |-> name,
             range |-> At(file, Lowest(uses), 0, 1)]

CaseOfName(file, source, test) ==
  [id |-> <<"case", file, source[test].name, source[test].case>>,
   name |-> source[test].case, fixture |-> FixtureOf(file, source, test).id,
   range |-> At(file, test, 1, 2), body |-> Body(file, source, test)]

CaseOf(file, source, test) ==
  [id |-> <<"case", file, source[test].name, source[test].case, test>>,
   name |-> source[test].case, fixture |-> FixtureOf(file, source, test).id,
   range |-> At(file, test, 1, 2), body |-> Body(file, source, test)]

\* discover over every test file; sources is a function on the files.
Fixtures(sources) == UNION {{FixtureOf(f, sources[f], i) : i \in Where(sources[f], "test")} :
                            f \in DOMAIN sources}
Cases(sources)    == UNION {{CaseOf(f, sources[f], i) : i \in Where(sources[f], "test")} :
                            f \in DOMAIN sources}
====

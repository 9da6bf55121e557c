---------------------------- MODULE MCChangeImpact ----------------------------
(* Sources a and b, headers h and g, a table x that is included under no     *)
(* header's name, and the configuration file k.                              *)
EXTENDS ChangeImpact, TLC

CONSTANTS a, b, h, g, x, k, plain, deep, wide, O1, O2

MCExtension == [p \in {a, b} |-> "source"] @@ [p \in {h, g} |-> "header"] @@ [p \in {x, k} |-> "other"]

\* deep text includes a header; wide text includes another header, and under
\* O2 a source and the table as well.
MCIncludes ==
  [c \in (Texts \union {Absent}) \X Arguments |->
     CASE c[1] = deep -> {h}
       [] c[1] = wide -> IF c[2] = O2 THEN {g, b, x} ELSE {g}
       [] OTHER -> {}]

Side(tree, commands, exact, short) ==
  [tree |-> tree, database |-> "read", commands |-> commands, exact |-> exact, short |-> short, broken |-> {}]

Tree(ta, tb, th, tg) ==
  (a :> ta) @@ (b :> tb) @@ (h :> th) @@ (g :> tg) @@ (x :> plain) @@ (k :> plain)

MCCheckouts ==
  {Side(Tree(deep, plain, wide, plain), {<<a, O1>>, <<b, O1>>}, {}, {a, b}),
   Side(Tree(deep, plain, Absent, Absent), {<<a, O1>>, <<b, O2>>}, {<<b, O2>>}, {a}),
   Side(Tree(wide, plain, plain, Absent), {<<a, O1>>, <<a, O2>>}, {<<a, O1>>, <<a, O2>>}, {b}),
   Side(Tree(wide, wide, deep, plain), {<<a, O2>>, <<b, O1>>}, {<<a, O2>>}, {a})}
=============================================================================

------------------------------- MODULE MCContext -------------------------------
(* A repository of three functions in two files, before and after a change.  *)
EXTENDS ContextMaterialization

CONSTANT absent

MCNodes == {"f", "g", "h"}
MCRelations == {"call", "create", "test"}
Edge(s, r, t) == [source |-> s, target |-> t, relation |-> r]
OldEdges == {Edge("f", "call", "g"), Edge("g", "call", "h"), Edge("h", "test", "h")}
NewEdges == {Edge("f", "call", "g"), Edge("h", "call", "f"), Edge("f", "create", "h"), Edge("g", "call", "h")}
MCEdges == OldEdges \union NewEdges

Numbered(s) == [x \in {s[i] : i \in DOMAIN s} |-> CHOOSE i \in DOMAIN s : s[i] = x]
MCRank == Numbered(<<Edge("f", "call", "g"), Edge("f", "create", "h"), Edge("g", "call", "h"),
                     Edge("h", "call", "f"), Edge("h", "test", "h")>>)
MCSymbolRank == Numbered(<<"f", "g", "h">>)
MCNodeRank == MCSymbolRank

MCChannels == {"callees", "callers", "definition", "declaration", "graph_node", "symbol"}
ChannelRank == Numbered(<<"callees", "callers", "declaration", "definition", "graph_node", "symbol">>)
MCQueryRank == [q \in MCChannels \X MCNodes |-> 10 * ChannelRank[q[1]] + MCNodeRank[q[2]]]
KindRank == Numbered(<<"call", "declaration", "definition", "node", "symbol">>)
MCKeyRank == [k \in (DOMAIN KindRank) \X MCNodes \X MCNodes |-> 100 * KindRank[k[1]] + 10 * MCNodeRank[k[2]] + MCNodeRank[k[3]]]

At(path, l1, c1, l2, c2) == [path |-> path, at |-> <<<<l1, c1>>, <<l2, c2>>>>]

(* The old side: f and g are defined one after the other, h elsewhere, where *)
(* the stored declaration of f runs past the end of the file.                *)
Old == [nodes |-> MCNodes, edges |-> OldEdges, symbols |-> MCNodes, unavailable |-> {"create"},
        scope |-> {"a", "b"}, hashed |-> {"a", "b"}, other |-> {}, broken |-> {}, components |-> {"box"},
        lines |-> [a |-> 4, b |-> 2],
        definition |-> [f |-> At("a", 1, 1, 3, 2), g |-> At("a", 3, 2, 5, 1), h |-> At("b", 1, 1, 2, 1)],
        declaration |-> [f |-> At("b", 1, 1, 9, 1), g |-> absent, h |-> absent],
        anchors |-> [f |-> {At("a", 1, 1, 3, 2)}, g |-> {At("a", 3, 2, 5, 1)}, h |-> {At("b", 1, 1, 2, 1)}],
        evidence |-> [e \in OldEdges |-> IF e.source = "f" THEN At("a", 2, 1, 2, 2) ELSE At("a", 4, 1, 4, 2)]]

(* The new side: h moved into a file that is not fingerprinted, and nothing  *)
(* anchors it.                                                               *)
New == [nodes |-> MCNodes, edges |-> NewEdges, symbols |-> {"f", "g", "h"}, unavailable |-> {},
        scope |-> {"a", "b"}, hashed |-> {"a", "b"}, other |-> {}, broken |-> {"b"}, components |-> {"list"},
        lines |-> [a |-> 5, b |-> 2],
        definition |-> [f |-> At("a", 1, 1, 4, 1), g |-> At("a", 4, 1, 6, 1), h |-> At("c", 1, 1, 2, 1)],
        declaration |-> [f |-> absent, g |-> At("a", 5, 2, 6, 1), h |-> absent],
        anchors |-> [f |-> {At("a", 1, 1, 4, 1)}, g |-> {At("a", 4, 1, 6, 1)}, h |-> {}],
        evidence |-> [e \in NewEdges |-> IF e.source = "f" THEN At("a", 3, 1, 3, 3) ELSE At("a", 5, 1, 5, 2)]]

MCKnowledge == [old |-> Old, new |-> New]

Trace(family, seed, others, component) ==
  [family |-> family, seed |-> seed, others |-> others, component |-> component]
Creation == Trace("creation", "f", {}, "box")
Property == Trace("property", "g", {"f"}, "box")
Layout == Trace("layout", "f", {}, "list")
Strange == Trace("creation", "g", {}, "nothing")
Found(nodes, edgs, paths, complete) ==
  [nodes |-> nodes, edges |-> edgs, paths |-> paths, files |-> {"a"}, complete |-> complete]
MCTraceAnswer == (Creation :> Found({"f", "g"}, {Edge("f", "call", "g")}, 2, TRUE))
              @@ (Property :> Found({"g"}, {}, 1, FALSE))
              @@ (Layout :> Found({"f"}, {}, 0, TRUE))
              @@ (Strange :> Found({}, {}, 0, TRUE))
MCTraceRank == Numbered(<<Creation, Layout, Property, Strange>>)

(* Changes: every hunk of up to three lines at the first or second line.     *)
Hunk(start, lines) ==
  [old |-> start, oldEnd |-> start + Tally(lines, {"context", "delete"}),
   new |-> start, newEnd |-> start + Tally(lines, {"context", "add"}), lines |-> lines]
Modify(hunks) == <<[kind |-> "modify", old |-> "a", new |-> "a", hunks |-> hunks]>>
Changes == {c \in {Modify(<<Hunk(start, l)>>) : start \in {1, 2}, l \in UNION {[1..n -> LineKinds] : n \in 1..3}} : ChangeValid(c)}
Replace == Modify(<<Hunk(2, <<"context", "delete", "add">>)>>)
Twice == Modify(<<Hunk(1, <<"delete", "add">>), Hunk(3, <<"delete", "add", "add">>)>>)
Adjacent == Modify(<<Hunk(1, <<"context", "delete", "add">>), Hunk(3, <<"delete", "add", "no_newline">>)>>)
Elsewhere == <<[kind |-> "modify", old |-> "b", new |-> "b", hunks |-> <<Hunk(1, <<"delete">>)>>]>>
Both == Modify(<<Hunk(2, <<"delete">>)>>) \o Elsewhere
Moved == <<[kind |-> "rename", old |-> "b", new |-> "c", hunks |-> <<Hunk(1, <<"add", "delete">>)>>],
           [kind |-> "add", old |-> absent, new |-> "b", hunks |-> <<[Hunk(1, <<"add">>) EXCEPT !.old = 1]>>],
           [kind |-> "delete", old |-> "a", new |-> absent, hunks |-> <<Hunk(1, <<"delete">>)>>]>>

Policy == [direction |-> "both", relations |-> MCRelations, families |-> {"creation", "property", "layout"},
           maxDepth |-> 2, nodesPerSeed |-> 3, edgesPerSeed |-> 4, queriesPerSeed |-> 2, pathsPerSeed |-> 2,
           maxQueries |-> 9, maxNodes |-> 6, maxEdges |-> 8, maxPaths |-> 3]
Policies == {[Policy EXCEPT !.maxNodes = n] : n \in 0..5} \union {[Policy EXCEPT !.maxEdges = n] : n \in 0..4}
     \union {[Policy EXCEPT !.maxQueries = n] : n \in 0..7} \union {[Policy EXCEPT !.maxPaths = n] : n \in 0..2}
     \union {[Policy EXCEPT !.nodesPerSeed = n, !.edgesPerSeed = m] : n \in 1..3, m \in 0..3}
     \union {[Policy EXCEPT !.maxDepth = n, !.direction = d] : n \in 0..2, d \in Directions}
     \union {[Policy EXCEPT !.queriesPerSeed = 1], [Policy EXCEPT !.families = {"property"}], [Policy EXCEPT !.pathsPerSeed = 1]}

Limits == [queries |-> 18, calls |-> 9, results |-> 4, records |-> 9, perChannel |-> 3, total |-> 20]
LimitSets == {[Limits EXCEPT !.queries = n] : n \in {1, 4}} \union {[Limits EXCEPT !.calls = n] : n \in 1..3}
      \union {[Limits EXCEPT !.results = 1, !.records = n] : n \in 1..3}
      \union {[Limits EXCEPT !.perChannel = n, !.total = m] : n \in 1..2, m \in {1, 3, 20}}

NoTraces == [old |-> {}, new |-> {}]
Setup(files) == [files |-> files, available |-> {"old", "new"}, traces |-> NoTraces, limits |-> Limits,
                 faulty |-> {}, policy |-> Policy, edits |-> 0, faults |-> 0]
Traced(files) == [Setup(files) EXCEPT !.traces = [old |-> {Creation, Property}, new |-> {Layout, Strange}]]

MCSetups ==
  {Setup(c) : c \in Changes \union {Twice, Adjacent, Both, Moved}}
    \union {[Setup(c) EXCEPT !.policy = p] : c \in {Twice, Elsewhere}, p \in Policies}
    \union {[Traced(Twice) EXCEPT !.policy = p, !.faults = 1] : p \in Policies}
    \union {[Setup(Twice) EXCEPT !.limits = l, !.faulty = f] : l \in LimitSets, f \in {{}, {<<"callers", "g">>}}}
    \union {[Setup(c) EXCEPT !.available = s] : c \in {Twice, Moved}, s \in SUBSET {"old", "new"}}
    \union {Traced(Moved), [Setup(Replace) EXCEPT !.edits = 3], [Setup(Both) EXCEPT !.edits = 3]}
=============================================================================

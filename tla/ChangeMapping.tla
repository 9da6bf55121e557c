----------------------------- MODULE ChangeMapping -----------------------------
(***************************************************************************)
(* From a change to the symbols it touches (retrieval/change_mapping.py    *)
(* over the records of context/inputs.py).  A hunk is split into its edit  *)
(* blocks; each block becomes a range on the old side and one on the new   *)
(* side; a range is matched against the declared and defined extents the   *)
(* snapshot of that side stores.                                           *)
(*                                                                         *)
(* A line of a hunk is its kind.  Positions are <<line, column>>.  A side's *)
(* snapshot is a record kb: its semantic scope and fingerprinted files, its *)
(* symbols with their extents, the number of lines of each file (whose      *)
(* columns are all Width wide) and the files its reader cannot answer for.  *)
(***************************************************************************)
EXTENDS Integers, Sequences, FiniteSets, SequencesExt, Ordering

CONSTANTS Absent,      \* no path, revision, range or extent
          MaxRanges, MaxFilesPerSide, MaxSymbolsPerFile, MaxCandidatesPerRange,
          Width,       \* characters of every source line
          SymbolRank   \* the order of symbol identities

(* Python's None is not a range; a bound is a number (MappingBounds).       *)
ASSUME AbsentAssumption == Absent \notin Nat \X Nat
ASSUME MappingBoundsAssumption ==
  {MaxRanges, MaxFilesPerSide, MaxSymbolsPerFile, MaxCandidatesPerRange} \subseteq Nat

Sides == <<"old", "new">>
LineKinds == {"context", "add", "delete", "no_newline"}

(* LineRange.validate, Hunk.validate and FileChange.validate: ranges are    *)
(* 1-based and agree with the body, no marker without a line before it, and *)
(* nothing after the end of a side.                                         *)
Tally(lines, kinds) == Cardinality({i \in DOMAIN lines : lines[i] \in kinds})

EndOf(lines, kinds) ==
  {i \in DOMAIN lines : i > 1 /\ lines[i] = "no_newline" /\ lines[i - 1] \in kinds}

HunkValid(h) ==
  /\ {h.old, h.oldEnd, h.new, h.newEnd} \subseteq Nat \ {0}
  /\ h.lines \in Seq(LineKinds)
  /\ h.newEnd - h.new = Tally(h.lines, {"context", "add"})
  /\ h.oldEnd - h.old = Tally(h.lines, {"context", "delete"})
  /\ Tally(h.lines, {"context", "add", "delete"}) > 0
  /\ \A i \in DOMAIN h.lines : h.lines[i] = "no_newline" => i > 1 /\ h.lines[i - 1] # "no_newline"
  /\ \A kinds \in {{"context", "add"}, {"context", "delete"}} :
       \A i \in EndOf(h.lines, kinds) : \A j \in DOMAIN h.lines : j > i => h.lines[j] \notin kinds

FileValid(f) ==
  /\ CASE f.kind = "add" -> f.old = Absent /\ f.new # Absent
       [] f.kind = "delete" -> f.old # Absent /\ f.new = Absent
       [] f.kind = "modify" -> f.old # Absent /\ f.old = f.new
       [] OTHER -> f.old # Absent /\ f.new # Absent /\ f.old # f.new
  /\ f.hunks \in Seq(Range(f.hunks))
  /\ \A i \in DOMAIN f.hunks :
       /\ HunkValid(f.hunks[i])
       /\ f.kind = "add" => f.hunks[i].old = 1 /\ f.hunks[i].oldEnd = 1
       /\ f.kind = "delete" => f.hunks[i].new = 1 /\ f.hunks[i].newEnd = 1
  /\ \A i \in 1..(Len(f.hunks) - 1) :
       /\ f.hunks[i].oldEnd <= f.hunks[i + 1].old
       /\ f.hunks[i].newEnd <= f.hunks[i + 1].new
  /\ \A i, j \in DOMAIN f.hunks : i < j =>
       /\ EndOf(f.hunks[i].lines, {"context", "delete"}) # {} => f.hunks[j].old = f.hunks[j].oldEnd
       /\ EndOf(f.hunks[i].lines, {"context", "add"}) # {} => f.hunks[j].new = f.hunks[j].newEnd

ChangeValid(files) ==
  /\ Len(files) > 0 /\ \A i \in DOMAIN files : FileValid(files[i])
  /\ \A i, j \in DOMAIN files : i # j =>
       /\ files[i].old = files[j].old => files[i].old = Absent
       /\ files[i].new = files[j].new => files[i].new = Absent

-----------------------------------------------------------------------------
(* changed_anchors: `at' is the next line on each side, `since' where the   *)
(* run of edited lines began (or Absent), `blocks' the runs closed so far.  *)
Flushed(s) ==
  IF s.since = Absent THEN s
  ELSE [s EXCEPT !.since = Absent,
                 !.blocks = Append(@, [old |-> <<s.since[1], s.at[1]>>, new |-> <<s.since[2], s.at[2]>>])]

(* A step that takes the newline marker for a line.                         *)
AfterLineUnmarked(s, kind) ==
  LET open == [s EXCEPT !.since = IF @ = Absent THEN s.at ELSE @]
  IN  CASE kind = "context" -> [Flushed(s) EXCEPT !.at = <<@[1] + 1, @[2] + 1>>]
        [] kind = "delete"  -> [open EXCEPT !.at = <<@[1] + 1, @[2]>>]
        [] OTHER            -> [open EXCEPT !.at = <<@[1], @[2] + 1>>]

AfterLine(s, kind) ==
  LET open == [s EXCEPT !.since = IF @ = Absent THEN s.at ELSE @]
  IN  CASE kind = "no_newline" -> s
        [] kind = "context"    -> [Flushed(s) EXCEPT !.at = <<@[1] + 1, @[2] + 1>>]
        [] kind = "delete"     -> [open EXCEPT !.at = <<@[1] + 1, @[2]>>]
        [] OTHER               -> [open EXCEPT !.at = <<@[1], @[2] + 1>>]

(* The state after each number of lines of a hunk.                          *)
Scan(h) ==
  LET state[i \in 0..Len(h.lines)] ==
        IF i = 0 THEN [at |-> <<h.old, h.new>>, since |-> Absent, blocks |-> <<>>]
        ELSE AfterLine(state[i - 1], h.lines[i])
  IN  state

Blocks(h) == Flushed(Scan(h)[Len(h.lines)]).blocks

Anchor(side, f, range) ==
  [side |-> side, path |-> IF side = "old" THEN f.old ELSE f.new, range |-> range]

AnchorsOf(f) ==
  LET blocks == FlattenSeq([i \in DOMAIN f.hunks |-> Blocks(f.hunks[i])])
      pair(b) == <<Anchor("old", f, b.old), Anchor("new", f, b.new)>>
  IN  IF blocks = <<>> THEN <<Anchor("old", f, Absent), Anchor("new", f, Absent)>>
      ELSE FlattenSeq([i \in DOMAIN blocks |-> pair(blocks[i])])

ChangedAnchors(files) == FlattenSeq([i \in DOMAIN files |-> AnchorsOf(files[i])])

(* What a change really edits, line by line: the old lines it deletes and   *)
(* the new lines it adds, numbered from the ranges its hunks declare.       *)
LineAt(h, i, s) ==
  LET kinds == IF s = "old" THEN {"context", "delete"} ELSE {"context", "add"}
  IN  (IF s = "old" THEN h.old ELSE h.new) + Cardinality({j \in 1..(i - 1) : h.lines[j] \in kinds})

HunkEdits(h, s) ==
  {LineAt(h, i, s) : i \in {j \in DOMAIN h.lines : h.lines[j] = IF s = "old" THEN "delete" ELSE "add"}}

EditedLines(f, s) == UNION {HunkEdits(f.hunks[k], s) : k \in DOMAIN f.hunks}

(* Against that: the ranges of a side cover exactly the edited lines, and   *)
(* follow one another without a line in two of them.                        *)
ExactlyAnchored(f, s) ==
  LET own == AnchorsOf(f)
      mine == {k \in DOMAIN own : own[k].side = s /\ own[k].range # Absent}
  IN  /\ UNION {own[k].range[1]..(own[k].range[2] - 1) : k \in mine} = EditedLines(f, s)
      /\ \A j, k \in mine : j < k => own[j].range[2] <= own[k].range[1]

-----------------------------------------------------------------------------
Below(p, q) == p[1] < q[1] \/ (p[1] = q[1] /\ p[2] < q[2])
AtMost(p, q) == p = q \/ Below(p, q)

(* extent_relation: how a changed range lies to a stored extent.  An empty  *)
(* extent relates to nothing, an empty range only to what it is inside of.  *)
ExtentRelation(range, extent) ==
  LET start == <<range[1], 1>>  end == <<range[2], 1>>
      left == extent[1]         right == extent[2]
  IN  IF left = right THEN "none"
      ELSE IF start = end THEN IF Below(left, start) /\ Below(start, right) THEN "point_interior" ELSE "none"
      ELSE IF AtMost(left, start) /\ AtMost(end, right) THEN "enclosing"
      ELSE IF Below(start, right) /\ Below(left, end) /\ Below(start, end) /\ Below(left, right) THEN "intersecting"
      ELSE "none"

ValidPosition(p, lines) ==
  (p[1] = lines + 1 /\ p[2] = 1) \/ (p[1] \in 1..lines /\ p[2] \in 1..(Width + 1))

Outcome(status, symbols, ambiguous, notes) ==
  [status |-> status, symbols |-> symbols, ambiguous |-> ambiguous, notes |-> notes]

FirstSymbols(S, n) == Least(S, n, LAMBDA s : SymbolRank[s])

(* _match: every stored extent that relates to the range is kept as proof.  *)
Match(kb, path, range) ==
  LET stored(s) == {extent \in {kb.declaration[s], kb.definition[s]} \ {Absent} : extent.path = path}
      found == {s \in kb.symbols : stored(s) # {}}
      read == FirstSymbols(found, MaxSymbolsPerFile)
      sound(x) == ValidPosition(x.at[1], kb.lines[path]) /\ ValidPosition(x.at[2], kb.lines[path])
      proofs(s) == {ExtentRelation(range, x.at) : x \in {y \in stored(s) : sound(y)}} \ {"none"}
      matches == {s \in read : proofs(s) # {}}
      cut == Cardinality(found) > MaxSymbolsPerFile \/ Cardinality(matches) > MaxCandidatesPerRange
      exceeds == \E s \in read : \E x \in stored(s) : ~sound(x)
      notes == (IF exceeds THEN {"invalid_range"} ELSE {})
        \union (IF cut THEN {"limit"} ELSE {})
        \union (IF matches = {} THEN {"no_match"}
                ELSE IF UNION {proofs(s) : s \in matches} = {"intersecting"} THEN {"no_enclosing"} ELSE {})
  IN  IF ~ValidPosition(<<range[1], 1>>, kb.lines[path]) \/ ~ValidPosition(<<range[2], 1>>, kb.lines[path])
      THEN Outcome("unresolved", {}, FALSE, {"invalid_range"})
      ELSE Outcome(IF cut THEN "truncated" ELSE IF matches = {} THEN "unresolved" ELSE "mapped",
                   FirstSymbols(matches, MaxCandidatesPerRange), Cardinality(matches) > 1, notes)

(* The files a side's cache holds when the anchor at `ordinal' is reached:  *)
(* those whose earlier anchors got past every test but the cache's own.     *)
Eligible(kb, a, ordinal) ==
  /\ a.path # Absent /\ a.range # Absent /\ ordinal <= MaxRanges
  /\ a.path \in kb.scope /\ a.path \in kb.hashed

Cached(kb, anchors, ordinal, side) ==
  LET add(held, i) ==
        IF anchors[i].side = side /\ Eligible(kb, anchors[i], i) /\ Cardinality(held) < MaxFilesPerSide
        THEN held \union {anchors[i].path} ELSE held
  IN  FoldLeft(add, {}, [i \in 1..(ordinal - 1) |-> i])

(* ChangedRangeMapper.map for one anchor; `issue' is what keeps the side    *)
(* itself from being read, or "none".                                       *)
MapAnchor(kb, issue, anchors, ordinal) ==
  LET a == anchors[ordinal]
      held == Cached(kb, anchors, ordinal, a.side)
      side == IF issue = "none" THEN {} ELSE {issue}
      none(status, notes) == Outcome(status, {}, FALSE, notes)
  IN  IF a.path = Absent THEN none("not_applicable", side \union {"file_absent"})
      ELSE IF issue # "none" THEN none("unresolved", side)
      ELSE IF a.range = Absent THEN none("unresolved", {"no_edit_range"})
      ELSE IF ordinal > MaxRanges THEN none("truncated", {"limit"})
      ELSE IF a.path \notin kb.scope THEN none("unresolved", {"scope_insufficient"})
      ELSE IF a.path \notin kb.hashed THEN none("unresolved", {"source_uncovered"})
      ELSE IF a.path \notin held /\ Cardinality(held) >= MaxFilesPerSide THEN none("truncated", {"limit"})
      ELSE IF a.path \in kb.other THEN none("unsupported", {"unsupported"})
      ELSE IF a.path \in kb.broken THEN none("failure", {"backend_failure"})
      ELSE Match(kb, a.path, a.range)

(* ChangeMappingResult.request: the symbols proven on a side become queries *)
(* of every seed channel; what could not be mapped goes along as a note.    *)
Request(anchors, outcomes, side, channels) ==
  LET mine == {i \in DOMAIN anchors : anchors[i].side = side}
      seeds == UNION {outcomes[i].symbols : i \in mine}
      notes == UNION {outcomes[i].notes : i \in mine}
  IN  [queries |-> [channel : channels, seed : seeds],
       notes |-> IF seeds = {} THEN notes \union {"no_proven_symbol_seeds"} ELSE notes]
=============================================================================

-------------------------- MODULE ChangeMapping_proofs --------------------------
(***************************************************************************)
(* For every valid change: the ranges that a change is anchored at cover,  *)
(* on each side, exactly the lines the change edits there, in order and no *)
(* line twice.  The blocks of a hunk are followed line by line, the hunks  *)
(* of a file one after the other.                                          *)
(***************************************************************************)
EXTENDS ChangeMapping, SequenceTheorems, FiniteSetTheorems, WellFoundedInduction, TLAPS

-----------------------------------------------------------------------------
(* A nonempty set of numbers has a least one.                               *)
LEMMA LeastNumber ==
  ASSUME NEW S, S \subseteq Nat, S # {}
  PROVE  \E x \in S : \A y \in S : x <= y
<1>1. PICK x \in S : \A y \in S : <<y, x>> \notin OpToRel(<, Nat)
  <2>1. IsWellFoundedOn(OpToRel(<, Nat), Nat)
    BY NatLessThanWellFounded
  <2> QED BY <2>1, WFMin
<1>2. \A y \in S : ~ y < x
  BY <1>1 DEF OpToRel
<1> QED BY <1>2

(* A set that holds the first of some numbers, and each one whose           *)
(* predecessor it holds, holds them all: induction, for a set of numbers.   *)
LEMMA Upwards ==
  ASSUME NEW a \in Nat, NEW n \in Nat, NEW S,
         a \in S,
         \A i \in (a + 1)..n : i - 1 \in S => i \in S
  PROVE  a..n \subseteq S
<1> SUFFICES ASSUME (a..n) \ S # {}
             PROVE  FALSE
  OBVIOUS
<1>1. (a..n) \ S \subseteq Nat
  OBVIOUS
<1>2. PICK m \in (a..n) \ S : \A y \in (a..n) \ S : m <= y
  BY <1>1, LeastNumber
<1>3. m # a /\ m \in (a + 1)..n
  BY <1>2
<1>4. m - 1 \in a..n /\ m - 1 < m
  BY <1>3
<1>5. m - 1 \in S
  BY <1>2, <1>3, <1>4
<1> QED BY <1>2, <1>3, <1>5

(* The functions that a recursive definition over 0..n describes exist.     *)
Unfolds(f, n, base, step) == f[0] = base /\ \A i \in 1..n : f[i] = step[<<f[i - 1], i>>]

LEMMA Recursion ==
  ASSUME NEW n \in Nat, NEW Q, NEW base \in Q, NEW step \in [Q \X (1..n) -> Q]
  PROVE  \E f \in [0..n -> Q] : Unfolds(f, n, base, step)
<1> DEFINE Runs(m) == {f \in [0..m -> Q] : f[0] = base /\ \A i \in 1..m : f[i] = step[<<f[i - 1], i>>]}
           S == {m \in 0..n : Runs(m) # {}}
<1>1. 0 \in S
  <2>1. [i \in 0..0 |-> base] \in Runs(0)
    OBVIOUS
  <2> QED BY <2>1
<1>2. ASSUME NEW m \in 1..n, m - 1 \in S
      PROVE  m \in S
  <2>1. PICK f \in [0..(m - 1) -> Q] : f[0] = base /\ \A i \in 1..(m - 1) : f[i] = step[<<f[i - 1], i>>]
    BY <1>2
  <2> DEFINE g == [i \in 0..m |-> IF i = m THEN step[<<f[m - 1], m>>] ELSE f[i]]
  <2>2. <<f[m - 1], m>> \in Q \X (1..n)
    BY <2>1
  <2>3. g \in [0..m -> Q]
    BY <2>1, <2>2
  <2>4. \A i \in 0..(m - 1) : g[i] = f[i]
    OBVIOUS
  <2>5. g[m] = step[<<g[m - 1], m>>]
    <3>1. m \in 0..m /\ m - 1 \in 0..(m - 1)
      OBVIOUS
    <3>2. g[m] = step[<<f[m - 1], m>>]
      BY <3>1
    <3>3. g[m - 1] = f[m - 1]
      BY <3>1, <2>4
    <3> QED BY <3>2, <3>3
  <2>6. ASSUME NEW i \in 1..m
        PROVE  g[i] = step[<<g[i - 1], i>>]
    <3>1. CASE i = m
      BY <3>1, <2>5
    <3>2. CASE i # m
      <4>1. i \in 1..(m - 1) /\ i \in 0..(m - 1) /\ i - 1 \in 0..(m - 1)
        BY <3>2
      <4> HIDE DEF g
      <4> QED BY <4>1, <2>1, <2>4
    <3> QED BY <3>1, <3>2
  <2>7. g[0] = base
    BY <2>1, <2>4
  <2>8. g \in Runs(m)
    <3> HIDE DEF g
    <3> QED BY <2>3, <2>6, <2>7
  <2> HIDE DEF Runs
  <2> QED BY <2>8
<1>3. 0..n \subseteq S
  <2> HIDE DEF S
  <2>1. \A i \in (0 + 1)..n : i - 1 \in S => i \in S
    BY <1>2
  <2> QED BY <1>1, <2>1, Upwards
<1>4. n \in S
  BY <1>3
<1> QED BY <1>4 DEF Unfolds

-----------------------------------------------------------------------------
(* Sorting a finite set by keys that differ: each element has a place of    *)
(* its own, and each place an element.                                      *)
Position(S, r, x) == Cardinality({y \in S : r[y] < r[x]})

LEMMA PositionAmong ==
  ASSUME NEW S, IsFiniteSet(S), NEW r, \A x \in S : r[x] \in Nat, NEW x \in S
  PROVE  Position(S, r, x) \in 0..(Cardinality(S) - 1) /\ Cardinality(S) \in Nat
<1> DEFINE before == {y \in S : r[y] < r[x]}
<1>1. before \subseteq S \ {x}
  OBVIOUS
<1>2. IsFiniteSet(S \ {x}) /\ Cardinality(S \ {x}) = Cardinality(S) - 1
  BY FS_RemoveElement
<1>3. IsFiniteSet(before) /\ Cardinality(before) <= Cardinality(S) - 1
  BY <1>1, <1>2, FS_Subset
<1>4. Cardinality(before) \in Nat /\ Cardinality(S) \in Nat
  BY <1>3, FS_CardinalityType
<1> QED BY <1>3, <1>4 DEF Position

LEMMA PositionsApart ==
  ASSUME NEW S, IsFiniteSet(S), NEW r, \A x \in S : r[x] \in Nat,
         NEW x \in S, NEW z \in S, r[x] < r[z]
  PROVE  Position(S, r, x) < Position(S, r, z)
<1> DEFINE low == {y \in S : r[y] < r[x]}
           high == {y \in S : r[y] < r[z]}
<1>1. low \subseteq high /\ x \in high /\ x \notin low
  OBVIOUS
<1>2. IsFiniteSet(low) /\ IsFiniteSet(high)
  BY FS_Subset
<1>3. Cardinality(low) <= Cardinality(high) /\ (Cardinality(high) = Cardinality(low) => high = low)
  BY <1>1, <1>2, FS_Subset
<1>4. Cardinality(low) \in Nat /\ Cardinality(high) \in Nat
  BY <1>2, FS_CardinalityType
<1> QED BY <1>1, <1>3, <1>4 DEF Position

LEMMA Positions ==
  ASSUME NEW S, IsFiniteSet(S), NEW r, \A x \in S : r[x] \in Nat,
         \A x, z \in S : r[x] = r[z] => x = z
  PROVE  /\ \A x \in S : Position(S, r, x) \in 0..(Cardinality(S) - 1)
         /\ \A x, z \in S : Position(S, r, x) = Position(S, r, z) => x = z
         /\ \A i \in 1..Cardinality(S) : \E x \in S : Position(S, r, x) = i - 1
<1> DEFINE n == Cardinality(S)
           f == [x \in S |-> Position(S, r, x)]
<1>1. n \in Nat
  BY FS_CardinalityType
<1>2. \A x \in S : Position(S, r, x) \in 0..(n - 1)
  BY PositionAmong
<1>3. ASSUME NEW x \in S, NEW z \in S, Position(S, r, x) = Position(S, r, z)
      PROVE  x = z
  <2>1. ~ r[x] < r[z] /\ ~ r[z] < r[x]
    BY <1>1, <1>2, <1>3, PositionsApart
  <2> QED BY <2>1
<1>4. f \in Injection(S, 0..(n - 1))
  <2>1. f \in [S -> 0..(n - 1)] /\ \A x, z \in S : f[x] = f[z] => x = z
    BY <1>2, <1>3
  <2> QED BY <2>1 DEF Injection, IsInjective
<1>5. IsFiniteSet(0..(n - 1)) /\ Cardinality(0..(n - 1)) = n
  BY <1>1, FS_Interval
<1>6. f \in Surjection(S, 0..(n - 1))
  BY <1>4, <1>5, FS_Injection
<1>7. ASSUME NEW i \in 1..n
      PROVE  \E x \in S : Position(S, r, x) = i - 1
  <2>1. i - 1 \in 0..(n - 1)
    BY <1>1
  <2> QED BY <1>6, <2>1 DEF Surjection
<1> QED BY <1>2, <1>3, <1>7

-----------------------------------------------------------------------------
(* The scan of a hunk: its state is a pair of positions, the place where a  *)
(* run began and the blocks closed so far.                                  *)
Pairs == Nat \X Nat
BlockRecords == [old : Pairs, new : Pairs]
States == [at : Pairs, since : Pairs \union {Absent}, blocks : Seq(BlockRecords)]
ScanStart(h) == [at |-> <<h.old, h.new>>, since |-> Absent, blocks |-> <<>>]

(* Where the lines not yet in a block begin: at the start of the open run,  *)
(* or where the scan stands.                                                *)
Begin(s) == IF s.since = Absent THEN s.at ELSE s.since

(* Closing a run keeps the positions and adds at most one block.            *)
LEMMA FlushedIs ==
  ASSUME NEW s \in States
  PROVE  /\ Flushed(s) \in States /\ Flushed(s).at = s.at /\ Flushed(s).since = Absent
         /\ s.since = Absent => Flushed(s) = s
         /\ s.since # Absent => Flushed(s).blocks =
              Append(s.blocks, [old |-> <<s.since[1], s.at[1]>>, new |-> <<s.since[2], s.at[2]>>])
<1>1. CASE s.since = Absent
  BY <1>1 DEF Flushed, States
<1>2. CASE s.since # Absent
  <2> DEFINE b == [old |-> <<s.since[1], s.at[1]>>, new |-> <<s.since[2], s.at[2]>>]
  <2>1. s.since \in Pairs /\ s.at \in Pairs /\ s.blocks \in Seq(BlockRecords)
    BY <1>2 DEF States
  <2>2. b \in BlockRecords
    BY <2>1 DEF Pairs, BlockRecords
  <2>3. Append(s.blocks, b) \in Seq(BlockRecords)
    BY <2>1, <2>2
  <2>4. Flushed(s) = [at |-> s.at, since |-> Absent, blocks |-> Append(s.blocks, b)]
    BY <1>2 DEF Flushed, States
  <2> HIDE DEF b
  <2>5. Flushed(s) \in States /\ Flushed(s).at = s.at /\ Flushed(s).since = Absent
        /\ Flushed(s).blocks = Append(s.blocks, b)
    BY <2>1, <2>3, <2>4 DEF States
  <2> QED BY <1>2, <2>5 DEF b
<1> QED BY <1>1, <1>2

(* What a line does: a marker nothing; a context line closes the run and    *)
(* moves both sides; any other opens a run, or goes on with it, and moves   *)
(* its own side.                                                            *)
LEMMA AfterLineIs ==
  ASSUME NEW s \in States, NEW kind \in LineKinds
  PROVE  /\ kind = "no_newline" => AfterLine(s, kind) = s
         /\ kind = "context" => AfterLine(s, kind) =
              [at |-> <<s.at[1] + 1, s.at[2] + 1>>, since |-> Absent, blocks |-> Flushed(s).blocks]
         /\ kind = "delete" => AfterLine(s, kind) =
              [at |-> <<s.at[1] + 1, s.at[2]>>, since |-> Begin(s), blocks |-> s.blocks]
         /\ kind = "add" => AfterLine(s, kind) =
              [at |-> <<s.at[1], s.at[2] + 1>>, since |-> Begin(s), blocks |-> s.blocks]
<1>1. s = [at |-> s.at, since |-> s.since, blocks |-> s.blocks]
  BY DEF States
<1>2. [s EXCEPT !.since = IF @ = Absent THEN s.at ELSE @] = [at |-> s.at, since |-> Begin(s), blocks |-> s.blocks]
  BY <1>1 DEF Begin
<1>3. Flushed(s) = [at |-> s.at, since |-> Absent, blocks |-> Flushed(s).blocks]
  BY FlushedIs DEF States
<1>4. CASE kind = "context"
  <2>1. AfterLine(s, kind) = [Flushed(s) EXCEPT !.at = <<@[1] + 1, @[2] + 1>>]
    BY <1>4 DEF AfterLine
  <2>2. PICK f : f = Flushed(s)
    OBVIOUS
  <2>3. [f EXCEPT !.at = <<@[1] + 1, @[2] + 1>>] = [at |-> <<s.at[1] + 1, s.at[2] + 1>>, since |-> Absent, blocks |-> f.blocks]
    BY <1>3, <2>2
  <2> QED BY <1>4, <2>1, <2>2, <2>3
<1>5. CASE kind = "delete"
  BY <1>2, <1>5 DEF AfterLine
<1>6. CASE kind = "add"
  BY <1>2, <1>6 DEF AfterLine
<1>7. CASE kind = "no_newline"
  BY <1>7 DEF AfterLine
<1> QED BY <1>4, <1>5, <1>6, <1>7 DEF LineKinds

(* The states stay states.                                                  *)
LEMMA AfterLineType ==
  ASSUME NEW s \in States, NEW kind \in LineKinds
  PROVE  AfterLine(s, kind) \in States
<1>1. s.at \in Pairs /\ Begin(s) \in Pairs /\ s.blocks \in Seq(BlockRecords) /\ Flushed(s).blocks \in Seq(BlockRecords)
  BY FlushedIs DEF States, Begin
<1>2. <<s.at[1] + 1, s.at[2] + 1>> \in Pairs /\ <<s.at[1] + 1, s.at[2]>> \in Pairs /\ <<s.at[1], s.at[2] + 1>> \in Pairs
  BY <1>1 DEF Pairs
<1>3. CASE kind = "no_newline"
  BY <1>3, AfterLineIs
<1>4. CASE kind = "context"
  BY <1>1, <1>2, <1>4, AfterLineIs DEF States
<1>5. CASE kind = "delete"
  BY <1>1, <1>2, <1>5, AfterLineIs DEF States
<1>6. CASE kind = "add"
  BY <1>1, <1>2, <1>6, AfterLineIs DEF States
<1> QED BY <1>3, <1>4, <1>5, <1>6 DEF LineKinds

(* The recursive definition of the scan describes it.                       *)
LEMMA ScanIs ==
  ASSUME NEW h, HunkValid(h)
  PROVE  /\ Scan(h) \in [0..Len(h.lines) -> States]
         /\ Scan(h)[0] = ScanStart(h)
         /\ \A i \in 1..Len(h.lines) : Scan(h)[i] = AfterLine(Scan(h)[i - 1], h.lines[i])
<1> DEFINE n == Len(h.lines)
           step == [x \in States \X (1..n) |-> AfterLine(x[1], h.lines[x[2]])]
<1>1. n \in Nat /\ \A i \in 1..n : h.lines[i] \in LineKinds
  BY DEF HunkValid
<1>2. ScanStart(h) \in States
  <2>1. h.old \in Nat /\ h.new \in Nat
    BY DEF HunkValid
  <2> QED BY <2>1 DEF ScanStart, States, Pairs
<1>3. step \in [States \X (1..n) -> States]
  <2> SUFFICES ASSUME NEW x \in States \X (1..n)
               PROVE  AfterLine(x[1], h.lines[x[2]]) \in States
    OBVIOUS
  <2> QED BY <1>1, AfterLineType
<1>4. PICK f \in [0..n -> States] : f[0] = ScanStart(h) /\ \A i \in 1..n : f[i] = step[<<f[i - 1], i>>]
  <2>1. PICK m \in Nat : m = n
    BY <1>1
  <2>2. PICK Q : Q = States
    OBVIOUS
  <2>3. PICK b \in Q : b = ScanStart(h)
    BY <2>2, <1>2
  <2>4. PICK g \in [Q \X (1..m) -> Q] : g = step
    BY <2>1, <2>2, <1>3
  <2>5. \E f \in [0..m -> Q] : Unfolds(f, m, b, g)
    BY <2>1, <2>3, <2>4, Recursion
  <2> HIDE DEF step
  <2> QED BY <2>1, <2>2, <2>3, <2>4, <2>5 DEF Unfolds
<1>5. ASSUME NEW i \in 1..n
      PROVE  f[i] = AfterLine(f[i - 1], h.lines[i])
  <2>1. <<f[i - 1], i>> \in States \X (1..n)
    BY <1>1, <1>4
  <2> QED BY <1>4, <2>1
<1> DEFINE Follows(g) == g = [i \in 0..n |-> IF i = 0 THEN ScanStart(h) ELSE AfterLine(g[i - 1], h.lines[i])]
<1>6. Follows(f)
  <2> SUFFICES ASSUME NEW i \in 0..n
               PROVE  f[i] = IF i = 0 THEN ScanStart(h) ELSE AfterLine(f[i - 1], h.lines[i])
    OBVIOUS
  <2> QED BY <1>1, <1>4, <1>5
<1>7. Follows(Scan(h))
  <2>1. Scan(h) = CHOOSE g : Follows(g)
    BY DEF Scan, ScanStart
  <2> HIDE DEF Follows
  <2> QED BY <1>6, <2>1
<1>8. PICK g : g = Scan(h)
  OBVIOUS
<1>9. /\ DOMAIN g = 0..n /\ g = [i \in 0..n |-> g[i]] /\ g[0] = ScanStart(h)
      /\ \A i \in 1..n : g[i] = AfterLine(g[i - 1], h.lines[i])
  BY <1>1, <1>7, <1>8
<1>10. 0..n \subseteq {i \in 0..n : g[i] \in States}
  <2>1. ASSUME NEW i \in (0 + 1)..n, i - 1 \in {j \in 0..n : g[j] \in States}
        PROVE  i \in {j \in 0..n : g[j] \in States}
    <3>1. g[i - 1] \in States /\ h.lines[i] \in LineKinds /\ i \in 0..n /\ g[i] = AfterLine(g[i - 1], h.lines[i])
      BY <1>1, <1>9, <2>1
    <3> QED BY <3>1, AfterLineType
  <2>2. 0 \in {i \in 0..n : g[i] \in States}
    BY <1>1, <1>2, <1>9
  <2>3. PICK S : S = {i \in 0..n : g[i] \in States}
    OBVIOUS
  <2>4. PICK m \in Nat : m = n
    BY <1>1
  <2>5. 0 \in S /\ \A i \in (0 + 1)..m : i - 1 \in S => i \in S
    BY <2>1, <2>2, <2>3, <2>4
  <2>6. 0..m \subseteq S
    BY <2>5, Upwards
  <2> QED BY <2>3, <2>4, <2>6
<1>11. g \in [0..n -> States]
  BY <1>9, <1>10
<1> QED BY <1>8, <1>9, <1>11

-----------------------------------------------------------------------------
(* Ranges R between lo and hi, one after the other, covering exactly E.     *)
Tiles(R, lo, hi, E) ==
  /\ R \in Seq(Pairs) /\ lo \in Nat /\ hi \in Nat /\ lo <= hi /\ E \subseteq Nat
  /\ \A j \in 1..Len(R) : lo <= R[j][1] /\ R[j][1] <= R[j][2] /\ R[j][2] <= hi
  /\ \A j, k \in 1..Len(R) : j < k => R[j][2] <= R[k][1]
  /\ \A x \in Nat : x \in E <=> \E j \in 1..Len(R) : R[j][1] <= x /\ x < R[j][2]

(* No range covers no line.                                                 *)
LEMMA TilesNone ==
  ASSUME NEW lo \in Nat
  PROVE  Tiles(<<>>, lo, lo, {})
BY DEF Tiles

(* One range covers its lines.                                              *)
LEMMA TilesOne ==
  ASSUME NEW a \in Nat, NEW b \in Nat, a <= b
  PROVE  Tiles(<<<<a, b>>>>, a, b, a..(b - 1))
<1>1. PICK r : r = <<a, b>>
  OBVIOUS
<1>2. r \in Pairs /\ r[1] = a /\ r[2] = b
  BY <1>1 DEF Pairs
<1>3. <<r>> \in Seq(Pairs) /\ Len(<<r>>) = 1 /\ <<r>>[1] = r
  BY <1>2
<1>4. Tiles(<<r>>, a, b, a..(b - 1))
  BY <1>2, <1>3 DEF Tiles
<1> QED BY <1>1, <1>4

(* More room at the end changes nothing.                                    *)
LEMMA TilesMore ==
  ASSUME NEW R, NEW lo, NEW hi, NEW E, Tiles(R, lo, hi, E), NEW top \in Nat, hi <= top
  PROVE  Tiles(R, lo, top, E)
<1>1. \A j \in 1..Len(R) : R[j] \in Nat \X Nat
  BY DEF Tiles, Pairs
<1> QED BY <1>1 DEF Tiles

(* What follows covers the lines of both parts.                             *)
LEMMA TilesConcat ==
  ASSUME NEW R, NEW lo, NEW hi, NEW E, Tiles(R, lo, hi, E),
         NEW Q, NEW low, NEW top, NEW F, Tiles(Q, low, top, F), hi <= low
  PROVE  Tiles(R \o Q, lo, top, E \union F)
<1> DEFINE S == R \o Q
<1>1. R \in Seq(Pairs) /\ Q \in Seq(Pairs) /\ {lo, hi, low, top} \subseteq Nat /\ E \subseteq Nat /\ F \subseteq Nat
      /\ lo <= hi /\ hi <= low /\ low <= top
  BY DEF Tiles
<1>2. Len(R) \in Nat /\ Len(Q) \in Nat
  BY <1>1
<1>3. S \in Seq(Pairs) /\ Len(S) = Len(R) + Len(Q)
  BY <1>1
<1>4. \A j \in 1..Len(R) : R[j] \in Nat \X Nat /\ lo <= R[j][1] /\ R[j][1] <= R[j][2] /\ R[j][2] <= hi
  BY <1>1 DEF Tiles, Pairs
<1>5. \A j \in 1..Len(Q) : Q[j] \in Nat \X Nat /\ low <= Q[j][1] /\ Q[j][1] <= Q[j][2] /\ Q[j][2] <= top
  BY <1>1 DEF Tiles, Pairs
<1>6. \A j \in 1..Len(R) : j \in 1..Len(S) /\ S[j] = R[j]
  BY <1>1, <1>2, <1>3
<1>7. \A j \in 1..Len(Q) : Len(R) + j \in 1..Len(S) /\ S[Len(R) + j] = Q[j]
  BY <1>1, <1>2, <1>3
<1>8. \A j \in 1..Len(S) : j \in 1..Len(R) \/ j - Len(R) \in 1..Len(Q)
  BY <1>2, <1>3
<1>9. \A j \in 1..Len(S) : j - Len(R) \in 1..Len(Q) => S[j] = Q[j - Len(R)]
  <2> SUFFICES ASSUME NEW j \in 1..Len(S), j - Len(R) \in 1..Len(Q)
               PROVE  S[j] = Q[j - Len(R)]
    OBVIOUS
  <2>1. Len(R) + (j - Len(R)) = j
    BY <1>2, <1>3
  <2> QED BY <1>7, <2>1
<1> HIDE DEF S
<1>10. \A j \in 1..Len(S) : lo <= S[j][1] /\ S[j][1] <= S[j][2] /\ S[j][2] <= top
  <2> SUFFICES ASSUME NEW j \in 1..Len(S)
               PROVE  lo <= S[j][1] /\ S[j][1] <= S[j][2] /\ S[j][2] <= top
    OBVIOUS
  <2>1. CASE j \in 1..Len(R)
    BY <1>1, <1>4, <1>6, <2>1
  <2>2. CASE j - Len(R) \in 1..Len(Q)
    BY <1>1, <1>5, <1>9, <2>2
  <2> QED BY <1>8, <2>1, <2>2
<1>11. \A j, k \in 1..Len(S) : j < k => S[j][2] <= S[k][1]
  <2> SUFFICES ASSUME NEW j \in 1..Len(S), NEW k \in 1..Len(S), j < k
               PROVE  S[j][2] <= S[k][1]
    OBVIOUS
  <2>1. CASE k \in 1..Len(R)
    <3>1. j \in 1..Len(R)
      BY <2>1, <1>2, <1>3
    <3>2. R[j][2] <= R[k][1]
      BY <2>1, <3>1 DEF Tiles
    <3> QED BY <1>6, <2>1, <3>1, <3>2
  <2>2. CASE j \in 1..Len(R) /\ k - Len(R) \in 1..Len(Q)
    <3>1. S[j] = R[j] /\ R[j][2] <= hi /\ R[j][2] \in Nat
      BY <1>4, <1>6, <2>2
    <3>2. S[k] = Q[k - Len(R)] /\ low <= Q[k - Len(R)][1] /\ Q[k - Len(R)][1] \in Nat
      BY <1>5, <1>9, <2>2
    <3> QED BY <1>1, <3>1, <3>2
  <2>3. CASE j - Len(R) \in 1..Len(Q) /\ k - Len(R) \in 1..Len(Q)
    <3>1. j - Len(R) < k - Len(R)
      BY <1>2, <1>3
    <3>2. Q[j - Len(R)][2] <= Q[k - Len(R)][1]
      BY <2>3, <3>1 DEF Tiles
    <3> QED BY <1>9, <2>3, <3>2
  <2> QED BY <1>8, <2>1, <2>2, <2>3
<1>12. ASSUME NEW x \in Nat
       PROVE  x \in E \union F <=> \E j \in 1..Len(S) : S[j][1] <= x /\ x < S[j][2]
  <2>1. ASSUME x \in E
        PROVE  \E j \in 1..Len(S) : S[j][1] <= x /\ x < S[j][2]
    <3>1. PICK j \in 1..Len(R) : R[j][1] <= x /\ x < R[j][2]
      BY <2>1 DEF Tiles
    <3> QED BY <1>6, <3>1
  <2>2. ASSUME x \in F
        PROVE  \E j \in 1..Len(S) : S[j][1] <= x /\ x < S[j][2]
    <3>1. PICK j \in 1..Len(Q) : Q[j][1] <= x /\ x < Q[j][2]
      BY <2>2 DEF Tiles
    <3> QED BY <1>7, <3>1
  <2>3. ASSUME NEW j \in 1..Len(S), S[j][1] <= x, x < S[j][2]
        PROVE  x \in E \union F
    <3>1. CASE j \in 1..Len(R)
      <4>1. R[j][1] <= x /\ x < R[j][2]
        BY <1>6, <2>3, <3>1
      <4> QED BY <3>1, <4>1 DEF Tiles
    <3>2. CASE j - Len(R) \in 1..Len(Q)
      <4>1. Q[j - Len(R)][1] <= x /\ x < Q[j - Len(R)][2]
        BY <1>9, <2>3, <3>2
      <4> QED BY <3>2, <4>1 DEF Tiles
    <3> QED BY <1>8, <3>1, <3>2
  <2> QED BY <2>1, <2>2, <2>3
<1>13. Tiles(S, lo, top, E \union F)
  BY <1>1, <1>3, <1>10, <1>11, <1>12 DEF Tiles
<1> QED BY <1>13 DEF S

-----------------------------------------------------------------------------
(* The blocks of one side, and the place of that side in a pair.            *)
OfSide(blocks, s) == [k \in 1..Len(blocks) |-> blocks[k][s]]
Place(s) == IF s = "old" THEN 1 ELSE 2
Counted(s) == IF s = "old" THEN {"context", "delete"} ELSE {"context", "add"}
EditKind(s) == IF s = "old" THEN "delete" ELSE "add"
StartOf(h, s) == IF s = "old" THEN h.old ELSE h.new
EndLine(h, s) == IF s = "old" THEN h.oldEnd ELSE h.newEnd

(* The closed blocks of a side and the open run cover exactly E so far.     *)
Covers(st, s, lo, E) ==
  \E D : /\ Tiles(OfSide(st.blocks, s), lo, Begin(st)[Place(s)], D)
         /\ Begin(st)[Place(s)] <= st.at[Place(s)]
         /\ E = D \union (Begin(st)[Place(s)]..(st.at[Place(s)] - 1))

(* One side of joined blocks.                                               *)
LEMMA OfSideConcat ==
  ASSUME NEW A \in Seq(BlockRecords), NEW B \in Seq(BlockRecords), NEW s \in {"old", "new"}
  PROVE  OfSide(A \o B, s) = OfSide(A, s) \o OfSide(B, s)
<1>1. OfSide(A, s) \in Seq(Pairs) /\ OfSide(B, s) \in Seq(Pairs)
  <2>1. \A r \in BlockRecords : r.old \in Pairs /\ r.new \in Pairs
    BY DEF BlockRecords
  <2>2. CASE s = "old"
    BY <2>1, <2>2 DEF OfSide
  <2>3. CASE s = "new"
    BY <2>1, <2>3 DEF OfSide
  <2> QED BY <2>2, <2>3
<1>2. Len(OfSide(A, s)) = Len(A) /\ Len(OfSide(B, s)) = Len(B)
  BY DEF OfSide
<1>3. Len(A \o B) = Len(A) + Len(B)
  OBVIOUS
<1>4. DOMAIN (OfSide(A, s) \o OfSide(B, s)) = 1..(Len(A) + Len(B))
  BY <1>1, <1>2
<1>5. ASSUME NEW k \in 1..(Len(A) + Len(B))
      PROVE  (A \o B)[k][s] = (OfSide(A, s) \o OfSide(B, s))[k]
  <2>1. CASE k \in 1..Len(A)
    <3>1. (A \o B)[k] = A[k]
      BY <2>1
    <3>2. (OfSide(A, s) \o OfSide(B, s))[k] = OfSide(A, s)[k]
      BY <1>1, <1>2, <2>1
    <3> QED BY <2>1, <3>1, <3>2 DEF OfSide
  <2>2. CASE k - Len(A) \in 1..Len(B)
    <3>1. (A \o B)[k] = B[k - Len(A)]
      BY <2>2
    <3>2. (OfSide(A, s) \o OfSide(B, s))[k] = OfSide(B, s)[k - Len(A)]
      BY <1>1, <1>2, <2>2
    <3> QED BY <2>2, <3>1, <3>2 DEF OfSide
  <2>3. k \in 1..Len(A) \/ k - Len(A) \in 1..Len(B)
    OBVIOUS
  <2> QED BY <2>1, <2>2, <2>3
<1>6. PICK C : C = OfSide(A, s) \o OfSide(B, s)
  OBVIOUS
<1>7. C \in Seq(Pairs) /\ Len(C) = Len(A) + Len(B)
  <2>1. PICK F \in Seq(Pairs), G \in Seq(Pairs) : F = OfSide(A, s) /\ G = OfSide(B, s)
    BY <1>1
  <2>2. F \o G \in Seq(Pairs) /\ Len(F \o G) = Len(F) + Len(G)
    BY <2>1
  <2> QED BY <1>2, <1>6, <2>1, <2>2
<1>8. C = [k \in 1..(Len(A) + Len(B)) |-> C[k]]
  <2>1. PICK n \in Nat : C \in [1..n -> Pairs]
    BY <1>7, SeqDef
  <2>2. Len(C) = n
    BY <2>1
  <2> QED BY <1>7, <2>1, <2>2
<1>9. OfSide(A \o B, s) = [k \in 1..(Len(A) + Len(B)) |-> (A \o B)[k][s]]
  BY <1>3 DEF OfSide
<1> QED BY <1>5, <1>6, <1>8, <1>9

(* Closing the open run leaves closed blocks that cover the same lines.     *)
LEMMA FlushedCovers ==
  ASSUME NEW st \in States, NEW s \in {"old", "new"}, NEW lo, NEW E, Covers(st, s, lo, E)
  PROVE  Tiles(OfSide(Flushed(st).blocks, s), lo, st.at[Place(s)], E)
<1>1. PICK D : /\ Tiles(OfSide(st.blocks, s), lo, Begin(st)[Place(s)], D)
               /\ Begin(st)[Place(s)] <= st.at[Place(s)]
               /\ E = D \union (Begin(st)[Place(s)]..(st.at[Place(s)] - 1))
  BY DEF Covers
<1>2. st.at \in Pairs /\ Begin(st) \in Pairs /\ Place(s) \in 1..2
  BY DEF States, Begin, Place
<1>3. PICK a \in Nat, b \in Nat : a = Begin(st)[Place(s)] /\ b = st.at[Place(s)]
  BY <1>2 DEF Pairs, Place
<1>4. CASE st.since = Absent
  <2>1. a = b /\ Flushed(st) = st
    BY <1>3, <1>4, FlushedIs DEF Begin
  <2>2. E = D
    BY <1>1, <1>3, <2>1
  <2> QED BY <1>1, <1>3, <2>1, <2>2
<1>5. CASE st.since # Absent
  <2> DEFINE block == [old |-> <<st.since[1], st.at[1]>>, new |-> <<st.since[2], st.at[2]>>]
  <2>1. Begin(st) = st.since /\ st.blocks \in Seq(BlockRecords)
    BY <1>5 DEF Begin, States
  <2>2. block \in BlockRecords
    BY <1>2, <2>1 DEF Pairs, BlockRecords
  <2>3. Flushed(st).blocks = st.blocks \o <<block>>
    <3>1. Flushed(st).blocks = Append(st.blocks, block)
      BY <1>5, FlushedIs
    <3> HIDE DEF block
    <3> QED BY <2>1, <2>2, <3>1, AppendIsConcat
  <2>4. OfSide(<<block>>, s) = <<<<a, b>>>>
    <3>1. block[s] = <<a, b>>
      <4>1. CASE s = "old"
        BY <1>3, <2>1, <4>1 DEF Place
      <4>2. CASE s = "new"
        BY <1>3, <2>1, <4>2 DEF Place
      <4> QED BY <4>1, <4>2
    <3> HIDE DEF block
    <3> QED BY <3>1 DEF OfSide
  <2> HIDE DEF block
  <2>5. OfSide(Flushed(st).blocks, s) = OfSide(st.blocks, s) \o <<<<a, b>>>>
    <3>1. <<block>> \in Seq(BlockRecords)
      BY <2>2
    <3> QED BY <2>1, <2>3, <2>4, <3>1, OfSideConcat
  <2>6. Tiles(<<<<a, b>>>>, a, b, a..(b - 1))
    BY <1>1, <1>3, TilesOne
  <2>7. Tiles(OfSide(st.blocks, s) \o <<<<a, b>>>>, lo, b, D \union (a..(b - 1)))
    BY <1>1, <1>3, <2>6, TilesConcat
  <2> QED BY <1>1, <1>3, <2>5, <2>7
<1> QED BY <1>4, <1>5

(* A line adds itself to what a side covers when it is an edit of that side,*)
(* and moves the side when the side has it.                                 *)
LEMMA AfterLineCovers ==
  ASSUME NEW st \in States, NEW kind \in LineKinds, NEW s \in {"old", "new"}, NEW lo, NEW E,
         Covers(st, s, lo, E)
  PROVE  /\ AfterLine(st, kind).at[Place(s)] = st.at[Place(s)] + (IF kind \in Counted(s) THEN 1 ELSE 0)
         /\ Covers(AfterLine(st, kind), s, lo, IF kind = EditKind(s) THEN E \union {st.at[Place(s)]} ELSE E)
<1> DEFINE new == AfterLine(st, kind)
<1>1. PICK D : /\ Tiles(OfSide(st.blocks, s), lo, Begin(st)[Place(s)], D)
               /\ Begin(st)[Place(s)] <= st.at[Place(s)]
               /\ E = D \union (Begin(st)[Place(s)]..(st.at[Place(s)] - 1))
  BY DEF Covers
<1>2. st.at \in Pairs /\ Begin(st) \in Pairs /\ Absent \notin Pairs
  BY AbsentAssumption DEF States, Begin, Pairs
<1>3. PICK a \in Nat, b \in Nat : a = Begin(st)[Place(s)] /\ b = st.at[Place(s)]
  BY <1>2 DEF Pairs, Place
<1>4. CASE kind = "no_newline"
  <2>1. new = st /\ kind \notin Counted(s) /\ kind # EditKind(s)
    BY <1>4, AfterLineIs DEF Counted, EditKind
  <2> QED BY <2>1, <1>3
<1>5. CASE kind = "context"
  <2>1. new = [at |-> <<st.at[1] + 1, st.at[2] + 1>>, since |-> Absent, blocks |-> Flushed(st).blocks]
    BY <1>5, AfterLineIs
  <2>2. new.at[Place(s)] = b + 1 /\ Begin(new) = new.at /\ new.blocks = Flushed(st).blocks
    BY <1>3, <2>1 DEF Begin, Place
  <2>3. kind \in Counted(s) /\ kind # EditKind(s)
    BY <1>5 DEF Counted, EditKind
  <2>4. Tiles(OfSide(new.blocks, s), lo, b, E)
    BY <1>3, <2>2, FlushedCovers
  <2>5. Tiles(OfSide(new.blocks, s), lo, b + 1, E)
    BY <2>4, TilesMore
  <2>6. E = E \union ((b + 1)..(b + 1 - 1))
    OBVIOUS
  <2> HIDE DEF new
  <2>7. Covers(new, s, lo, E)
    <3>1. Tiles(OfSide(new.blocks, s), lo, Begin(new)[Place(s)], E) /\ Begin(new)[Place(s)] <= new.at[Place(s)]
          /\ E = E \union (Begin(new)[Place(s)]..(new.at[Place(s)] - 1))
      BY <2>2, <2>5, <2>6
    <3> QED BY <3>1 DEF Covers
  <2> QED BY <1>3, <2>2, <2>3, <2>7 DEF new
<1>6. CASE kind \in {"delete", "add"}
  <2>1. new = [at |-> <<st.at[1] + (IF kind = "delete" THEN 1 ELSE 0), st.at[2] + (IF kind = "add" THEN 1 ELSE 0)>>,
               since |-> Begin(st), blocks |-> st.blocks]
    <3>1. st.at[1] \in Nat /\ st.at[2] \in Nat
      BY <1>2 DEF Pairs
    <3> QED BY <1>6, <3>1, AfterLineIs
  <2>2. Begin(new) = Begin(st) /\ new.blocks = st.blocks
    BY <1>2, <2>1 DEF Begin
  <2>3. kind = EditKind(s) <=> kind \in Counted(s)
    BY <1>6 DEF Counted, EditKind
  <2>4. new.at[Place(s)] = b + (IF kind = EditKind(s) THEN 1 ELSE 0)
    BY <1>3, <1>6, <2>1 DEF Place, EditKind
  <2> HIDE DEF new
  <2>5. Tiles(OfSide(new.blocks, s), lo, Begin(new)[Place(s)], D)
    BY <1>1, <2>2
  <2>6. Begin(new)[Place(s)] = a /\ a <= b
    BY <1>1, <1>3, <2>2
  <2>7. CASE kind = EditKind(s)
    <3>1. new.at[Place(s)] = b + 1
      BY <2>4, <2>7
    <3>2. E \union {b} = D \union (a..(b + 1 - 1))
      <4>1. a..(b + 1 - 1) = (a..(b - 1)) \union {b}
        BY <2>6
      <4> QED BY <1>1, <1>3, <4>1
    <3>3. Covers(new, s, lo, E \union {b})
      BY <2>5, <2>6, <3>1, <3>2 DEF Covers
    <3> QED BY <1>3, <2>3, <2>7, <3>1, <3>3 DEF new
  <2>8. CASE kind # EditKind(s)
    <3>1. new.at[Place(s)] = b
      BY <2>4, <2>8
    <3>2. Covers(new, s, lo, E)
      BY <1>1, <1>3, <2>5, <2>6, <3>1 DEF Covers
    <3> QED BY <1>3, <2>3, <2>8, <3>1, <3>2 DEF new
  <2> QED BY <2>7, <2>8
<1> QED BY <1>4, <1>5, <1>6 DEF LineKinds

-----------------------------------------------------------------------------
(* The number of a line: the first of its side's range, one more after each *)
(* line that side has, and the end of the range after the last.             *)
LEMMA LineNumbers ==
  ASSUME NEW h, HunkValid(h), NEW s \in {"old", "new"}
  PROVE  /\ LineAt(h, 1, s) = StartOf(h, s)
         /\ LineAt(h, Len(h.lines) + 1, s) = EndLine(h, s)
         /\ \A i \in 1..Len(h.lines) :
              /\ LineAt(h, i, s) \in Nat
              /\ LineAt(h, i + 1, s) = LineAt(h, i, s) + (IF h.lines[i] \in Counted(s) THEN 1 ELSE 0)
<1> DEFINE Upto(m) == {j \in 1..m : h.lines[j] \in Counted(s)}
<1>1. \A i \in Nat : LineAt(h, i, s) = StartOf(h, s) + Cardinality(Upto(i - 1))
  BY DEF LineAt, StartOf, Counted
<1>2. {h.old, h.oldEnd, h.new, h.newEnd} \subseteq Nat /\ h.lines \in Seq(LineKinds) /\ StartOf(h, s) \in Nat
  BY DEF HunkValid, StartOf
<1>3. Len(h.lines) \in Nat
  BY <1>2
<1>4. \A m \in Nat : IsFiniteSet(Upto(m)) /\ Cardinality(Upto(m)) \in Nat
  <2> SUFFICES ASSUME NEW m \in Nat
               PROVE  IsFiniteSet(Upto(m)) /\ Cardinality(Upto(m)) \in Nat
    OBVIOUS
  <2>1. IsFiniteSet(1..m)
    BY FS_Interval
  <2>2. Upto(m) \subseteq 1..m
    OBVIOUS
  <2>3. IsFiniteSet(Upto(m))
    BY <2>1, <2>2, FS_Subset
  <2> QED BY <2>3, FS_CardinalityType
<1>5. LineAt(h, 1, s) = StartOf(h, s)
  <2>1. Upto(1 - 1) = {}
    OBVIOUS
  <2>2. Cardinality(Upto(1 - 1)) = 0
    BY <2>1, FS_EmptySet
  <2> QED BY <1>1, <1>2, <2>2
<1>6. LineAt(h, Len(h.lines) + 1, s) = EndLine(h, s)
  <2>1. Upto(Len(h.lines) + 1 - 1) = {j \in DOMAIN h.lines : h.lines[j] \in Counted(s)}
    BY <1>2, <1>3
  <2>2. EndLine(h, s) - StartOf(h, s) = Tally(h.lines, Counted(s))
    BY DEF HunkValid, EndLine, StartOf, Counted
  <2>3. EndLine(h, s) \in Nat
    BY <1>2 DEF EndLine
  <2>4. LineAt(h, Len(h.lines) + 1, s) = StartOf(h, s) + Tally(h.lines, Counted(s))
    BY <1>1, <1>3, <2>1 DEF Tally
  <2>5. Tally(h.lines, Counted(s)) \in Nat
    <3>1. Tally(h.lines, Counted(s)) = Cardinality(Upto(Len(h.lines) + 1 - 1))
      BY <2>1 DEF Tally
    <3>2. Len(h.lines) + 1 - 1 \in Nat
      BY <1>3
    <3> HIDE DEF Upto
    <3> QED BY <1>4, <3>1, <3>2
  <2> QED BY <1>2, <2>2, <2>3, <2>4, <2>5
<1>7. ASSUME NEW i \in 1..Len(h.lines)
      PROVE  /\ LineAt(h, i, s) \in Nat
             /\ LineAt(h, i + 1, s) = LineAt(h, i, s) + (IF h.lines[i] \in Counted(s) THEN 1 ELSE 0)
  <2>1. i \in Nat /\ i - 1 \in Nat /\ i + 1 \in Nat /\ (i + 1) - 1 = i
    BY <1>3
  <2>2. LineAt(h, i, s) = StartOf(h, s) + Cardinality(Upto(i - 1)) /\ LineAt(h, i + 1, s) = StartOf(h, s) + Cardinality(Upto(i))
    BY <1>1, <2>1
  <2>3. IsFiniteSet(Upto(i - 1)) /\ Cardinality(Upto(i - 1)) \in Nat
    BY <1>4, <2>1
  <2>4. Cardinality(Upto(i)) = Cardinality(Upto(i - 1)) + (IF h.lines[i] \in Counted(s) THEN 1 ELSE 0)
    <3>1. CASE h.lines[i] \in Counted(s)
      <4>1. Upto(i) = Upto(i - 1) \union {i} /\ i \notin Upto(i - 1)
        BY <2>1, <3>1
      <4> HIDE DEF Upto
      <4>2. Cardinality(Upto(i - 1) \union {i}) = Cardinality(Upto(i - 1)) + 1
        BY <2>3, <4>1, FS_AddElement
      <4> QED BY <3>1, <4>1, <4>2
    <3>2. CASE h.lines[i] \notin Counted(s)
      <4>1. Upto(i) = Upto(i - 1)
        BY <2>1, <3>2
      <4> HIDE DEF Upto
      <4> QED BY <2>3, <3>2, <4>1
    <3> QED BY <3>1, <3>2
  <2> HIDE DEF Upto
  <2> QED BY <1>2, <2>2, <2>3, <2>4
<1> QED BY <1>5, <1>6, <1>7

(* The edits of the first i lines of a hunk.                                *)
EditsTo(h, s, i) == {LineAt(h, j, s) : j \in {k \in 1..i : h.lines[k] = EditKind(s)}}

(* After each number of lines the scan stands at the next line's number and *)
(* covers the edits so far.                                                 *)
LEMMA ScanCovers ==
  ASSUME NEW h, HunkValid(h), NEW s \in {"old", "new"}
  PROVE  \A i \in 0..Len(h.lines) :
           /\ Scan(h)[i].at[Place(s)] = LineAt(h, i + 1, s)
           /\ Covers(Scan(h)[i], s, StartOf(h, s), EditsTo(h, s, i))
<1>1. PICK n \in Nat : n = Len(h.lines)
  BY DEF HunkValid
<1>2. PICK f \in [0..n -> States] : f = Scan(h)
  BY <1>1, ScanIs
<1>3. f[0] = ScanStart(h) /\ \A i \in 1..n : f[i] = AfterLine(f[i - 1], h.lines[i])
  BY <1>1, <1>2, ScanIs
<1>4. \A i \in 1..n : h.lines[i] \in LineKinds
  BY <1>1 DEF HunkValid
<1> DEFINE Good(i) == f[i].at[Place(s)] = LineAt(h, i + 1, s) /\ Covers(f[i], s, StartOf(h, s), EditsTo(h, s, i))
<1>5. Good(0)
  <2>1. PICK a \in Nat : a = StartOf(h, s)
    BY DEF HunkValid, StartOf
  <2>2. f[0] = [at |-> <<h.old, h.new>>, since |-> Absent, blocks |-> <<>>]
    BY <1>3 DEF ScanStart
  <2>3. f[0].at[Place(s)] = a /\ Begin(f[0]) = f[0].at /\ f[0].blocks = <<>>
    BY <2>1, <2>2 DEF Begin, Place, StartOf
  <2>4. OfSide(f[0].blocks, s) = <<>>
    BY <2>3 DEF OfSide
  <2>5. EditsTo(h, s, 0) = {} \union (a..(a - 1))
    BY <2>1 DEF EditsTo
  <2>6. Tiles(<<>>, a, a, {})
    BY TilesNone
  <2>7. Covers(f[0], s, StartOf(h, s), EditsTo(h, s, 0))
    BY <2>1, <2>3, <2>4, <2>5, <2>6 DEF Covers
  <2>8. LineAt(h, 0 + 1, s) = StartOf(h, s)
    BY LineNumbers
  <2> QED BY <2>1, <2>3, <2>7, <2>8
<1>6. ASSUME NEW i \in 1..n, Good(i - 1)
      PROVE  Good(i)
  <2>1. i - 1 \in 0..n /\ f[i - 1] \in States /\ h.lines[i] \in LineKinds /\ f[i] = AfterLine(f[i - 1], h.lines[i])
    BY <1>3, <1>4
  <2>2. (i - 1) + 1 = i
    OBVIOUS
  <2>3. f[i - 1].at[Place(s)] = LineAt(h, i, s) /\ Covers(f[i - 1], s, StartOf(h, s), EditsTo(h, s, i - 1))
    BY <1>6, <2>2
  <2> DEFINE E == EditsTo(h, s, i - 1)
             lo == StartOf(h, s)
  <2>9. PICK st \in States, kind \in LineKinds : st = f[i - 1] /\ kind = h.lines[i]
    BY <2>1
  <2>10. /\ AfterLine(st, kind).at[Place(s)] = st.at[Place(s)] + (IF kind \in Counted(s) THEN 1 ELSE 0)
         /\ Covers(AfterLine(st, kind), s, lo, IF kind = EditKind(s) THEN E \union {st.at[Place(s)]} ELSE E)
    <3>1. Covers(st, s, lo, E)
      BY <2>3, <2>9
    <3>2. st \in States /\ kind \in LineKinds
      BY <2>9
    <3> HIDE DEF E, lo
    <3>3. PICK before, first : before = E /\ first = lo
      OBVIOUS
    <3>4. Covers(st, s, first, before)
      BY <3>1, <3>3
    <3>5. /\ AfterLine(st, kind).at[Place(s)] = st.at[Place(s)] + (IF kind \in Counted(s) THEN 1 ELSE 0)
          /\ Covers(AfterLine(st, kind), s, first, IF kind = EditKind(s) THEN before \union {st.at[Place(s)]} ELSE before)
      BY <3>2, <3>4, AfterLineCovers
    <3> QED BY <3>3, <3>5
  <2>4. f[i].at[Place(s)] = LineAt(h, i, s) + (IF h.lines[i] \in Counted(s) THEN 1 ELSE 0)
    BY <2>1, <2>3, <2>9, <2>10
  <2>5. f[i].at[Place(s)] = LineAt(h, i + 1, s)
    BY <1>1, <2>4, LineNumbers
  <2>6. Covers(f[i], s, StartOf(h, s), IF h.lines[i] = EditKind(s) THEN EditsTo(h, s, i - 1) \union {LineAt(h, i, s)}
                                       ELSE EditsTo(h, s, i - 1))
    BY <2>1, <2>3, <2>9, <2>10
  <2>7. EditsTo(h, s, i) = IF h.lines[i] = EditKind(s) THEN EditsTo(h, s, i - 1) \union {LineAt(h, i, s)}
                           ELSE EditsTo(h, s, i - 1)
    <3>1. 1..i = (1..(i - 1)) \union {i}
      OBVIOUS
    <3> QED BY <3>1 DEF EditsTo
  <2> QED BY <2>5, <2>6, <2>7
<1> DEFINE S == {i \in 0..n : Good(i)}
<1>7. 0..n \subseteq S
  <2>1. 0 \in S
    BY <1>5
  <2>2. \A i \in (0 + 1)..n : i - 1 \in S => i \in S
    BY <1>6
  <2> HIDE DEF S
  <2> QED BY <2>1, <2>2, Upwards
<1> QED BY <1>1, <1>2, <1>7

(* The blocks of a valid hunk are blocks, and on each side they cover what  *)
(* the hunk edits there, within the range it declares.                      *)
LEMMA BlocksTile ==
  ASSUME NEW h, HunkValid(h)
  PROVE  /\ Blocks(h) \in Seq(BlockRecords)
         /\ \A s \in {"old", "new"} : Tiles(OfSide(Blocks(h), s), StartOf(h, s), EndLine(h, s), HunkEdits(h, s))
<1>1. PICK n \in Nat : n = Len(h.lines)
  BY DEF HunkValid
<1>2. PICK st \in States : st = Scan(h)[n]
  BY <1>1, ScanIs
<1>3. Blocks(h) = Flushed(st).blocks
  BY <1>1, <1>2 DEF Blocks
<1>4. Blocks(h) \in Seq(BlockRecords)
  BY <1>3, FlushedIs DEF States
<1>5. ASSUME NEW s \in {"old", "new"}
      PROVE  Tiles(OfSide(Blocks(h), s), StartOf(h, s), EndLine(h, s), HunkEdits(h, s))
  <2>1. n \in 0..n
    OBVIOUS
  <2>2. st.at[Place(s)] = LineAt(h, n + 1, s) /\ Covers(st, s, StartOf(h, s), EditsTo(h, s, n))
    BY <1>1, <1>2, <2>1, ScanCovers
  <2>3. st.at[Place(s)] = EndLine(h, s)
    BY <1>1, <2>2, LineNumbers
  <2>4. DOMAIN h.lines = 1..n
    BY <1>1 DEF HunkValid
  <2>5. EditsTo(h, s, n) = HunkEdits(h, s)
    BY <2>4 DEF EditsTo, HunkEdits, EditKind
  <2> QED BY <1>3, <2>2, <2>3, <2>5, FlushedCovers
<1> QED BY <1>4, <1>5

-----------------------------------------------------------------------------
(* Flattening joins the sequences from left to right.                       *)
LEMMA FlattenIs ==
  ASSUME NEW T, NEW seqs \in Seq(Seq(T)), Len(seqs) > 0
  PROVE  \E f \in [1..Len(seqs) -> Seq(T)] :
           /\ f[1] = seqs[1]
           /\ \A i \in 2..Len(seqs) : f[i] = f[i - 1] \o seqs[i]
           /\ FlattenSeq(seqs) = f[Len(seqs)]
<1>1. PICK n \in Nat : n = Len(seqs) /\ n > 0
  OBVIOUS
<1>2. \A i \in 1..n : seqs[i] \in Seq(T)
  BY <1>1
<1> DEFINE step == [x \in Seq(T) \X (1..n) |-> x[1] \o seqs[x[2]]]
<1>3. step \in [Seq(T) \X (1..n) -> Seq(T)]
  <2>1. ASSUME NEW x \in Seq(T) \X (1..n)
        PROVE  x[1] \o seqs[x[2]] \in Seq(T)
    <3>1. x[1] \in Seq(T) /\ seqs[x[2]] \in Seq(T)
      BY <1>2
    <3> QED BY <3>1, ConcatProperties
  <2> QED BY <2>1
<1>4. PICK g \in [0..n -> Seq(T)] : g[0] = <<>> /\ \A i \in 1..n : g[i] = step[<<g[i - 1], i>>]
  <2>1. PICK Q : Q = Seq(T)
    OBVIOUS
  <2>2. PICK st \in [Q \X (1..n) -> Q] : st = step
    BY <1>3, <2>1
  <2>3. <<>> \in Q
    BY <2>1
  <2>4. \E f \in [0..n -> Q] : Unfolds(f, n, <<>>, st)
    BY <2>2, <2>3, Recursion
  <2> HIDE DEF step
  <2> QED BY <2>1, <2>2, <2>4 DEF Unfolds
<1>5. \A i \in 1..n : g[i] = g[i - 1] \o seqs[i]
  <2> SUFFICES ASSUME NEW i \in 1..n
               PROVE  g[i] = g[i - 1] \o seqs[i]
    OBVIOUS
  <2>1. <<g[i - 1], i>> \in Seq(T) \X (1..n)
    BY <1>4
  <2> QED BY <1>4, <2>1
<1> HIDE DEF step
<1> DEFINE f == [i \in 1..n |-> g[i]]
           Joins(k) == k = [i \in 1..Len(seqs) |-> IF i = 1 THEN seqs[i] ELSE k[i - 1] \o seqs[i]]
<1>6. f \in [1..n -> Seq(T)]
  BY <1>4
<1>7. f[1] = seqs[1]
  <2>3. 1 \in 1..n /\ 1 - 1 = 0
    BY <1>1
  <2>1. g[1] = g[0] \o seqs[1] /\ seqs[1] \in Seq(T) /\ 1 \in 1..n
    BY <1>2, <1>5, <2>3
  <2>2. <<>> \o seqs[1] = seqs[1]
    BY <2>1, ConcatEmptySeq
  <2> QED BY <1>4, <2>1, <2>2
<1>8. \A i \in 2..n : f[i] = f[i - 1] \o seqs[i]
  <2> SUFFICES ASSUME NEW i \in 2..n
               PROVE  f[i] = f[i - 1] \o seqs[i]
    OBVIOUS
  <2>1. i \in 1..n /\ i - 1 \in 1..n
    BY <1>1
  <2> QED BY <1>5, <2>1
<1> HIDE DEF f
<1>9. Joins(f)
  <2>1. f = [i \in 1..n |-> f[i]]
    BY <1>6
  <2>2. \A i \in 1..n : f[i] = IF i = 1 THEN seqs[i] ELSE f[i - 1] \o seqs[i]
    <3>1. \A i \in 1..n : i = 1 \/ i \in 2..n
      OBVIOUS
    <3> QED BY <3>1, <1>7, <1>8
  <2> QED BY <1>1, <2>1, <2>2
<1>10. PICK k : k = CHOOSE x : Joins(x)
  OBVIOUS
<1>11. Joins(k)
  <2> HIDE DEF Joins
  <2> QED BY <1>9, <1>10
<1>12. FlattenSeq(seqs) = k[n]
  BY <1>1, <1>10 DEF FlattenSeq
<1>13. k = [i \in 1..n |-> k[i]] /\ \A i \in 1..n : k[i] = IF i = 1 THEN seqs[i] ELSE k[i - 1] \o seqs[i]
  BY <1>1, <1>11
<1>14. \A i \in 1..n : k[i] = f[i]
  <2> DEFINE S == {i \in 1..n : k[i] = f[i]}
  <2>1. 1 \in S
    <3>1. 1 \in 1..n
      BY <1>1
    <3> QED BY <3>1, <1>7, <1>13
  <2>2. \A i \in (1 + 1)..n : i - 1 \in S => i \in S
    <3> SUFFICES ASSUME NEW i \in (1 + 1)..n, k[i - 1] = f[i - 1]
                 PROVE  i \in S
      OBVIOUS
    <3>1. i \in 1..n /\ i \in 2..n /\ i # 1
      OBVIOUS
    <3>2. k[i] = k[i - 1] \o seqs[i]
      BY <1>13, <3>1
    <3>3. f[i] = f[i - 1] \o seqs[i]
      BY <1>8, <3>1
    <3> QED BY <3>1, <3>2, <3>3
  <2> HIDE DEF S
  <2>3. 1..n \subseteq S
    BY <2>1, <2>2, Upwards
  <2> QED BY <2>3 DEF S
<1>15. FlattenSeq(seqs) = f[n]
  BY <1>1, <1>12, <1>14
<1> QED BY <1>1, <1>6, <1>7, <1>8, <1>15

-----------------------------------------------------------------------------
(* The blocks of a file, hunk after hunk.                                   *)
FileBlocks(f) == FlattenSeq([i \in DOMAIN f.hunks |-> Blocks(f.hunks[i])])

(* On each side they cover what the file's hunks edit there.                *)
LEMMA FileTiles ==
  ASSUME NEW f, FileValid(f)
  PROVE  /\ FileBlocks(f) \in Seq(BlockRecords)
         /\ \A s \in {"old", "new"} : \E lo, hi : Tiles(OfSide(FileBlocks(f), s), lo, hi, EditedLines(f, s))
<1>1. PICK n \in Nat : n = Len(f.hunks) /\ DOMAIN f.hunks = 1..n
  BY DEF FileValid
<1>2. \A i \in 1..n : HunkValid(f.hunks[i])
  BY <1>1 DEF FileValid
<1>3. PICK seqs : seqs = [i \in 1..n |-> Blocks(f.hunks[i])]
  OBVIOUS
<1>4. seqs \in Seq(Seq(BlockRecords)) /\ Len(seqs) = n /\ FileBlocks(f) = FlattenSeq(seqs)
  <2>1. \A i \in 1..n : Blocks(f.hunks[i]) \in Seq(BlockRecords)
    BY <1>2, BlocksTile
  <2> QED BY <1>1, <1>3, <2>1 DEF FileBlocks
<1>5. CASE n = 0
  <2>1. FileBlocks(f) = <<>>
    <3>1. FlattenSeq(seqs) = seqs
      BY <1>4, <1>5 DEF FlattenSeq
    <3> QED BY <1>4, <1>5, <3>1
  <2>2. \A s \in {"old", "new"} : EditedLines(f, s) = {} /\ OfSide(<<>>, s) = <<>>
    BY <1>1, <1>5 DEF EditedLines, OfSide
  <2>3. Tiles(<<>>, 0, 0, {})
    BY TilesNone
  <2> QED BY <2>1, <2>2, <2>3
<1>6. CASE n > 0
  <2>1. PICK fl \in [1..n -> Seq(BlockRecords)] :
          /\ fl[1] = seqs[1]
          /\ \A i \in 2..n : fl[i] = fl[i - 1] \o seqs[i]
          /\ FlattenSeq(seqs) = fl[n]
    BY <1>4, <1>6, FlattenIs
  <2>2. ASSUME NEW s \in {"old", "new"}
        PROVE  \E lo, hi : Tiles(OfSide(FileBlocks(f), s), lo, hi, EditedLines(f, s))
    <3> DEFINE Edits(i) == UNION {HunkEdits(f.hunks[k], s) : k \in 1..i}
               lo == StartOf(f.hunks[1], s)
               S == {i \in 1..n : Tiles(OfSide(fl[i], s), lo, EndLine(f.hunks[i], s), Edits(i))}
    <3>1. \A i \in 1..n : Tiles(OfSide(seqs[i], s), StartOf(f.hunks[i], s), EndLine(f.hunks[i], s), HunkEdits(f.hunks[i], s))
      BY <1>2, <1>3, BlocksTile
    <3>2. 1 \in S
      <4>1. Edits(1) = HunkEdits(f.hunks[1], s) /\ 1 \in 1..n
        BY <1>6
      <4> HIDE DEF Edits
      <4> QED BY <2>1, <3>1, <4>1
    <3>3. ASSUME NEW i \in (1 + 1)..n, i - 1 \in S
          PROVE  i \in S
      <4>1. i \in 1..n /\ i - 1 \in 1..n /\ i \in 2..n /\ i - 1 \in 1..(n - 1) /\ (i - 1) + 1 = i
        OBVIOUS
      <4>2. EndLine(f.hunks[i - 1], s) <= StartOf(f.hunks[i], s)
        <5>1. f.hunks[i - 1].oldEnd <= f.hunks[(i - 1) + 1].old /\ f.hunks[i - 1].newEnd <= f.hunks[(i - 1) + 1].new
          BY <1>1, <4>1 DEF FileValid
        <5> QED BY <4>1, <5>1 DEF EndLine, StartOf
      <4>3. fl[i] = fl[i - 1] \o seqs[i] /\ fl[i - 1] \in Seq(BlockRecords) /\ seqs[i] \in Seq(BlockRecords)
        <5>1. seqs[i] \in Seq(BlockRecords)
          BY <1>2, <1>3, <4>1, BlocksTile
        <5> QED BY <2>1, <4>1, <5>1
      <4>4. OfSide(fl[i], s) = OfSide(fl[i - 1], s) \o OfSide(seqs[i], s)
        BY <4>3, OfSideConcat
      <4>5. Edits(i) = Edits(i - 1) \union HunkEdits(f.hunks[i], s)
        <5>1. 1..i = (1..(i - 1)) \union {i}
          OBVIOUS
        <5> QED BY <5>1
      <4>6. Tiles(OfSide(fl[i - 1], s), lo, EndLine(f.hunks[i - 1], s), Edits(i - 1))
        BY <3>3
      <4>7. Tiles(OfSide(seqs[i], s), StartOf(f.hunks[i], s), EndLine(f.hunks[i], s), HunkEdits(f.hunks[i], s))
        BY <3>1, <4>1
      <4> HIDE DEF Edits, lo
      <4>8. Tiles(OfSide(fl[i - 1], s) \o OfSide(seqs[i], s), lo, EndLine(f.hunks[i], s), Edits(i - 1) \union HunkEdits(f.hunks[i], s))
        BY <4>2, <4>6, <4>7, TilesConcat
      <4> QED BY <4>1, <4>4, <4>5, <4>8
    <3>4. n \in S
      <4> HIDE DEF S
      <4>1. 1..n \subseteq S
        BY <3>2, <3>3, Upwards
      <4> QED BY <1>6, <4>1
    <3>5. Edits(n) = EditedLines(f, s)
      BY <1>1 DEF EditedLines
    <3>6. FileBlocks(f) = fl[n]
      BY <1>4, <2>1
    <3> HIDE DEF Edits, lo
    <3> QED BY <3>4, <3>5, <3>6
  <2>3. FileBlocks(f) \in Seq(BlockRecords)
    BY <1>4, <1>6, <2>1
  <2> QED BY <2>2, <2>3
<1> QED BY <1>1, <1>5, <1>6

-----------------------------------------------------------------------------
(* The anchors of a file with blocks: an old one and a new one per block.   *)
LEMMA AnchorsPaired ==
  ASSUME NEW f, NEW blocks \in Seq(BlockRecords), blocks = FileBlocks(f), blocks # <<>>
  PROVE  /\ Len(AnchorsOf(f)) = 2 * Len(blocks) /\ DOMAIN AnchorsOf(f) = 1..(2 * Len(blocks))
         /\ \A k \in 1..Len(blocks) : /\ AnchorsOf(f)[2 * k - 1] = Anchor("old", f, blocks[k].old)
                                      /\ AnchorsOf(f)[2 * k] = Anchor("new", f, blocks[k].new)
<1>1. PICK n \in Nat : n = Len(blocks) /\ DOMAIN blocks = 1..n /\ n > 0
  <2>1. Len(blocks) > 0
    BY EmptySeq
  <2> QED BY <2>1
<1> DEFINE Pair(k) == <<Anchor("old", f, blocks[k].old), Anchor("new", f, blocks[k].new)>>
           T == {Anchor("old", f, blocks[k].old) : k \in 1..n} \union {Anchor("new", f, blocks[k].new) : k \in 1..n}
<1>2. PICK seqs : seqs = [k \in 1..n |-> Pair(k)]
  OBVIOUS
<1>3. \A k \in 1..n : seqs[k] = Pair(k) /\ Pair(k) \in Seq(T)
  <2> SUFFICES ASSUME NEW k \in 1..n
               PROVE  seqs[k] = Pair(k) /\ Pair(k) \in Seq(T)
    OBVIOUS
  <2>1. PICK a \in T, b \in T : a = Anchor("old", f, blocks[k].old) /\ b = Anchor("new", f, blocks[k].new)
    OBVIOUS
  <2> HIDE DEF T
  <2>2. <<a, b>> \in Seq(T) /\ Pair(k) = <<a, b>>
    BY <2>1
  <2> QED BY <1>2, <2>2
<1>4. AnchorsOf(f) = FlattenSeq(seqs)
  BY <1>1, <1>2 DEF AnchorsOf, FileBlocks
<1> HIDE DEF T
<1>5. seqs \in Seq(Seq(T)) /\ Len(seqs) = n
  <2>1. PICK U : U = Seq(T)
    OBVIOUS
  <2>2. \A k \in 1..n : seqs[k] \in U
    BY <1>3, <2>1
  <2> HIDE DEF Pair
  <2>3. seqs \in Seq(U) /\ Len(seqs) = n
    BY <1>2, <2>2
  <2> QED BY <2>1, <2>3
<1>6. PICK fl \in [1..n -> Seq(T)] :
        /\ fl[1] = seqs[1]
        /\ \A i \in 2..n : fl[i] = fl[i - 1] \o seqs[i]
        /\ FlattenSeq(seqs) = fl[n]
  <2>1. Len(seqs) > 0
    BY <1>1, <1>5
  <2> QED BY <1>5, <2>1, FlattenIs
<1> DEFINE Good(i) == /\ Len(fl[i]) = 2 * i
                      /\ \A k \in 1..i : /\ fl[i][2 * k - 1] = Anchor("old", f, blocks[k].old)
                                         /\ fl[i][2 * k] = Anchor("new", f, blocks[k].new)
           S == {i \in 1..n : Good(i)}
<1>7. 1 \in S
  <2>1. 1 \in 1..n
    BY <1>1
  <2>2. fl[1] = Pair(1)
    BY <1>3, <1>6, <2>1
  <2>3. Good(1)
    <3> SUFFICES ASSUME NEW k \in 1..1
                 PROVE  fl[1][2 * k - 1] = Anchor("old", f, blocks[k].old) /\ fl[1][2 * k] = Anchor("new", f, blocks[k].new)
      BY <2>2
    <3>1. k = 1
      OBVIOUS
    <3> QED BY <2>2, <3>1
  <2> QED BY <2>1, <2>3
<1>8. ASSUME NEW i \in (1 + 1)..n, i - 1 \in S
      PROVE  i \in S
  <2>1. i \in 1..n /\ i \in 2..n /\ i - 1 \in 1..n
    OBVIOUS
  <2>2. fl[i - 1] \in Seq(T) /\ Pair(i) \in Seq(T) /\ fl[i] = fl[i - 1] \o Pair(i)
    BY <1>3, <1>6, <2>1
  <2>3. PICK old, new : old = Anchor("old", f, blocks[i].old) /\ new = Anchor("new", f, blocks[i].new)
    OBVIOUS
  <2>4. Pair(i) = <<old, new>> /\ Len(fl[i - 1]) = 2 * (i - 1)
    BY <1>8, <2>3
  <2>5. PICK R \in Seq(T) : R = fl[i - 1]
    BY <2>2
  <2>6. Len(R) = 2 * i - 2 /\ fl[i] = R \o <<old, new>> /\ <<old, new>> \in Seq(T)
    <3>1. <<old, new>> \in Seq(T)
      BY <2>2, <2>4
    <3>2. 2 * (i - 1) = 2 * i - 2
      OBVIOUS
    <3>3. fl[i] = R \o <<old, new>>
      BY <2>2, <2>4, <2>5
    <3> QED BY <2>4, <2>5, <3>1, <3>2, <3>3
  <2> HIDE DEF S, Pair
  <2>7. Len(fl[i]) = 2 * i
    BY <2>6, ConcatProperties
  <2>8. \A j \in 1..(2 * i - 2) : fl[i][j] = R[j]
    BY <2>6, ConcatProperties
  <2>9. fl[i][2 * i - 1] = old /\ fl[i][2 * i] = new
    <3>1. 2 * i - 1 \in (2 * i - 2 + 1)..(2 * i) /\ 2 * i \in (2 * i - 2 + 1)..(2 * i)
      OBVIOUS
    <3>2. (2 * i - 1) - (2 * i - 2) = 1 /\ (2 * i) - (2 * i - 2) = 2
      OBVIOUS
    <3> QED BY <2>6, <3>1, <3>2
  <2>10. \A k \in 1..(i - 1) : /\ R[2 * k - 1] = Anchor("old", f, blocks[k].old)
                               /\ R[2 * k] = Anchor("new", f, blocks[k].new)
    BY <1>8, <2>5 DEF S
  <2>11. ASSUME NEW k \in 1..i
         PROVE  fl[i][2 * k - 1] = Anchor("old", f, blocks[k].old) /\ fl[i][2 * k] = Anchor("new", f, blocks[k].new)
    <3>1. CASE k = i
      BY <2>3, <2>9, <3>1
    <3>2. CASE k # i
      <4>1. k \in 1..(i - 1) /\ 2 * k - 1 \in 1..(2 * i - 2) /\ 2 * k \in 1..(2 * i - 2)
        BY <3>2
      <4> QED BY <2>8, <2>10, <4>1
    <3> QED BY <3>1, <3>2
  <2> QED BY <2>1, <2>7, <2>11 DEF S
<1>9. n \in S
  <2> HIDE DEF S
  <2>1. 1..n \subseteq S
    BY <1>7, <1>8, Upwards
  <2> QED BY <1>1, <2>1
<1>10. AnchorsOf(f) \in Seq(T) /\ AnchorsOf(f) = fl[n]
  <2>1. fl[n] \in Seq(T)
    BY <1>1, <1>6
  <2> QED BY <1>4, <1>6, <2>1
<1>11. DOMAIN AnchorsOf(f) = 1..Len(AnchorsOf(f))
  BY <1>10
<1> QED BY <1>1, <1>9, <1>10, <1>11

(* Every valid file change is anchored exactly at its edits.                *)
LEMMA ValidFileAnchored ==
  ASSUME NEW f, FileValid(f), NEW s \in {"old", "new"}
  PROVE  ExactlyAnchored(f, s)
<1>1. PICK blocks \in Seq(BlockRecords) : blocks = FileBlocks(f)
  BY FileTiles
<1>2. PICK own : own = AnchorsOf(f)
  OBVIOUS
<1>3. PICK mine : mine = {k \in DOMAIN own : own[k].side = s /\ own[k].range # Absent}
  OBVIOUS
<1>4. PICK lo, hi : Tiles(OfSide(blocks, s), lo, hi, EditedLines(f, s))
  BY <1>1, FileTiles
<1>5. CASE blocks = <<>>
  <2>1. own = <<Anchor("old", f, Absent), Anchor("new", f, Absent)>>
    BY <1>1, <1>2, <1>5 DEF AnchorsOf, FileBlocks
  <2>2. mine = {}
    <3>1. \A k \in DOMAIN own : k = 1 \/ k = 2
      BY <2>1
    <3>2. \A k \in DOMAIN own : own[k].range = Absent
      BY <2>1, <3>1 DEF Anchor
    <3> QED BY <1>3, <3>2
  <2>3. EditedLines(f, s) = {}
    BY <1>4, <1>5 DEF Tiles, OfSide
  <2> QED BY <1>2, <1>3, <2>2, <2>3 DEF ExactlyAnchored
<1>6. CASE blocks # <<>>
  <2>1. PICK n \in Nat : n = Len(blocks)
    OBVIOUS
  <2>2. /\ DOMAIN own = 1..(2 * n)
        /\ \A k \in 1..n : own[2 * k - 1] = Anchor("old", f, blocks[k].old) /\ own[2 * k] = Anchor("new", f, blocks[k].new)
    BY <1>1, <1>2, <1>6, <2>1, AnchorsPaired
  <2> DEFINE R == OfSide(blocks, s)
             index(k) == IF s = "old" THEN 2 * k - 1 ELSE 2 * k
  <2>3. R \in Seq(Pairs) /\ Len(R) = n /\ \A k \in 1..n : R[k] = blocks[k][s] /\ R[k] \in Pairs
    BY <1>4, <2>1 DEF Tiles, OfSide
  <2>4. \A k \in 1..n : own[2 * k - 1].side = "old" /\ own[2 * k].side = "new"
                        /\ own[2 * k - 1].range = blocks[k].old /\ own[2 * k].range = blocks[k].new
    <3>1. \A sd, r : Anchor(sd, f, r).side = sd /\ Anchor(sd, f, r).range = r
      BY DEF Anchor
    <3> QED BY <2>2, <3>1
  <2>5. \A j \in 1..(2 * n) : \E k \in 1..n : j = 2 * k - 1 \/ j = 2 * k
    <3> SUFFICES ASSUME NEW j \in 1..(2 * n)
                 PROVE  \E k \in 1..n : j = 2 * k - 1 \/ j = 2 * k
      OBVIOUS
    <3>1. (j + 1) \div 2 \in 1..n /\ (j = 2 * ((j + 1) \div 2) - 1 \/ j = 2 * ((j + 1) \div 2))
      OBVIOUS
    <3> QED BY <3>1
  <2>6. \A k \in 1..n : index(k) \in mine /\ own[index(k)].range = R[k]
    <3> SUFFICES ASSUME NEW k \in 1..n
                 PROVE  index(k) \in mine /\ own[index(k)].range = R[k]
      OBVIOUS
    <3>1. index(k) \in DOMAIN own
      BY <2>2
    <3>2. own[index(k)].side = s /\ own[index(k)].range = blocks[k][s]
      BY <2>4
    <3>3. R[k] # Absent /\ R[k] = blocks[k][s]
      BY <2>3, AbsentAssumption DEF Pairs
    <3> QED BY <1>3, <3>1, <3>2, <3>3
  <2>7. \A j \in mine : \E k \in 1..n : j = index(k)
    <3> SUFFICES ASSUME NEW j \in mine
                 PROVE  \E k \in 1..n : j = index(k)
      OBVIOUS
    <3>1. j \in 1..(2 * n) /\ own[j].side = s
      BY <1>3, <2>2
    <3>2. PICK k \in 1..n : j = 2 * k - 1 \/ j = 2 * k
      BY <2>5, <3>1
    <3>3. j = index(k)
      BY <2>4, <3>1, <3>2
    <3> QED BY <3>3
  <2>8. \A j, k \in 1..n : index(j) < index(k) => j < k
    OBVIOUS
  <2>9. PICK Q : Q = R
    OBVIOUS
  <2>10. /\ \A k \in 1..n : Q[k] \in Nat \X Nat
         /\ \A j, k \in 1..n : j < k => Q[j][2] <= Q[k][1]
         /\ EditedLines(f, s) \subseteq Nat
         /\ \A x \in Nat : x \in EditedLines(f, s) <=> \E j \in 1..n : Q[j][1] <= x /\ x < Q[j][2]
    <3>1. Tiles(R, lo, hi, EditedLines(f, s)) /\ Len(R) = n
      BY <1>4, <2>3
    <3> QED BY <2>3, <2>9, <3>1 DEF Tiles, Pairs
  <2> HIDE DEF R
  <2>11. \A j, k \in mine : j < k => own[j].range[2] <= own[k].range[1]
    <3> SUFFICES ASSUME NEW j \in mine, NEW k \in mine, j < k
                 PROVE  own[j].range[2] <= own[k].range[1]
      OBVIOUS
    <3>1. PICK p \in 1..n, q \in 1..n : j = index(p) /\ k = index(q)
      BY <2>7
    <3>2. p < q
      BY <2>8, <3>1
    <3>3. own[j].range = Q[p] /\ own[k].range = Q[q]
      BY <2>6, <2>9, <3>1
    <3> QED BY <2>10, <3>2, <3>3
  <2>12. UNION {own[k].range[1]..(own[k].range[2] - 1) : k \in mine} = EditedLines(f, s)
    <3> DEFINE U == UNION {own[k].range[1]..(own[k].range[2] - 1) : k \in mine}
    <3>1. ASSUME NEW x \in U
          PROVE  x \in EditedLines(f, s)
      <4>1. PICK k \in mine : x \in own[k].range[1]..(own[k].range[2] - 1)
        OBVIOUS
      <4>2. PICK p \in 1..n : k = index(p)
        BY <2>7
      <4>3. x \in Q[p][1]..(Q[p][2] - 1) /\ Q[p][1] \in Nat /\ Q[p][2] \in Nat
        BY <2>6, <2>9, <2>10, <4>1, <4>2
      <4>4. x \in Nat /\ Q[p][1] <= x /\ x < Q[p][2]
        BY <4>3
      <4> QED BY <2>10, <4>4
    <3>2. ASSUME NEW x \in EditedLines(f, s)
          PROVE  x \in U
      <4>1. x \in Nat
        BY <2>10
      <4>2. PICK p \in 1..n : Q[p][1] <= x /\ x < Q[p][2]
        BY <2>10, <4>1
      <4>3. Q[p][1] \in Nat /\ Q[p][2] \in Nat
        BY <2>10
      <4>4. x \in Q[p][1]..(Q[p][2] - 1)
        BY <4>1, <4>2, <4>3
      <4>5. index(p) \in mine /\ own[index(p)].range = Q[p]
        BY <2>6, <2>9
      <4> HIDE DEF index
      <4> QED BY <4>4, <4>5
    <3> QED BY <3>1, <3>2
  <2> QED BY <1>2, <1>3, <2>11, <2>12 DEF ExactlyAnchored
<1> QED BY <1>5, <1>6


-----------------------------------------------------------------------------
(* A limit that is not reached leaves nothing out.                          *)
LEMMA FirstSymbolsAll ==
  ASSUME NEW S, IsFiniteSet(S), \A x \in S : SymbolRank[x] \in Nat, NEW n \in Nat, Cardinality(S) <= n
  PROVE  FirstSymbols(S, n) = S
<1> SUFFICES ASSUME NEW x \in S
             PROVE  x \in FirstSymbols(S, n)
  BY DEF FirstSymbols, Least
<1>1. Position(S, SymbolRank, x) \in 0..(Cardinality(S) - 1) /\ Cardinality(S) \in Nat
  BY PositionAmong
<1>2. Cardinality({y \in S : SymbolRank[y] < SymbolRank[x]}) < n
  BY <1>1 DEF Position
<1> QED BY <1>2 DEF FirstSymbols, Least

(* A range that is mapped without a doubt about an extent is mapped to      *)
(* every symbol with a stored extent it touches.                            *)
LEMMA MatchFinds ==
  ASSUME NEW kb, IsFiniteSet(kb.symbols), \A y \in kb.symbols : SymbolRank[y] \in Nat,
         NEW path, NEW range,
         Match(kb, path, range).status = "mapped",
         "invalid_range" \notin Match(kb, path, range).notes,
         NEW z \in kb.symbols, NEW x \in {kb.declaration[z], kb.definition[z]} \ {Absent},
         x.path = path, ExtentRelation(range, x.at) # "none"
  PROVE  z \in Match(kb, path, range).symbols
<1> DEFINE stored(s) == {extent \in {kb.declaration[s], kb.definition[s]} \ {Absent} : extent.path = path}
           found == {s \in kb.symbols : stored(s) # {}}
           read == FirstSymbols(found, MaxSymbolsPerFile)
           sound(e) == ValidPosition(e.at[1], kb.lines[path]) /\ ValidPosition(e.at[2], kb.lines[path])
           proofs(s) == {ExtentRelation(range, e.at) : e \in {y \in stored(s) : sound(y)}} \ {"none"}
           matches == {s \in read : proofs(s) # {}}
           cut == Cardinality(found) > MaxSymbolsPerFile \/ Cardinality(matches) > MaxCandidatesPerRange
           exceeds == \E s \in read : \E e \in stored(s) : ~sound(e)
           notes == (IF exceeds THEN {"invalid_range"} ELSE {})
             \union (IF cut THEN {"limit"} ELSE {})
             \union (IF matches = {} THEN {"no_match"}
                     ELSE IF UNION {proofs(s) : s \in matches} = {"intersecting"} THEN {"no_enclosing"} ELSE {})
           badly == ~ValidPosition(<<range[1], 1>>, kb.lines[path]) \/ ~ValidPosition(<<range[2], 1>>, kb.lines[path])
<1>1. Match(kb, path, range) =
        IF badly THEN Outcome("unresolved", {}, FALSE, {"invalid_range"})
        ELSE Outcome(IF cut THEN "truncated" ELSE IF matches = {} THEN "unresolved" ELSE "mapped",
                     FirstSymbols(matches, MaxCandidatesPerRange), Cardinality(matches) > 1, notes)
  BY DEF Match
<1>2. PICK out : out = Match(kb, path, range)
  OBVIOUS
<1>3. out.status = "mapped" /\ "invalid_range" \notin out.notes
  BY <1>2
<1> HIDE DEF badly
<1>4. ~badly
  <2> HIDE DEF cut, notes, matches
  <2> QED BY <1>1, <1>2, <1>3 DEF Outcome
<1>5. ~cut
  <2> HIDE DEF cut, notes, matches
  <2> QED BY <1>1, <1>2, <1>3, <1>4 DEF Outcome
<1>6. out.symbols = FirstSymbols(matches, MaxCandidatesPerRange) /\ out.notes = notes
  <2> HIDE DEF cut, notes, matches
  <2> QED BY <1>1, <1>2, <1>4 DEF Outcome
<1>7. ~exceeds
  <2> HIDE DEF cut, matches, exceeds
  <2> QED BY <1>3, <1>6
<1>8. IsFiniteSet(found) /\ Cardinality(found) <= MaxSymbolsPerFile
  <2>1. IsFiniteSet(found)
    BY FS_Subset
  <2>2. Cardinality(found) \in Nat /\ MaxSymbolsPerFile \in Nat
    BY <2>1, FS_CardinalityType, MappingBoundsAssumption
  <2>3. ~ Cardinality(found) > MaxSymbolsPerFile
    BY <1>5
  <2> QED BY <2>1, <2>2, <2>3
<1>9. read = found
  BY <1>8, FirstSymbolsAll, MappingBoundsAssumption
<1>10. z \in read /\ x \in stored(z)
  <2>1. x \in stored(z)
    OBVIOUS
  <2> QED BY <1>9, <2>1
<1>11. sound(x)
  BY <1>7, <1>10
<1>12. z \in matches
  BY <1>10, <1>11
<1>13. IsFiniteSet(matches) /\ Cardinality(matches) <= MaxCandidatesPerRange
  <2>1. IsFiniteSet(matches)
    BY <1>8, <1>9, FS_Subset
  <2>2. Cardinality(matches) \in Nat /\ MaxCandidatesPerRange \in Nat
    BY <2>1, FS_CardinalityType, MappingBoundsAssumption
  <2>3. ~ Cardinality(matches) > MaxCandidatesPerRange
    BY <1>5
  <2> QED BY <2>1, <2>2, <2>3
<1>14. matches \subseteq kb.symbols
  BY <1>9
<1>15. FirstSymbols(matches, MaxCandidatesPerRange) = matches
  <2>1. MaxCandidatesPerRange \in Nat /\ \A y \in matches : SymbolRank[y] \in Nat
    BY <1>14, MappingBoundsAssumption
  <2> HIDE DEF matches
  <2> QED BY <1>13, <2>1, FirstSymbolsAll
<1> QED BY <1>2, <1>6, <1>12, <1>15

(* An anchor of a file of an available side is only mapped by a match.      *)
LEMMA MappedByMatch ==
  ASSUME NEW kb, NEW anchors, NEW i,
         anchors[i].path # Absent,
         MapAnchor(kb, "none", anchors, i).status \in {"mapped", "not_applicable"}
  PROVE  MapAnchor(kb, "none", anchors, i) = Match(kb, anchors[i].path, anchors[i].range)
<1>1. PICK out : out = MapAnchor(kb, "none", anchors, i)
  OBVIOUS
<1>2. \/ out = Match(kb, anchors[i].path, anchors[i].range)
      \/ \E status \in {"unresolved", "truncated", "unsupported", "failure"} :
           \E notes : out = Outcome(status, {}, FALSE, notes)
  BY <1>1 DEF MapAnchor
<1>3. out.status = "mapped" \/ out.status = "not_applicable"
  BY <1>1
<1> QED BY <1>1, <1>2, <1>3 DEF Outcome

(* Whatever an anchor is mapped to is a symbol of the snapshot.             *)
LEMMA FirstAmong ==
  ASSUME NEW S, NEW n
  PROVE  FirstSymbols(S, n) \subseteq S
BY DEF FirstSymbols, Least

LEMMA MatchAmong ==
  ASSUME NEW kb, NEW path, NEW range
  PROVE  Match(kb, path, range).symbols \subseteq kb.symbols
<1> DEFINE stored(s) == {extent \in {kb.declaration[s], kb.definition[s]} \ {Absent} : extent.path = path}
           found == {s \in kb.symbols : stored(s) # {}}
           read == FirstSymbols(found, MaxSymbolsPerFile)
           sound(e) == ValidPosition(e.at[1], kb.lines[path]) /\ ValidPosition(e.at[2], kb.lines[path])
           proofs(s) == {ExtentRelation(range, e.at) : e \in {y \in stored(s) : sound(y)}} \ {"none"}
           matches == {s \in read : proofs(s) # {}}
<1>1. FirstSymbols(matches, MaxCandidatesPerRange) \subseteq kb.symbols
  <2>1. FirstSymbols(matches, MaxCandidatesPerRange) \subseteq matches
    BY FirstAmong
  <2>2. read \subseteq found
    BY FirstAmong
  <2>3. found \subseteq kb.symbols /\ matches \subseteq read
    OBVIOUS
  <2> QED BY <2>1, <2>2, <2>3
<1>2. Match(kb, path, range).symbols \in {{}, FirstSymbols(matches, MaxCandidatesPerRange)}
  BY DEF Match, Outcome
<1> HIDE DEF matches
<1> QED BY <1>1, <1>2

LEMMA MappedAmong ==
  ASSUME NEW kb, NEW issue, NEW anchors, NEW i
  PROVE  MapAnchor(kb, issue, anchors, i).symbols \subseteq kb.symbols
<1>1. PICK out : out = MapAnchor(kb, issue, anchors, i)
  OBVIOUS
<1>2. \/ out = Match(kb, anchors[i].path, anchors[i].range)
      \/ \E status, notes : out = Outcome(status, {}, FALSE, notes)
  BY <1>1 DEF MapAnchor
<1>3. CASE out = Match(kb, anchors[i].path, anchors[i].range)
  BY <1>1, <1>3, MatchAmong
<1>4. CASE \E status, notes : out = Outcome(status, {}, FALSE, notes)
  BY <1>1, <1>4 DEF Outcome
<1> QED BY <1>2, <1>3, <1>4
=============================================================================

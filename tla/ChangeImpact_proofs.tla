-------------------------- MODULE ChangeImpact_proofs --------------------------
(***************************************************************************)
(* For every repository, include relation, set of command lines and        *)
(* history of edits: an impact of status `safe_incremental' leaves out     *)
(* only units whose fingerprint is unchanged.  The argument needs no       *)
(* induction over include chains: where no file of either closure of a     *)
(* unit differs, the common part of the two closures is itself closed      *)
(* under inclusion on each side, so neither is larger than the other.      *)
(***************************************************************************)
EXTENDS ChangeImpact, TLAPS

(* Every path whose contents differ is a path of some change, whichever     *)
(* pairs of vanished and new files the diff calls renames.                  *)
LEMMA ChangesCover ==
  ASSUME NEW old, NEW new, NEW changes \in ChangeSets(old, new),
         NEW p \in Paths, old.tree[p] # new.tree[p]
  PROVE  \E c \in changes : p \in PathsOf(c)
<1> DEFINE gone == {q \in Paths : old.tree[q] # Absent /\ new.tree[q] = Absent}
           come == {q \in Paths : old.tree[q] = Absent /\ new.tree[q] # Absent}
           kept == {q \in Paths : old.tree[q] # new.tree[q]} \ (gone \union come)
<1>1. PICK R \in SUBSET (gone \X come) :
        changes = {Change(q, q) : q \in kept} \union {Change(r[1], r[2]) : r \in R}
                    \union {Change(q, Absent) : q \in {o \in gone : \A r \in R : r[1] # o}}
                    \union {Change(Absent, q) : q \in {o \in come : \A r \in R : r[2] # o}}
  BY DEF ChangeSets
<1>2. p # Absent
  BY PathsAssumption
<1>3. CASE p \in kept
  <2>1. Change(p, p) \in changes /\ p \in PathsOf(Change(p, p))
    BY <1>1, <1>2, <1>3 DEF Change, PathsOf
  <2> QED BY <2>1
<1>4. CASE p \in gone
  <2>1. CASE \E r \in R : r[1] = p
    <3>1. PICK r \in R : r[1] = p
      BY <2>1
    <3>2. Change(r[1], r[2]) \in changes
      BY <1>1
    <3>3. p \in PathsOf(Change(r[1], r[2]))
      BY <1>2, <3>1 DEF Change, PathsOf
    <3> QED BY <3>2, <3>3
  <2>2. CASE \A r \in R : r[1] # p
    <3>1. Change(p, Absent) \in changes
      BY <1>1, <1>4, <2>2
    <3>2. p \in PathsOf(Change(p, Absent))
      BY <1>2 DEF Change, PathsOf
    <3> QED BY <3>1, <3>2
  <2> QED BY <2>1, <2>2
<1>5. CASE p \in come
  <2>1. CASE \E r \in R : r[2] = p
    <3>1. PICK r \in R : r[2] = p
      BY <2>1
    <3>2. Change(r[1], r[2]) \in changes
      BY <1>1
    <3>3. p \in PathsOf(Change(r[1], r[2]))
      BY <1>2, <3>1 DEF Change, PathsOf
    <3> QED BY <3>2, <3>3
  <2>2. CASE \A r \in R : r[2] # p
    <3>1. Change(Absent, p) \in changes
      BY <1>1, <1>5, <2>2
    <3>2. p \in PathsOf(Change(Absent, p))
      BY <1>2 DEF Change, PathsOf
    <3> QED BY <3>1, <3>2
  <2> QED BY <2>1, <2>2
<1>6. p \in kept \/ p \in gone \/ p \in come
  OBVIOUS
<1> QED BY <1>3, <1>4, <1>5, <1>6

(* The files a unit reads exist, hold its source and are closed.            *)
LEMMA DependenciesClosed ==
  ASSUME NEW side, NEW u \in Units(side)
  PROVE  /\ Dependencies(side, u) \subseteq Existing(side)
         /\ ReadWith(side, u, Dependencies(side, u))
<1>1. u.source \in Paths /\ side.tree[u.source] # Absent
  <2>1. Loads(side) /\ (\E c \in side.commands : u = Unit(side, c))
    BY DEF Units
  <2> QED BY <2>1 DEF Loads, Unit
<1>2. ReadWith(side, u, Existing(side))
  BY <1>1 DEF ReadWith, Existing
<1>3. Dependencies(side, u) \subseteq Existing(side)
  BY <1>2 DEF Dependencies
<1>4. u.source \in Dependencies(side, u)
  BY <1>1 DEF Dependencies, ReadWith
<1>5. ASSUME NEW p \in Dependencies(side, u), NEW q \in Paths,
             q \in Includes[<<side.tree[p], u.arguments>>], side.tree[q] # Absent
      PROVE  q \in Dependencies(side, u)
  <2>1. ASSUME NEW S \in SUBSET Existing(side), ReadWith(side, u, S)
        PROVE  q \in S
    <3>1. p \in S
      BY <2>1 DEF Dependencies
    <3> QED BY <1>5, <2>1, <3>1 DEF ReadWith
  <2> QED BY <2>1 DEF Dependencies
<1> QED BY <1>3, <1>4, <1>5 DEF ReadWith

(* Where no file of either closure differs, one side's closure holds the    *)
(* other's.                                                                 *)
LEMMA ClosureKept ==
  ASSUME NEW x, NEW y, NEW u \in Units(x), u \in Units(y),
         \A p \in Dependencies(x, u) \union Dependencies(y, u) : x.tree[p] = y.tree[p]
  PROVE  Dependencies(x, u) \subseteq Dependencies(y, u)
<1> DEFINE S == Dependencies(x, u) \intersect Dependencies(y, u)
<1>1. /\ Dependencies(x, u) \subseteq Existing(x) /\ ReadWith(x, u, Dependencies(x, u))
      /\ ReadWith(y, u, Dependencies(y, u))
  BY DependenciesClosed
<1>2. S \in SUBSET Existing(x)
  BY <1>1
<1>3. u.source \in S
  BY <1>1 DEF ReadWith
<1>4. ASSUME NEW p \in S, NEW q \in Paths,
             q \in Includes[<<x.tree[p], u.arguments>>], x.tree[q] # Absent
      PROVE  q \in S
  <2>1. q \in Dependencies(x, u)
    BY <1>1, <1>4 DEF ReadWith
  <2>2. x.tree[p] = y.tree[p] /\ x.tree[q] = y.tree[q]
    BY <2>1
  <2>3. q \in Dependencies(y, u)
    BY <1>1, <1>4, <2>2 DEF ReadWith
  <2> QED BY <2>1, <2>3
<1>5. ReadWith(x, u, S)
  BY <1>3, <1>4 DEF ReadWith
<1> QED BY <1>2, <1>5 DEF Dependencies

(* A safe analysis of a change set leaves out no unit it should not.        *)
LEMMA SafeAnalysis ==
  ASSUME NEW changes \in ChangeSets(before, after),
         Analysis(changes).status = "safe_incremental",
         NEW u \in Units(before) \union Units(after),
         u \notin Affected(changes),
         \A p \in Unusual(u) : before.tree[p] = after.tree[p]
  PROVE  /\ u \in Units(before) \intersect Units(after)
         /\ Fingerprint(before, u) = Fingerprint(after, u)
<1>1. u \in Units(before) /\ u \in Units(after)
  BY DEF Affected
<1>2. ~Rebuild(changes)
  BY DEF Analysis
<1>3. Recorded(before) = Units(before) /\ Recorded(after) = Units(after)
  BY <1>2 DEF Rebuild
<1>4. u.source \in Paths /\ Extension[u.source] = "source"
  <2>1. Loads(before) /\ (\E c \in before.commands : u = Unit(before, c))
    BY <1>1 DEF Units
  <2> QED BY <2>1 DEF Loads, Unit
<1>5. \A c \in changes : u \notin AffectedBy(c)
  BY DEF Affected
<1>6. ASSUME NEW p \in Dependencies(before, u) \union Dependencies(after, u)
      PROVE  before.tree[p] = after.tree[p]
  <2> SUFFICES ASSUME before.tree[p] # after.tree[p]
               PROVE  FALSE
    OBVIOUS
  <2>1. p \in Paths
    BY DEF Dependencies
  <2>2. PICK c \in changes : p \in PathsOf(c)
    BY <2>1, ChangesCover
  <2>3. CASE p = u.source
    <3>1. Touches(c, "source") /\ u \in OwnOf(c)
      BY <1>1, <1>4, <2>2, <2>3 DEF Touches, OwnOf, Own
    <3> QED BY <1>5, <3>1 DEF AffectedBy
  <2>4. CASE Extension[p] = "header"
    <3>1. u \in Dependents(before, p) \union Dependents(after, p)
      BY <1>1, <1>3, <1>6 DEF Dependents
    <3>2. Touches(c, "header") /\ u \in DependentsOf(c)
      BY <2>2, <2>4, <3>1 DEF Touches, DependentsOf
    <3> QED BY <1>5, <3>2 DEF AffectedBy
  <2>5. CASE p # u.source /\ Extension[p] # "header"
    BY <1>6, <2>5 DEF Unusual
  <2> QED BY <2>3, <2>4, <2>5
<1>7. Dependencies(before, u) = Dependencies(after, u)
  <2>1. Dependencies(before, u) \subseteq Dependencies(after, u)
    BY <1>1, <1>6, ClosureKept
  <2>2. Dependencies(after, u) \subseteq Dependencies(before, u)
    BY <1>1, <1>6, ClosureKept
  <2> QED BY <2>1, <2>2
<1> QED BY <1>1, <1>6, <1>7 DEF Fingerprint

-----------------------------------------------------------------------------
(* An impact that is there is the analysis of the two sides as they stand:  *)
(* nothing is edited between an analysis and the next step.                 *)
ImpactIsCurrent ==
  impact # Absent => \E changes \in ChangeSets(before, after) : impact = Analysis(changes)

(* An impact that stands is an analysis of the two sides as they are.       *)
LEMMA ImpactAlwaysCurrent == Spec => []ImpactIsCurrent
<1>1. Init => ImpactIsCurrent
  BY DEF Init, ImpactIsCurrent
<1>2. ImpactIsCurrent /\ [Next]_vars => ImpactIsCurrent'
  <2> SUFFICES ASSUME ImpactIsCurrent, [Next]_vars
               PROVE  ImpactIsCurrent'
    OBVIOUS
  <2>1. CASE Edit
    BY <2>1 DEF Edit, ImpactIsCurrent
  <2>2. ASSUME UNCHANGED <<before, after>>
        PROVE  /\ ChangeSets(before, after)' = ChangeSets(before, after)
               /\ \A changes : Analysis(changes)' = Analysis(changes)
    BY <2>2 DEF ChangeSets, Analysis, Affected, AffectedBy, DependentsOf, OwnOf, Rebuild
  <2>3. CASE Analyze
    <3>1. PICK changes \in ChangeSets(before, after) : impact' = Analysis(changes)
      BY <2>3 DEF Analyze
    <3> QED BY <2>2, <2>3, <3>1 DEF Analyze, ImpactIsCurrent
  <2>4. CASE Advance
    BY <2>4 DEF Advance, ImpactIsCurrent
  <2>5. CASE UNCHANGED vars
    BY <2>2, <2>5 DEF vars, ImpactIsCurrent
  <2> QED
    BY <2>1, <2>3, <2>4, <2>5 DEF Next, Write, Reconfigure, LoseDatabase, LoseDepfile
<1> QED BY <1>1, <1>2, PTL DEF Spec

(* Of any repository, after any edits: a unit that a safe impact leaves out *)
(* has the fingerprint it had, but for changed files that are included      *)
(* under a name no header has.                                              *)
THEOREM SafeImpactAlwaysComplete == Spec => []SafeImpactIsComplete
<1>1. ImpactIsCurrent => SafeImpactIsComplete
  <2> SUFFICES ASSUME ImpactIsCurrent, impact # Absent, impact.status = "safe_incremental",
                      NEW u \in Units(before) \union Units(after),
                      u \notin impact.affected,
                      \A p \in Unusual(u) : before.tree[p] = after.tree[p]
               PROVE  /\ u \in Units(before) \intersect Units(after)
                      /\ Fingerprint(before, u) = Fingerprint(after, u)
    BY DEF SafeImpactIsComplete, LeftOut, Unchanged
  <2>1. PICK changes \in ChangeSets(before, after) : impact = Analysis(changes)
    BY DEF ImpactIsCurrent
  <2>2. u \notin Affected(changes)
    BY <2>1 DEF Analysis
  <2> QED BY <2>1, <2>2, SafeAnalysis
<1> QED BY <1>1, ImpactAlwaysCurrent, PTL
=============================================================================

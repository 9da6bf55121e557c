-------------------------- MODULE IndexBuild_proofs --------------------------
(***************************************************************************)
(* For all worlds, edits, rules and bounds: a reader of the index file     *)
(* sees the rows of the last commit whatever was killed or failed before;  *)
(* a recognized role is one that a rule gives to the file of the           *)
(* definition; no stage refuses what an earlier one made; the relations'   *)
(* evidence only refines what the collection knew; the rows answer as the  *)
(* models they were made from; and a benchmark over them is fair, but for  *)
(* overloads, whose annotation fails.                                      *)
(*                                                                         *)
(* Six invariants, each about another part of the state: the file and its  *)
(* journal (BuildInv), what a build holds for the next stage (WorkOK),     *)
(* what it committed (CommittedOK), what it still knows of the collection  *)
(* (MemoryOK), where the parts of its symbols come from (OriginOK), and    *)
(* what the committed rows can be measured by (ServedOK).  The tables, the *)
(* graph and the benchmark are one pass each, so the rest are lemmas about *)
(* operators.                                                              *)
(***************************************************************************)
EXTENDS IndexBuild, FiniteSetTheorems, TLAPS

DbOK ==
  db = [schema |-> db.schema, torn |-> db.torn, rows |-> db.rows, journal |-> db.journal]

\* The file and its journal between them always hold the last commit, and the
\* journal is gone while a build that has opened the file is not writing.
StoreOK ==
  /\ db.journal = <<>> => db.rows = committed
  /\ db.journal # <<>> => db.journal = <<committed>>
  /\ pc \in {"opened", "valid", "indexed", "graphed"} => db.journal = <<>>
  /\ pc \in {"opened", "valid", "writing", "indexed", "graphed"} => db.schema

\* A role map that stands was made from the rows that stand: only a refresh
\* makes one, its last step does, and its destination is not built again.
RolesOK ==
  /\ pc \in {"indexed", "graphed"} => world.mode = "refresh"
  /\ graph # None => /\ world.mode = "refresh" /\ pc = "done" /\ db.schema
                     /\ graph.roles = DomainMap(db.rows, Rules, graph.of)

BuildInv == BuildTypeOK /\ DbOK /\ StoreOK /\ RolesOK

(* Nothing is torn, lost or mapped before the first build.                  *)
LEMMA InitBuildInv == Init => BuildInv
<1> SUFFICES ASSUME Init PROVE BuildInv
  OBVIOUS
<1> USE DEF Init
<1>1. BuildTypeOK
  <2>1. db.schema \in BOOLEAN /\ db.torn = (db.journal # <<>>)
    <3>1. db.schema = FALSE /\ db.torn = FALSE /\ db.journal = <<>>
      BY DEF NoFile
    <3> QED BY <3>1
  <2>2. attempts \in 0 .. MaxAttempts /\ faults \in 0 .. MaxFaults
    BY BoundsAssumption
  <2> QED BY <2>1, <2>2 DEF BuildTypeOK
<1>2. DbOK /\ StoreOK
  BY DEF DbOK, StoreOK, NoFile
<1>3. RolesOK
  BY DEF RolesOK
<1> QED BY <1>1, <1>2, <1>3 DEF BuildInv

(* Opening for writing mends the file: afterwards no journal stands beside  *)
(* it and its rows are the last commit.                                     *)
LEMMA RecoveredMends ==
  ASSUME DbOK, StoreOK
  PROVE  /\ Recovered(db).schema = TRUE /\ Recovered(db).torn = FALSE
         /\ Recovered(db).journal = <<>> /\ Recovered(db).rows = committed
         /\ Recovered(db) = [schema |-> Recovered(db).schema, torn |-> Recovered(db).torn,
                             rows |-> Recovered(db).rows, journal |-> Recovered(db).journal]
<1>1. CASE db.journal = <<>>
  BY <1>1 DEF Recovered, StoreOK
<1>2. CASE db.journal # <<>>
  <2>1. db.journal[1] = committed
    BY <1>2 DEF StoreOK
  <2> QED BY <1>2, <2>1 DEF Recovered
<1> QED BY <1>1, <1>2

(* Steps that move the build alone leave what is on disk as it was.         *)
LEMMA StepKeepsStore ==
  ASSUME BuildInv, [Next]_vars
  PROVE  DbOK' /\ StoreOK'
<1> USE DEF BuildInv, DbOK, StoreOK, OnDisk, Stop
<1>1. CASE Begin
  BY <1>1 DEF Begin
<1>2. CASE Edit
  BY <1>2 DEF Edit
<1>3. CASE Discover
  BY <1>3 DEF Discover
<1>4. CASE Collect
  BY <1>4 DEF Collect
<1>5. CASE Relate
  BY <1>5 DEF Relate
<1>6. CASE MergeAgain
  BY <1>6 DEF MergeAgain
<1>7. CASE OpenIndex
  BY <1>7, RecoveredMends DEF OpenIndex
<1>8. CASE Validate
  BY <1>8 DEF Validate
<1>9. CASE Write
  <2>1. CASE db' = [db EXCEPT !.journal = <<db.rows>>, !.torn = TRUE] /\ pc' = "writing"
    BY <1>9, <2>1 DEF Write
  <2>2. CASE UNCHANGED db /\ pc' = "failed"
    BY <1>9, <2>2 DEF Write
  <2> QED BY <1>9, <2>1, <2>2 DEF Write
<1>10. CASE Commit
  <2>1. /\ db' = [db EXCEPT !.rows = Tables(Input), !.journal = <<>>, !.torn = FALSE]
        /\ committed' = Tables(Input) /\ db.schema /\ pc' \in {"indexed", "done"}
    BY <1>10 DEF Commit
  <2> HIDE DEF Stop
  <2> QED BY <2>1
<1>11. CASE BuildGraph
  BY <1>11 DEF BuildGraph
<1>12. CASE SaveGraph
  BY <1>12 DEF SaveGraph
<1>13. CASE Fail
  <2>1. CASE pc = "writing"
    BY <1>13, <2>1, RecoveredMends DEF Fail
  <2>2. CASE pc # "writing"
    BY <1>13, <2>2 DEF Fail
  <2> QED BY <2>1, <2>2
<1>14. CASE Kill
  BY <1>14 DEF Kill
<1>15. CASE OpenSealed
  BY <1>15 DEF OpenSealed
<1>16. CASE OpenLive
  BY <1>16, RecoveredMends DEF OpenLive, Running
<1>17. CASE UNCHANGED vars
  BY <1>17 DEF vars
<1> QED
  BY <1>1, <1>2, <1>3, <1>4, <1>5, <1>6, <1>7, <1>8, <1>9, <1>10, <1>11, <1>12, <1>13,
     <1>14, <1>15, <1>16, <1>17 DEF Next

(* Every step keeps the variables in their domains.                         *)
LEMMA StepKeepsTypes ==
  ASSUME BuildInv, [Next]_vars
  PROVE  BuildTypeOK'
<1> USE BoundsAssumption DEF BuildInv, BuildTypeOK, OnDisk, Stop
<1>1. CASE Begin
  BY <1>1 DEF Begin
<1>2. CASE Edit
  BY <1>2 DEF Edit
<1>3. CASE Discover
  BY <1>3 DEF Discover
<1>4. CASE Collect
  BY <1>4 DEF Collect
<1>5. CASE Relate
  BY <1>5 DEF Relate
<1>6. CASE MergeAgain
  BY <1>6 DEF MergeAgain
<1>7. CASE OpenIndex
  BY <1>7 DEF OpenIndex, Recovered
<1>8. CASE Validate
  BY <1>8 DEF Validate
<1>9. CASE Write
  <2>1. /\ world' = world /\ attempts' = attempts /\ faults' = faults
        /\ pc' \in {"writing", "failed"}
    BY <1>9 DEF Write
  <2>2. CASE db' = [db EXCEPT !.journal = <<db.rows>>, !.torn = TRUE] /\ pc' = "writing"
    <3>1. db'.schema = db.schema /\ db'.torn = TRUE /\ db'.journal = <<db.rows>>
      BY <2>2 DEF DbOK
    <3>2. <<db.rows>> # <<>>
      OBVIOUS
    <3>3. db'.torn = (db'.journal # <<>>)
      BY <3>1, <3>2
    <3>4. world' \in Worlds \cup Edits /\ attempts' \in 0 .. MaxAttempts /\ faults' \in 0 .. MaxFaults
      BY <2>1
    <3> QED BY <2>2, <3>1, <3>3, <3>4
  <2>3. CASE UNCHANGED db /\ pc' = "failed"
    BY <2>1, <2>3
  <2> QED BY <1>9, <2>2, <2>3 DEF Write
<1>10. CASE Commit
  <2>1. /\ db' = [db EXCEPT !.rows = Tables(Input), !.journal = <<>>, !.torn = FALSE]
        /\ world' = world /\ attempts' = attempts /\ faults' = faults
        /\ pc' \in {"indexed", "done"}
    BY <1>10 DEF Commit
  <2>2. db'.schema = db.schema /\ db'.torn = FALSE /\ db'.journal = <<>>
    BY <2>1 DEF DbOK
  <2> QED BY <2>1, <2>2
<1>11. CASE BuildGraph
  BY <1>11 DEF BuildGraph
<1>12. CASE SaveGraph
  BY <1>12 DEF SaveGraph
<1>13. CASE Fail
  <2>1. /\ pc' = "failed" /\ world' = world /\ attempts' = attempts
        /\ faults' \in 0 .. MaxFaults
    BY <1>13 DEF Fail
  <2>2. CASE pc = "writing"
    <3>1. db' = Recovered(db)
      BY <1>13, <2>2 DEF Fail
    <3>2. db'.schema = TRUE /\ db'.torn = FALSE /\ db'.journal = <<>>
      BY <3>1 DEF Recovered
    <3> QED BY <2>1, <3>2
  <2>3. CASE pc # "writing"
    <3>1. db' = db
      BY <1>13, <2>3 DEF Fail
    <3> QED BY <2>1, <3>1
  <2> QED BY <2>2, <2>3
<1>14. CASE Kill
  BY <1>14 DEF Kill
<1>15. CASE OpenSealed
  BY <1>15 DEF OpenSealed
<1>16. CASE OpenLive
  BY <1>16 DEF OpenLive, Running, Recovered
<1>17. CASE UNCHANGED vars
  BY <1>17 DEF vars
<1> QED
  BY <1>1, <1>2, <1>3, <1>4, <1>5, <1>6, <1>7, <1>8, <1>9, <1>10, <1>11, <1>12, <1>13,
     <1>14, <1>15, <1>16, <1>17 DEF Next

(* The role map stays the one of the rows that stand: no build begins in    *)
(* the directory of a finished refresh, and only a preparation is opened    *)
(* for writing by a reader.                                                 *)
LEMMA StepKeepsRoles ==
  ASSUME BuildInv, [Next]_vars
  PROVE  RolesOK'
<1> USE DEF BuildInv, RolesOK, StoreOK, OnDisk, Stop
<1>1. CASE Begin
  <2>1. graph = None
    BY <1>1 DEF Begin, NoFile
  <2> QED BY <1>1, <2>1 DEF Begin
<1>2. CASE Edit
  BY <1>2 DEF Edit
<1>3. CASE Discover
  BY <1>3 DEF Discover
<1>4. CASE Collect
  BY <1>4 DEF Collect
<1>5. CASE Relate
  BY <1>5 DEF Relate
<1>6. CASE MergeAgain
  BY <1>6 DEF MergeAgain
<1>7. CASE OpenIndex
  BY <1>7 DEF OpenIndex
<1>8. CASE Validate
  BY <1>8 DEF Validate
<1>9. CASE Write
  BY <1>9 DEF Write
<1>10. CASE Commit
  BY <1>10 DEF Commit
<1>11. CASE BuildGraph
  BY <1>11 DEF BuildGraph
<1>12. CASE SaveGraph
  <2>1. /\ pc = "graphed" /\ pc' = "done" /\ world' = world /\ db' = db
        /\ graph' = [of |-> Project(db.rows), roles |-> DomainMap(db.rows, Rules, Project(db.rows))]
    BY <1>12 DEF SaveGraph
  <2>2. graph'.roles = DomainMap(db.rows, Rules, Project(db.rows)) /\ graph'.of = Project(db.rows)
    BY <2>1
  <2>3. graph'.roles = DomainMap(db'.rows, Rules, graph'.of)
    BY <2>1, <2>2
  <2> QED BY <2>1, <2>3
<1>13. CASE Fail
  BY <1>13 DEF Fail, Running
<1>14. CASE Kill
  BY <1>14 DEF Kill, Running
<1>15. CASE OpenSealed
  BY <1>15 DEF OpenSealed
<1>16. CASE OpenLive
  <2>1. world.mode # "refresh"
    BY <1>16 DEF OpenLive
  <2> QED BY <1>16, <2>1 DEF OpenLive, Running
<1>17. CASE UNCHANGED vars
  BY <1>17 DEF vars
<1> QED
  BY <1>1, <1>2, <1>3, <1>4, <1>5, <1>6, <1>7, <1>8, <1>9, <1>10, <1>11, <1>12, <1>13,
     <1>14, <1>15, <1>16, <1>17 DEF Next

(* BuildInv is an inductive invariant of every build.                       *)
THEOREM BuildInductive == Spec => []BuildInv
<1>1. Init => BuildInv
  BY InitBuildInv
<1>2. BuildInv /\ [Next]_vars => BuildInv'
  <2> SUFFICES ASSUME BuildInv, [Next]_vars PROVE BuildInv'
    OBVIOUS
  <2> QED BY StepKeepsTypes, StepKeepsStore, StepKeepsRoles DEF BuildInv
<1> QED BY <1>1, <1>2, PTL DEF Spec

(* A file is torn only while the journal that mends it stands beside it,    *)
(* and every variable keeps to its domain.                                  *)
THEOREM BuildTypesHold == Spec => []BuildTypeOK
<1>1. BuildInv => BuildTypeOK
  BY DEF BuildInv
<1> QED BY <1>1, BuildInductive, PTL

(* A reader that opens the file sees the rows of the last commit, whole.    *)
LEMMA ReaderSeesLastCommit ==
  ASSUME BuildInv, [Next]_vars, shown' # shown
  PROVE  ~shown'.torn /\ shown'.rows = committed
<1>1. OpenSealed \/ OpenLive
  BY DEF Next, vars, Begin, Edit, Discover, Collect, Relate, MergeAgain, OpenIndex, Validate,
         Write, Commit, BuildGraph, SaveGraph, Fail, Kill, OnDisk
<1>2. CASE OpenSealed
  <2>1. db.journal = <<>> /\ shown' = [how |-> "sealed", torn |-> db.torn, rows |-> db.rows]
    BY <1>2 DEF OpenSealed, Sealed
  <2>2. db.torn = FALSE /\ db.rows = committed
    BY <2>1 DEF BuildInv, BuildTypeOK, StoreOK
  <2> QED BY <2>1, <2>2
<1>3. CASE OpenLive
  <2>1. shown' = [how |-> "live", torn |-> FALSE, rows |-> Recovered(db).rows]
    BY <1>3 DEF OpenLive
  <2>2. Recovered(db).rows = committed
    BY RecoveredMends DEF BuildInv
  <2> QED BY <2>1, <2>2
<1> QED BY <1>1, <1>2, <1>3

(* Whoever opens the file between builds, sealed or live, sees exactly the  *)
(* rows of the last transaction that committed.                             *)
THEOREM ReadersSeeLastCommit == Spec => ReadsLastCommit
<1>1. BuildInv /\ [Next]_vars
        => [shown' # shown => ~shown'.torn /\ shown'.rows = committed]_vars
  BY ReaderSeesLastCommit
<1> QED BY <1>1, BuildInductive, PTL DEF Spec, ReadsLastCommit

(* A role has finitely many candidates.                                     *)
LEMMA CandidatesFinite ==
  ASSUME NEW s
  PROVE  IsFiniteSet(Candidates(Rules, s))
<1> DEFINE D == {r \in Rules : r.qname = s.qname /\ \E range \in RangesOf(s) : range.file = r.file}
           f == [r \in D |-> <<r.role, r.component>>]
<1>1. IsFiniteSet(D)
  BY RulesAssumption, FS_Subset
<1>2. f \in Surjection(D, Candidates(Rules, s))
  BY DEF Candidates, Surjection
<1> QED BY <1>1, <1>2, FS_Surjection

(* A recognized symbol has one candidate, and it is one of a rule for the   *)
(* file of its definition, or of its declaration where it has none.         *)
LEMMA RecognizedByRule ==
  ASSUME NEW t, NEW node, Decision(t, Rules, node).status = "recognized"
  PROVE  LET s == Get(t, node.id[2])
         IN \E r \in Rules : /\ r.qname = s.qname /\ r.file = Authority(s).file
                             /\ Candidates(Rules, s) = {<<r.role, r.component>>}
                             /\ Decision(t, Rules, node).candidates = Candidates(Rules, s)
<1> DEFINE s == Get(t, node.id[2])
           Named == {r \in Rules : r.qname = s.qname}
           capable == /\ s # None /\ node.kind = "class"
                      /\ s.kind = "class"
                      /\ Authority(s).file \in {r.file : r \in Named}
           found == IF capable THEN Candidates(Rules, s) ELSE {}
<1>1. Decision(t, Rules, node)
        = [id |-> node.id, candidates |-> found,
           status |-> IF ~capable THEN "unknown"
                      ELSE IF Cardinality(found) = 1 THEN "recognized" ELSE "ambiguous"]
  BY DEF Decision
<1>2. capable /\ Cardinality(found) = 1
  BY <1>1
<1>3. Decision(t, Rules, node).candidates = Candidates(Rules, s) /\ Cardinality(Candidates(Rules, s)) = 1
  BY <1>1, <1>2
<1>4. PICK x : Candidates(Rules, s) = {x}
  BY <1>3, CandidatesFinite, FS_Singleton
<1>5. PICK r \in Rules : r.qname = s.qname /\ r.file = Authority(s).file
  BY <1>2
<1>6. Authority(s) \in RangesOf(s)
  <2>1. RangesOf(s) # {}
    BY <1>4 DEF Candidates
  <2> QED BY <2>1 DEF RangesOf, Authority
<1>7. <<r.role, r.component>> \in Candidates(Rules, s)
  BY <1>5, <1>6 DEF Candidates
<1> QED BY <1>3, <1>4, <1>5, <1>7

(* A recognized role is one that a rule gives to the file of the            *)
(* definition: a forward declaration in another header never decides it.    *)
THEOREM RolesFromDefinitions == Spec => []RoleFromDefinition
<1>1. BuildInv => RoleFromDefinition
  <2> SUFFICES ASSUME BuildInv, graph # None,
                      NEW d \in graph.roles, d.status = "recognized"
               PROVE  LET s     == Get(db.rows, d.id[2])
                          place == IF s.def # None THEN s.def ELSE s.decl
                      IN \E r \in Rules : /\ r.qname = s.qname /\ r.file = place.file
                                          /\ d.candidates = {<<r.role, r.component>>}
    BY DEF RoleFromDefinition
  <2>1. d \in DomainMap(db.rows, Rules, graph.of)
    BY DEF BuildInv, RolesOK
  <2>2. PICK node : d = Decision(db.rows, Rules, node)
    BY <2>1 DEF DomainMap
  <2>3. d.id = node.id
    BY <2>2 DEF Decision
  <2> QED BY <2>2, <2>3, RecognizedByRule DEF Authority
<1> QED BY <1>1, BuildInductive, PTL

---------------------------------------------------------------------------
(* What a merge returns.                                                    *)

(* A set of natural numbers has a least one.                                *)
LEMMA LeastNatural ==
  ASSUME NEW D \in SUBSET Nat, D # {}
  PROVE  \E x \in D : \A y \in D : x <= y
<1> DEFINE Less == {p \in Nat \X Nat : p[1] < p[2]}
<1>1. IsWellFoundedOn(Less, Nat)
  BY NatLessThanWellFounded DEF OpToRel
<1>2. \A x, y \in Nat : <<y, x>> \in Less \/ x <= y
  OBVIOUS
<1> HIDE DEF Less
<1>3. PICK x \in D : \A y \in D : ~(<<y, x>> \in Less)
  BY <1>1, WFMin
<1> QED BY <1>2, <1>3

(* A set of places has a first one: by file, then start, then end.          *)
LEMMA FirstPlace ==
  ASSUME NEW S \in SUBSET Places, S # {}
  PROVE  \E r \in S : \A s \in S : Before(r, s)
<1>1. \A r \in S : r.file \in Nat /\ r.lo \in Nat /\ r.hi \in Nat
  BY DEF Places
<1>2. PICK a \in S : \A s \in S : a.file <= s.file
  <2> DEFINE T == {r.file : r \in S}
  <2>1. T \in SUBSET Nat
    BY <1>1
  <2>2. T # {}
    OBVIOUS
  <2>3. PICK x \in T : \A y \in T : x <= y
    BY <2>1, <2>2, LeastNatural
  <2> QED BY <2>3
<1>3. PICK b \in S : b.file = a.file /\ \A s \in S : s.file = a.file => b.lo <= s.lo
  <2>1. {r.lo : r \in {r \in S : r.file = a.file}} \in SUBSET Nat
    BY <1>1
  <2>2. {r.lo : r \in {r \in S : r.file = a.file}} # {}
    BY <1>2
  <2>3. PICK x \in {r.lo : r \in {r \in S : r.file = a.file}} :
          \A y \in {r.lo : r \in {r \in S : r.file = a.file}} : x <= y
    BY <2>1, <2>2, LeastNatural
  <2> QED BY <2>3
<1>4. PICK c \in S : /\ c.file = a.file /\ c.lo = b.lo
                     /\ \A s \in S : s.file = a.file /\ s.lo = b.lo => c.hi <= s.hi
  <2> DEFINE T == {r.hi : r \in {r \in S : r.file = a.file /\ r.lo = b.lo}}
  <2>1. T \in SUBSET Nat
    BY <1>1
  <2>2. T # {}
    BY <1>3
  <2>3. PICK x \in T : \A y \in T : x <= y
    BY <2>1, <2>2, LeastNatural
  <2> QED BY <2>3
<1>5. ASSUME NEW s \in S PROVE Before(c, s)
  <2>1. a.file <= s.file /\ (s.file = a.file => b.lo <= s.lo)
        /\ (s.file = a.file /\ s.lo = b.lo => c.hi <= s.hi)
    BY <1>2, <1>3, <1>4
  <2> QED BY <1>1, <1>4, <2>1 DEF Before
<1> QED BY <1>5

(* The identities of a set of symbols.                                      *)
LEMMA IdsOfSymbols ==
  ASSUME NEW S
  PROVE  Ids(S) = {s.id : s \in S}
BY DEF Ids, Values

(* The site of a role is one of the known ranges, where there is one.       *)
LEMMA SiteIsKnown ==
  ASSUME NEW facts, Located(facts), NEW role \in {"decl", "def"}
  PROVE  /\ Known(facts, role) = {} => Site(facts, role) = None
         /\ Known(facts, role) # {} => Site(facts, role) \in Known(facts, role)
         /\ Known(facts, role) \subseteq Places /\ None \notin Known(facts, role)
<1>1. Known(facts, role) \subseteq Places /\ None \notin Known(facts, role)
  <2>1. \A o \in facts : o[role] \in RangesOf(o) \cup {None}
    BY DEF RangesOf
  <2> QED BY <2>1 DEF Known, Values, Located
<1>2. CASE Known(facts, role) = {}
  BY <1>1, <1>2 DEF Site
<1>3. CASE Known(facts, role) # {}
  <2>1. \E r \in Known(facts, role) : \A q \in Known(facts, role) : Before(r, q)
    BY <1>1, <1>3, FirstPlace
  <2> QED BY <1>1, <1>3, <2>1 DEF Site
<1> QED BY <1>1, <1>2, <1>3

(* The symbol merged from a group has the identity of the group, and it     *)
(* has a range because each of its observations has one.                    *)
LEMMA MergedIsLocated ==
  ASSUME NEW observations, Located(observations), NEW id \in Ids(observations)
  PROVE  /\ Merge(Group(observations, id)).id = id
         /\ RangesOf(Merge(Group(observations, id))) # {}
         /\ RangesOf(Merge(Group(observations, id))) \subseteq Places
<1> DEFINE facts == Group(observations, id)
           m == Merge(facts)
<1>1. PICK o \in facts : o.id = id
  BY IdsOfSymbols DEF Group
<1>2. (CHOOSE x \in facts : TRUE) \in facts
  BY <1>1
<1>3. m.id = (CHOOSE x \in facts : TRUE).id /\ m.decl = Site(facts, "decl") /\ m.def = Site(facts, "def")
  BY DEF Merge
<1>4. m.id = id
  BY <1>2, <1>3 DEF Group
<1>5. Located(facts)
  BY DEF Group, Located
<1>6. Known(facts, "decl") # {} \/ Known(facts, "def") # {}
  <2>1. o.decl # None \/ o.def # None
    BY <1>1, <1>5 DEF Located, RangesOf
  <2> QED BY <1>1, <2>1 DEF Known, Values
<1>7. Site(facts, "decl") # None \/ Site(facts, "def") # None
  BY <1>5, <1>6, SiteIsKnown
<1>8. {Site(facts, "decl"), Site(facts, "def")} \subseteq Places \cup {None}
  BY <1>5, SiteIsKnown
<1> QED BY <1>3, <1>4, <1>7, <1>8 DEF RangesOf

(* Canonicalization yields one located symbol for each identity.            *)
LEMMA CanonicalIsSound ==
  ASSUME NEW observations, Located(observations)
  PROVE  /\ Located(Canonical(observations)) /\ ~Ambiguous(Canonical(observations))
         /\ Ids(Canonical(observations)) = Ids(observations)
<1>1. \A id \in Ids(observations) :
        /\ Merge(Group(observations, id)).id = id
        /\ RangesOf(Merge(Group(observations, id))) # {}
        /\ RangesOf(Merge(Group(observations, id))) \subseteq Places
  BY MergedIsLocated
<1>2. Located(Canonical(observations))
  BY <1>1 DEF Located, Canonical
<1>3. ~Ambiguous(Canonical(observations))
  BY <1>1 DEF Ambiguous, Canonical
<1>4. {s.id : s \in Canonical(observations)} = Ids(observations)
  BY <1>1 DEF Canonical
<1> QED BY <1>2, <1>3, <1>4, IdsOfSymbols

(* So does what a preparation keeps.                                        *)
LEMMA FirstShownIsSound ==
  ASSUME NEW observations, Located(observations), \A o \in observations : o.site \in Places
  PROVE  /\ Located(FirstShown(observations)) /\ ~Ambiguous(FirstShown(observations))
         /\ Ids(FirstShown(observations)) = Ids(observations)
         /\ \A s \in FirstShown(observations) : \E o \in observations : s = Scalar(o)
<1> DEFINE First(id) == CHOOSE o \in Group(observations, id) :
                          \A p \in Group(observations, id) : Before(o.site, p.site)
<1>1. FirstShown(observations) = {Scalar(First(id)) : id \in Ids(observations)}
  BY DEF FirstShown
<1>2. ASSUME NEW id \in Ids(observations) PROVE First(id) \in Group(observations, id)
  <2> DEFINE sites == {o.site : o \in Group(observations, id)}
  <2>1. Group(observations, id) # {} /\ Group(observations, id) \subseteq observations
    BY IdsOfSymbols DEF Group
  <2>2. sites \in SUBSET Places /\ sites # {}
    BY <2>1
  <2>3. PICK r \in sites : \A q \in sites : Before(r, q)
    BY <2>2, FirstPlace
  <2>4. \E o \in Group(observations, id) : \A p \in Group(observations, id) : Before(o.site, p.site)
    BY <2>3
  <2> QED BY <2>4
<1> HIDE DEF First
<1>3. \A id \in Ids(observations) : First(id) \in observations /\ First(id).id = id
  BY <1>2 DEF Group
<1>4. \A id \in Ids(observations) : /\ Scalar(First(id)).id = id
                                    /\ RangesOf(Scalar(First(id))) = RangesOf(First(id))
  BY <1>3 DEF Scalar, RangesOf
<1>5. Located(FirstShown(observations))
  BY <1>1, <1>3, <1>4 DEF Located
<1>6. ~Ambiguous(FirstShown(observations))
  BY <1>1, <1>4 DEF Ambiguous
<1>7. {s.id : s \in FirstShown(observations)} = Ids(observations)
  BY <1>1, <1>4
<1>8. \A s \in FirstShown(observations) : \E o \in observations : s = Scalar(o)
  BY <1>1, <1>3
<1> QED BY <1>5, <1>6, <1>7, <1>8, IdsOfSymbols

---------------------------------------------------------------------------
(* What a build holds in memory.                                            *)

Ended == {"idle", "started", "discovered", "indexed", "graphed", "done", "failed"}

\* From the collection to the commit a build holds one located symbol for each
\* identity and facts of its symbols alone, and until the second merge every
\* symbol is still among the observations.
WorkOK ==
  /\ world \in Worlds \cup Edits
  /\ work = [observed |-> work.observed, symbols |-> work.symbols, facts |-> work.facts]
  /\ pc \in {"collected", "related"} =>
       Located(work.observed) /\ Ids(work.symbols) \subseteq Ids(work.observed)
  /\ pc \in {"collected", "related", "merged", "opened", "valid", "writing"} =>
       Located(work.symbols) /\ ~Ambiguous(work.symbols)
  /\ pc \in {"related", "merged", "opened", "valid", "writing"} =>
       {f.id : f \in work.facts} \subseteq Ids(work.symbols)

(* The worlds a build meets are located.                                    *)
LEMMA WorldLocated ==
  ASSUME WorkOK
  PROVE  /\ Located(world.observations) /\ Located(world.related)
         /\ \A o \in world.observations : o.site \in Places
BY WorldsAssumption DEF WorkOK

(* So are the endpoints of relations, as evidence and as symbols.           *)
LEMMA EndpointsLocated ==
  ASSUME WorkOK, NEW ids
  PROVE  /\ Located(RelatedTo(ids))
         /\ \A s \in RelatedTo(ids) : /\ RangesOf(Endpoint(s)) = RangesOf(s) /\ Endpoint(s).id = s.id
                                      /\ RangesOf(Scalar(s)) = RangesOf(s) /\ Scalar(s).id = s.id
<1>1. RelatedTo(ids) \subseteq world.related
  BY DEF RelatedTo, CallersOf, CalleesOf, Callers, Callees
<1> QED BY <1>1, WorldLocated DEF Located, RangesOf, Endpoint, Scalar

(* The first merge leaves one located symbol for each identity.             *)
LEMMA CollectKeepsWork ==
  ASSUME WorkOK, Collect
  PROVE  WorkOK'
<1> DEFINE seen == world.observations
<1>1. world' = world /\ Located(seen) /\ \A o \in seen : o.site \in Places
  BY WorldLocated DEF Collect
<1>2. CASE pc' = "collected" /\ work' = [NoWork EXCEPT !.observed = seen, !.symbols = FirstShown(seen)]
  <2>1. work' = [observed |-> seen, symbols |-> FirstShown(seen), facts |-> {}]
    BY <1>2 DEF NoWork
  <2> QED BY <1>1, <1>2, <2>1, FirstShownIsSound DEF WorkOK
<1>3. CASE pc' = "collected" /\ work' = [NoWork EXCEPT !.observed = seen, !.symbols = Canonical(seen)]
  <2>1. work' = [observed |-> seen, symbols |-> Canonical(seen), facts |-> {}]
    BY <1>3 DEF NoWork
  <2> QED BY <1>1, <1>3, <2>1, CanonicalIsSound DEF WorkOK
<1>4. CASE Stop("failed")
  BY <1>1, <1>4 DEF WorkOK, Stop, NoWork
<1> QED BY <1>2, <1>3, <1>4 DEF Collect

(* Relations are recorded of symbols at hand.                               *)
LEMMA RelateKeepsWork ==
  ASSUME WorkOK, Relate
  PROVE  WorkOK'
<1> DEFINE ends == RelatedTo(Targets)
           new  == {s \in ends : s.id \notin Ids(work.symbols)}
<1>1. world' = world /\ pc = "collected"
  BY DEF Relate
<1>2. CASE Stop("failed")
  BY <1>1, <1>2 DEF WorkOK, Stop, NoWork
<1>3. CASE ~Stop("failed")
  <2>1. PICK kept \in SUBSET new :
          /\ Targets \subseteq Ids(work.symbols)
          /\ Ids(kept) = Ids(new) /\ ~Ambiguous(kept)
          /\ work' = [observed |-> work.observed \cup {Endpoint(s) : s \in ends},
                      facts    |-> {FactOf(id) : id \in Targets},
                      symbols  |-> IF world.mode = "refresh" THEN work.symbols
                                   ELSE work.symbols \cup {Scalar(s) : s \in kept}]
          /\ pc' = IF world.mode = "refresh" THEN "related" ELSE "merged"
    BY <1>3 DEF Relate
  <2>2. /\ Located(work.observed) /\ Ids(work.symbols) \subseteq Ids(work.observed)
        /\ Located(work.symbols) /\ ~Ambiguous(work.symbols)
    BY <1>1 DEF WorkOK
  <2>3. /\ Located(ends)
        /\ \A s \in ends : /\ RangesOf(Endpoint(s)) = RangesOf(s) /\ Endpoint(s).id = s.id
                           /\ RangesOf(Scalar(s)) = RangesOf(s) /\ Scalar(s).id = s.id
    BY EndpointsLocated
  <2> HIDE DEF ends
  <2>4. Located(work'.observed)
    BY <2>1, <2>2, <2>3 DEF Located
  <2>5. {s.id : s \in work.symbols} \subseteq {o.id : o \in work'.observed}
    <3>1. {s.id : s \in work.symbols} \subseteq {o.id : o \in work.observed}
      BY <2>2, IdsOfSymbols
    <3> QED BY <2>1, <3>1
  <2>6. {f.id : f \in work'.facts} \subseteq Ids(work.symbols)
    <3>1. \A id \in Targets : FactOf(id).id = id
      BY DEF FactOf
    <3> QED BY <2>1, <3>1
  <2>7. CASE world.mode = "refresh"
    <3>1. /\ work' = [observed |-> work'.observed, symbols |-> work'.symbols, facts |-> work'.facts]
          /\ work'.symbols = work.symbols /\ pc' = "related"
      BY <2>1, <2>7
    <3> QED BY <1>1, <2>2, <2>4, <2>5, <2>6, <3>1, IdsOfSymbols DEF WorkOK
  <2>8. CASE world.mode # "refresh"
    <3>1. /\ work' = [observed |-> work'.observed, symbols |-> work'.symbols, facts |-> work'.facts]
          /\ work'.symbols = work.symbols \cup {Scalar(s) : s \in kept} /\ pc' = "merged"
      BY <2>1, <2>8
    <3>2. Located(work'.symbols)
      BY <2>1, <2>2, <2>3, <3>1 DEF Located
    <3>3. {s.id : s \in work.symbols} \subseteq {s.id : s \in work'.symbols}
      BY <3>1
    <3>4. ~Ambiguous(work'.symbols)
      <4>1. \A s \in kept : s \in ends /\ Scalar(s).id = s.id /\ s.id \notin {x.id : x \in work.symbols}
        BY <2>1, <2>3, IdsOfSymbols
      <4>2. \A a, b \in kept : a.id = b.id => a = b
        BY <2>1 DEF Ambiguous
      <4>3. \A a, b \in work.symbols : a.id = b.id => a = b
        BY <2>2 DEF Ambiguous
      <4> QED BY <3>1, <4>1, <4>2, <4>3 DEF Ambiguous
    <3> QED BY <1>1, <2>6, <3>1, <3>2, <3>3, <3>4, IdsOfSymbols DEF WorkOK
  <2> QED BY <2>7, <2>8
<1> QED BY <1>2, <1>3

(* The second merge keeps every identity the relations are about.           *)
LEMMA MergeKeepsWork ==
  ASSUME WorkOK, MergeAgain
  PROVE  WorkOK'
<1> DEFINE all == AllEvidence
<1>1. world' = world /\ pc = "related"
  BY DEF MergeAgain
<1>2. CASE Stop("failed")
  BY <1>1, <1>2 DEF WorkOK, Stop, NoWork
<1>3. CASE pc' = "merged" /\ work' = [work EXCEPT !.observed = all, !.symbols = Canonical(all)]
  <2>1. /\ Located(work.observed) /\ Ids(work.symbols) \subseteq Ids(work.observed)
        /\ {f.id : f \in work.facts} \subseteq Ids(work.symbols)
    BY <1>1 DEF WorkOK
  <2>2. Located(all)
    BY <2>1, EndpointsLocated DEF AllEvidence, Located
  <2>3. Ids(work.observed) \subseteq Ids(all)
    BY IdsOfSymbols DEF AllEvidence
  <2>4. work' = [observed |-> all, symbols |-> Canonical(all), facts |-> work.facts]
    <3>1. work = [observed |-> work.observed, symbols |-> work.symbols, facts |-> work.facts]
      BY DEF WorkOK
    <3> QED BY <1>3, <3>1
  <2> QED BY <1>1, <1>3, <2>1, <2>2, <2>3, <2>4, CanonicalIsSound DEF WorkOK
<1> QED BY <1>2, <1>3 DEF MergeAgain

(* The other steps drop what the build holds or leave it alone.             *)
LEMMA StepKeepsWork ==
  ASSUME WorkOK, BuildTypeOK', [Next]_vars
  PROVE  WorkOK'
<1>1. CASE Collect
  BY <1>1, CollectKeepsWork
<1>2. CASE Relate
  BY <1>2, RelateKeepsWork
<1>3. CASE MergeAgain
  BY <1>3, MergeKeepsWork
<1>4. CASE ~(Collect \/ Relate \/ MergeAgain)
  <2>1. world' \in Worlds \cup Edits
    BY DEF BuildTypeOK
  <2>2. CASE work' = NoWork /\ pc' \in Ended
    BY <2>1, <2>2 DEF WorkOK, Ended, NoWork
  <2>3. CASE work' = work /\ pc' \in Ended
    BY <2>1, <2>3 DEF WorkOK, Ended
  <2>4. CASE work' = work /\ pc = "merged" /\ pc' = "opened"
    BY <2>1, <2>4 DEF WorkOK
  <2>5. CASE work' = work /\ pc = "opened" /\ pc' = "valid"
    BY <2>1, <2>5 DEF WorkOK
  <2>6. CASE work' = work /\ pc = "valid" /\ pc' = "writing"
    BY <2>1, <2>6 DEF WorkOK
  <2>7. CASE work' = work /\ pc' = pc
    BY <2>1, <2>7 DEF WorkOK
  <2>8. \/ work' = NoWork /\ pc' \in Ended
        \/ work' = work /\ pc' \in Ended
        \/ work' = work /\ pc = "merged" /\ pc' = "opened"
        \/ work' = work /\ pc = "opened" /\ pc' = "valid"
        \/ work' = work /\ pc = "valid" /\ pc' = "writing"
        \/ work' = work /\ pc' = pc
    BY <1>4 DEF Next, vars, Begin, Edit, Discover, OpenIndex, Validate, Write, Commit, BuildGraph,
                SaveGraph, Fail, Kill, OpenSealed, OpenLive, Stop, Ended
  <2> QED BY <2>2, <2>3, <2>4, <2>5, <2>6, <2>7, <2>8
<1> QED BY <1>1, <1>2, <1>3, <1>4

(* In every state of a build, what it holds is fit for the next stage:      *)
(* one located symbol per identity, relations of those symbols alone.       *)
THEOREM WorkInductive == Spec => []WorkOK
<1>1. Init => WorkOK
  BY DEF Init, WorkOK, NoWork
<1>2. WorkOK /\ BuildTypeOK' /\ [Next]_vars => WorkOK'
  BY StepKeepsWork
<1> QED BY <1>1, <1>2, BuildTypesHold, PTL DEF Spec

---------------------------------------------------------------------------
(* What discovery and the tables make of it.                                *)

(* An identity of a fixture or a case names one: it holds the file, the     *)
(* fixture, and the token that stands for it.                               *)
LEMMA FixturesAreDistinct ==
  ASSUME NEW sources
  PROVE  /\ ~Ambiguous(Fixtures(sources)) /\ ~Ambiguous(Cases(sources))
         /\ {f.id : f \in Fixtures(sources)} \cap {c.id : c \in Cases(sources)} = {}
         /\ \A c \in Cases(sources) : c.fixture \in {f.id : f \in Fixtures(sources)}
<1>1. \A f \in Fixtures(sources) : \E file \in DOMAIN sources :
        \E i \in Where(sources[file], "test") : f = FixtureOf(file, sources[file], i)
  BY DEF Fixtures
<1>2. \A c \in Cases(sources) : \E file \in DOMAIN sources :
        \E i \in Where(sources[file], "test") : c = CaseOf(file, sources[file], i)
  BY DEF Cases
<1>3. ASSUME NEW file, NEW source, NEW test
      PROVE  FixtureOf(file, source, test).id[1] = "fixture" /\ CaseOf(file, source, test).id[1] = "case"
  BY DEF FixtureOf, CaseOf
<1>4. ASSUME NEW a \in Fixtures(sources), NEW b \in Fixtures(sources), a.id = b.id
      PROVE  a = b
  <2>1. PICK f \in DOMAIN sources : \E i \in Where(sources[f], "test") : a = FixtureOf(f, sources[f], i)
    BY <1>1
  <2>2. PICK i \in Where(sources[f], "test") : a = FixtureOf(f, sources[f], i)
    BY <2>1
  <2>3. PICK g \in DOMAIN sources : \E j \in Where(sources[g], "test") : b = FixtureOf(g, sources[g], j)
    BY <1>1
  <2>4. PICK j \in Where(sources[g], "test") : b = FixtureOf(g, sources[g], j)
    BY <2>3
  <2> DEFINE ClassesOf(file, name, k) ==
               {m \in Where(sources[file], "class") : sources[file][m].name = name /\ m < k}
             UsesOf(file, name) ==
               {m \in Where(sources[file], "test") :
                  /\ sources[file][m].name = name
                  /\ ~\E l \in Where(sources[file], "class") : sources[file][l].name = name /\ l < m}
             Placed(file, name, k) ==
               [id |-> <<"fixture", file, name, k>>, name |-> name, range |-> At(file, k, 0, 1)]
             Bare(file, name) ==
               [id |-> <<"fixture", file, name>>, name |-> name,
                range |-> At(file, Lowest(UsesOf(file, name)), 0, 1)]
  <2>5. \A file, k : FixtureOf(file, sources[file], k) =
          IF ClassesOf(file, sources[file][k].name, k) # {}
          THEN Placed(file, sources[file][k].name, Highest(ClassesOf(file, sources[file][k].name, k)))
          ELSE Bare(file, sources[file][k].name)
    BY DEF FixtureOf
  <2> HIDE DEF ClassesOf
  <2>6. /\ \E n, k : a = Placed(f, n, k) \/ a = Bare(f, n)
        /\ \E n, k : b = Placed(g, n, k) \/ b = Bare(g, n)
    BY <2>2, <2>4, <2>5
  <2>7. PICK n, k : a = Placed(f, n, k) \/ a = Bare(f, n)
    BY <2>6
  <2>8. PICK m, l : b = Placed(g, m, l) \/ b = Bare(g, m)
    BY <2>6
  <2>9. CASE a = Placed(f, n, k) /\ b = Placed(g, m, l)
    <3>1. f = g /\ n = m /\ k = l
      BY <1>4, <2>9
    <3> QED BY <2>9, <3>1
  <2>10. CASE a = Bare(f, n) /\ b = Bare(g, m)
    <3>1. f = g /\ n = m
      BY <1>4, <2>10
    <3> QED BY <2>10, <3>1
  <2>11. CASE \/ a = Placed(f, n, k) /\ b = Bare(g, m)
              \/ a = Bare(f, n) /\ b = Placed(g, m, l)
    <3>1. Placed(f, n, k).id # Bare(g, m).id /\ Bare(f, n).id # Placed(g, m, l).id
      <4>1. \A w, x, y, z, u, v, o : <<w, x, y, z>> # <<u, v, o>>
        OBVIOUS
      <4> QED BY <4>1
    <3> QED BY <1>4, <2>11, <3>1
  <2> QED BY <2>7, <2>8, <2>9, <2>10, <2>11
<1>5. ASSUME NEW a \in Cases(sources), NEW b \in Cases(sources), a.id = b.id
      PROVE  a = b
  <2>1. PICK f \in DOMAIN sources : \E i \in Where(sources[f], "test") : a = CaseOf(f, sources[f], i)
    BY <1>2
  <2>2. PICK i \in Where(sources[f], "test") : a = CaseOf(f, sources[f], i)
    BY <2>1
  <2>3. PICK g \in DOMAIN sources : \E j \in Where(sources[g], "test") : b = CaseOf(g, sources[g], j)
    BY <1>2
  <2>4. PICK j \in Where(sources[g], "test") : b = CaseOf(g, sources[g], j)
    BY <2>3
  <2>5. f = g /\ i = j
    BY <1>5, <2>2, <2>4 DEF CaseOf
  <2> QED BY <2>2, <2>4, <2>5
<1>6. \A f \in Fixtures(sources), c \in Cases(sources) : f.id # c.id
  BY <1>1, <1>2, <1>3
<1>7. ASSUME NEW c \in Cases(sources)
      PROVE  c.fixture \in {f.id : f \in Fixtures(sources)}
  <2>1. PICK f \in DOMAIN sources : \E i \in Where(sources[f], "test") : c = CaseOf(f, sources[f], i)
    BY <1>2
  <2>2. PICK i \in Where(sources[f], "test") : c = CaseOf(f, sources[f], i)
    BY <2>1
  <2>3. FixtureOf(f, sources[f], i) \in Fixtures(sources)
    BY DEF Fixtures
  <2> QED BY <2>2, <2>3 DEF CaseOf
<1> QED BY <1>4, <1>5, <1>6, <1>7 DEF Ambiguous

\* What the rows of a commit are, beside what the schema demands: the members
\* of a fixture are cases, and a tested symbol has a range.
TablesOK(t) ==
  /\ SchemaHolds(t)
  /\ \A m \in t.members : \E e \in t.entities : e.id = m.case /\ e.kind = "case"
  /\ \A r \in t.tests : \E q \in t.ranges : q.id = r.symbol

(* The clauses of the schema, one by one.                                   *)
LEMMA SchemaClauses ==
  ASSUME NEW t
  PROVE  SchemaHolds(t) <=>
           /\ \A a, b \in t.symbols : a.id = b.id => a = b
           /\ \A a, b \in t.ranges : a.id = b.id /\ a.role = b.role => a = b
           /\ \A a, b \in t.entities : a.id = b.id => a = b
           /\ \A a, b \in t.members : a.case = b.case => a = b
           /\ \A a, b \in t.bodies : a.case = b.case => a = b
           /\ \A r \in t.ranges \cup t.references : \E s \in t.symbols : s.id = r.id
           /\ \A r \in t.relations : \E s \in t.symbols : s.id = r.source
           /\ \A r \in t.tests : \E s \in t.symbols : s.id = r.symbol
           /\ \A m \in t.members : \E e \in t.entities : e.id = m.fixture
           /\ \A m \in t.members : \E e \in t.entities : e.id = m.case
           /\ \A b \in t.bodies : \E e \in t.entities : e.id = b.case
           /\ \A r \in t.tests : \E e \in t.entities : e.id = r.case
           /\ \A r \in t.ranges \cup t.references \cup t.entities \cup t.bodies \cup t.tests :
                r.range.file \in t.files
<1> DEFINE symbols  == {s.id : s \in t.symbols}
           entities == {e.id : e \in t.entities}
           ById(r) == r.id
           ByRole(r) == <<r.id, r.role>>
           ByCase(r) == r.case
<1>1. Key(t.symbols, ById) <=> \A a, b \in t.symbols : a.id = b.id => a = b
  BY DEF Key
<1>2. Key(t.ranges, ByRole) <=> \A a, b \in t.ranges : a.id = b.id /\ a.role = b.role => a = b
  BY DEF Key
<1>3. Key(t.entities, ById) <=> \A a, b \in t.entities : a.id = b.id => a = b
  BY DEF Key
<1>4. Key(t.members, ByCase) <=> \A a, b \in t.members : a.case = b.case => a = b
  BY DEF Key
<1>5. Key(t.bodies, ByCase) <=> \A a, b \in t.bodies : a.case = b.case => a = b
  BY DEF Key
<1>6. {r.id : r \in t.ranges \cup t.references} \subseteq symbols
         <=> \A r \in t.ranges \cup t.references : \E s \in t.symbols : s.id = r.id
  OBVIOUS
<1>10. {r.source : r \in t.relations} \cup {r.symbol : r \in t.tests} \subseteq symbols
         <=> /\ \A r \in t.relations : \E s \in t.symbols : s.id = r.source
             /\ \A r \in t.tests : \E s \in t.symbols : s.id = r.symbol
  OBVIOUS
<1>7. {m.fixture : m \in t.members} \cup {m.case : m \in t.members}
        \cup {b.case : b \in t.bodies} \cup {r.case : r \in t.tests} \subseteq entities
         <=> /\ \A m \in t.members : \E e \in t.entities : e.id = m.fixture
             /\ \A m \in t.members : \E e \in t.entities : e.id = m.case
             /\ \A b \in t.bodies : \E e \in t.entities : e.id = b.case
             /\ \A r \in t.tests : \E e \in t.entities : e.id = r.case
  OBVIOUS
<1>8. {r.range.file : r \in t.ranges \cup t.references \cup t.entities \cup t.bodies \cup t.tests}
        \subseteq t.files
         <=> \A r \in t.ranges \cup t.references \cup t.entities \cup t.bodies \cup t.tests :
                r.range.file \in t.files
  OBVIOUS
<1>9. SchemaHolds(t) <=>
         /\ Key(t.symbols, ById) /\ Key(t.ranges, ByRole) /\ Key(t.entities, ById)
         /\ Key(t.members, ByCase) /\ Key(t.bodies, ByCase)
         /\ {r.id : r \in t.ranges \cup t.references} \subseteq symbols
         /\ {r.source : r \in t.relations} \cup {r.symbol : r \in t.tests} \subseteq symbols
         /\ {m.fixture : m \in t.members} \cup {m.case : m \in t.members}
            \cup {b.case : b \in t.bodies} \cup {r.case : r \in t.tests} \subseteq entities
         /\ {r.range.file : r \in t.ranges \cup t.references \cup t.entities \cup t.bodies \cup t.tests}
            \subseteq t.files
  BY Zenon DEF SchemaHolds
<1> HIDE DEF symbols, entities, ById, ByRole, ByCase
<1> QED BY <1>1, <1>2, <1>3, <1>4, <1>5, <1>6, <1>7, <1>8, <1>9, <1>10, Zenon

\* An input as discovery and canonicalization leave it.
InputOK(input) ==
  /\ Located(input.symbols) /\ ~Ambiguous(input.symbols)
  /\ ~Ambiguous(input.fixtures) /\ ~Ambiguous(input.cases)
  /\ {f.id : f \in input.fixtures} \cap {c.id : c \in input.cases} = {}
  /\ \A c \in input.cases : c.fixture \in {f.id : f \in input.fixtures}
  /\ {f.id : f \in input.facts} \subseteq SymbolIds(input)

(* rebuild refuses no such input.                                           *)
LEMMA InputNotRejected ==
  ASSUME NEW input, InputOK(input)
  PROVE  ~Rejected(input)
BY DEF InputOK, Rejected

(* Neither a key nor a reference of the schema fails on its tables.         *)
LEMMA TablesOfInput ==
  ASSUME NEW input, InputOK(input)
  PROVE  TablesOK(Tables(input))
<1> DEFINE t == Tables(input)
<1>1. /\ t.symbols = {[id |-> s.id, kind |-> s.kind, name |-> s.name, qname |-> s.qname,
                       parent |-> s.parent, ns |-> s.ns] : s \in input.symbols}
      /\ t.ranges = Ranges(input) /\ t.references = References(input)
      /\ t.relations = Relations(input) /\ t.entities = Entities(input)
      /\ t.members = {[fixture |-> c.fixture, case |-> c.id] : c \in input.cases}
      /\ t.bodies = Bodies(input) /\ t.tests = TestReferences(input)
  BY DEF Tables
<1>2. t.files = input.files \cup {r.range.file : r \in Ranges(input)}
                  \cup {r.range.file : r \in References(input)}
                  \cup {e.range.file : e \in Entities(input)}
                  \cup {b.range.file : b \in Bodies(input)}
  BY DEF Tables
<1> HIDE DEF t
<1>3. ASSUME NEW s \in input.symbols PROVE \E r \in t.symbols : r.id = s.id
  <2> DEFINE row == [id |-> s.id, kind |-> s.kind, name |-> s.name, qname |-> s.qname,
                     parent |-> s.parent, ns |-> s.ns]
  <2>1. row \in t.symbols
    BY <1>1
  <2> QED BY <2>1
<1>4. \A r \in t.symbols : \E s \in input.symbols :
        r = [id |-> s.id, kind |-> s.kind, name |-> s.name, qname |-> s.qname,
             parent |-> s.parent, ns |-> s.ns]
  BY <1>1
<1>5. \A r \in t.ranges : \E s \in input.symbols :
        r = Row(s.id, "declaration", s.decl) \/ r = Row(s.id, "definition", s.def)
  BY <1>1 DEF Ranges
<1>6. \A r \in t.references : \E f \in input.facts : r.id = f.id
  BY <1>1 DEF References
<1>7. \A r \in t.relations : \E f \in input.facts : r.source = f.id
  BY <1>1 DEF Relations
<1>8. \A f \in input.facts : \E s \in input.symbols : s.id = f.id
  BY DEF InputOK, SymbolIds
<1>9. \A e \in t.entities :
        \/ \E f \in input.fixtures :
             e = [id |-> f.id, kind |-> "fixture", name |-> f.name, range |-> f.range]
        \/ \E c \in input.cases :
             e = [id |-> c.id, kind |-> "case", name |-> c.name, range |-> c.range]
  BY <1>1 DEF Entities
<1>10. /\ \A f \in input.fixtures : \E e \in t.entities : e.id = f.id
       /\ \A c \in input.cases : \E e \in t.entities : e.id = c.id /\ e.kind = "case"
  <2>1. ASSUME NEW f \in input.fixtures PROVE \E e \in t.entities : e.id = f.id
    <3>1. [id |-> f.id, kind |-> "fixture", name |-> f.name, range |-> f.range] \in t.entities
      BY <1>1 DEF Entities
    <3> QED BY <3>1
  <2>2. ASSUME NEW c \in input.cases PROVE \E e \in t.entities : e.id = c.id /\ e.kind = "case"
    <3>1. [id |-> c.id, kind |-> "case", name |-> c.name, range |-> c.range] \in t.entities
      BY <1>1 DEF Entities
    <3> QED BY <3>1
  <2> QED BY <2>1, <2>2
<1>11. \A b \in t.bodies : \E c \in input.cases : b = [case |-> c.id, range |-> c.body]
  BY <1>1 DEF Bodies
<1>12. \A r \in t.tests : /\ \E b \in t.bodies : r.case = b.case
                          /\ \E q \in t.references : r.symbol = q.id /\ r.range = q.range
  BY <1>1 DEF TestReferences
<1>13. \A m \in t.members : \E c \in input.cases : m = [fixture |-> c.fixture, case |-> c.id]
  BY <1>1
<1>14. SchemaHolds(t)
  <2>1. \A a, b \in t.symbols : a.id = b.id => a = b
    BY <1>4 DEF InputOK, Ambiguous
  <2>2. \A a, b \in t.ranges : a.id = b.id /\ a.role = b.role => a = b
    BY <1>5 DEF InputOK, Ambiguous, Row
  <2>3. \A a, b \in t.entities : a.id = b.id => a = b
    BY <1>9 DEF InputOK, Ambiguous
  <2>4. \A a, b \in t.members : a.case = b.case => a = b
    BY <1>13 DEF InputOK, Ambiguous
  <2>5. \A a, b \in t.bodies : a.case = b.case => a = b
    BY <1>11 DEF InputOK, Ambiguous
  <2>6. \A r \in t.ranges \cup t.references : \E s \in t.symbols : s.id = r.id
    BY <1>3, <1>5, <1>6, <1>8 DEF Row
  <2>7. \A r \in t.relations : \E s \in t.symbols : s.id = r.source
    BY <1>3, <1>7, <1>8
  <2>8. \A r \in t.tests : \E s \in t.symbols : s.id = r.symbol
    BY <1>12, <2>6
  <2>9. \A m \in t.members : \E e \in t.entities : e.id = m.fixture
    BY <1>10, <1>13 DEF InputOK
  <2>10. \A m \in t.members : \E e \in t.entities : e.id = m.case
    BY <1>10, <1>13
  <2>11. \A b \in t.bodies : \E e \in t.entities : e.id = b.case
    BY <1>10, <1>11
  <2>12. \A r \in t.tests : \E e \in t.entities : e.id = r.case
    BY <1>12, <2>11
  <2>13. \A r \in t.ranges \cup t.references \cup t.entities \cup t.bodies : r.range.file \in t.files
    BY <1>1, <1>2
  <2>14. \A r \in t.tests : r.range.file \in t.files
    BY <1>12, <2>13
  <2> QED
    BY <2>1, <2>2, <2>3, <2>4, <2>5, <2>6, <2>7, <2>8, <2>9, <2>10, <2>11, <2>12, <2>13, <2>14,
       SchemaClauses
<1>15. \A m \in t.members : \E e \in t.entities : e.id = m.case /\ e.kind = "case"
  BY <1>10, <1>13
<1>16. ASSUME NEW r \in t.tests PROVE \E q \in t.ranges : q.id = r.symbol
  <2>1. PICK s \in input.symbols : s.id = r.symbol
    BY <1>6, <1>8, <1>12
  <2>2. RangesOf(s) # {}
    BY DEF InputOK, Located
  <2>3. s.decl # None \/ s.def # None
    BY <2>2 DEF RangesOf
  <2>4. CASE s.decl # None
    <3>1. Row(s.id, "declaration", s.decl) \in t.ranges
      BY <1>1, <2>4 DEF Ranges, Row
    <3> QED BY <2>1, <3>1 DEF Row
  <2>5. CASE s.def # None
    <3>1. Row(s.id, "definition", s.def) \in t.ranges
      BY <1>1, <2>5 DEF Ranges, Row
    <3> QED BY <2>1, <3>1 DEF Row
  <2> QED BY <2>3, <2>4, <2>5
<1> QED BY <1>14, <1>15, <1>16 DEF t, TablesOK

---------------------------------------------------------------------------
(* What the rows answer and what is projected from them.                    *)

(* A projected symbol is a row joined with its ranges, one of which there   *)
(* is.                                                                      *)
LEMMA ProjectedSymbols ==
  ASSUME NEW t, TablesOK(t)
  PROVE  \A s : s \in Projected(t) <=>
           \E row \in t.symbols : s = SymbolFrom(t, row) /\ \E r \in t.ranges : r.id = row.id
<1>1. \A r \in t.ranges : r.range.file \in t.files
  BY SchemaClauses DEF TablesOK
<1> QED BY <1>1 DEF Projected, SymbolsInFile, Symbols, SymbolRowsInFile

(* A symbol read back has the fields of its row and the ranges stored for   *)
(* it.                                                                      *)
LEMMA SymbolFromKeeps ==
  ASSUME NEW t, NEW row
  PROVE  LET s == SymbolFrom(t, row)
         IN /\ s.id = row.id /\ s.kind = row.kind /\ s.name = row.name /\ s.qname = row.qname
            /\ s.parent = row.parent /\ s.ns = row.ns
            /\ s.decl # None => \E r \in t.ranges : /\ r.id = row.id /\ r.role = "declaration"
                                                    /\ r.range = s.decl
            /\ s.def # None => \E r \in t.ranges : /\ r.id = row.id /\ r.role = "definition"
                                                   /\ r.range = s.def
<1> DEFINE Held(role) == {r.range : r \in {r \in RangeRows(t, row.id) : r.role = role}}
<1>1. SymbolFrom(t, row) =
        [id |-> row.id, kind |-> row.kind, name |-> row.name, qname |-> row.qname,
         decl |-> OneOf(Held("declaration")), def |-> OneOf(Held("definition")),
         parent |-> row.parent, ns |-> row.ns]
  BY DEF SymbolFrom
<1>2. ASSUME NEW role, OneOf(Held(role)) # None
      PROVE  \E r \in t.ranges : r.id = row.id /\ r.role = role /\ r.range = OneOf(Held(role))
  <2>1. OneOf(Held(role)) \in Held(role)
    BY <1>2 DEF OneOf
  <2> QED BY <2>1 DEF RangeRows
<1> HIDE DEF Held
<1> QED BY <1>1, <1>2

(* The row of an identity is found by it.                                   *)
LEMMA RowIsFound ==
  ASSUME NEW t, TablesOK(t), NEW row \in t.symbols
  PROVE  Indexed(t, row.id) /\ SymbolRow(t, row.id) = row /\ Get(t, row.id) = SymbolFrom(t, row)
<1>1. {s \in t.symbols : s.id = row.id} = {row}
  BY SchemaClauses DEF TablesOK
<1>2. SymbolRow(t, row.id) = row
  BY <1>1 DEF SymbolRow, OneOf
<1>3. Indexed(t, row.id)
  BY DEF Indexed
<1> QED BY <1>2, <1>3 DEF Get

(* One symbol is projected for an identity, and it is the one the index     *)
(* gives.                                                                   *)
LEMMA ProjectedIsGot ==
  ASSUME NEW t, TablesOK(t), NEW s \in Projected(t)
  PROVE  /\ Indexed(t, s.id) /\ Get(t, s.id) = s
         /\ \A range \in RangesOf(s) : range.file \in t.files
<1>1. PICK row \in t.symbols : s = SymbolFrom(t, row)
  BY ProjectedSymbols
<1>2. s.id = row.id
  BY <1>1, SymbolFromKeeps
<1>3. \A range \in RangesOf(s) : \E r \in t.ranges : r.range = range
  BY <1>1, SymbolFromKeeps DEF RangesOf
<1>4. \A r \in t.ranges : r.range.file \in t.files
  BY SchemaClauses DEF TablesOK
<1> QED BY <1>1, <1>2, <1>3, <1>4, RowIsFound

(* A fixture is an entity of its kind.                                      *)
LEMMA FixtureRow ==
  ASSUME NEW t, NEW f \in TestFixtures(t)
  PROVE  \E e \in t.entities : e.kind = "fixture" /\ e.id = f.id /\ f = FixtureFrom(e)
BY DEF TestFixtures, FixtureRows, FixtureFrom

Joined(t, e, m) ==
  [id |-> e.id, name |-> e.name, range |-> e.range, fixture |-> m.fixture,
   body |-> OneOf({b.range : b \in {b \in t.bodies : b.case = e.id}})]

(* The cases a query returns are the joins of the stored cases.             *)
LEMMA JoinedRows ==
  ASSUME NEW t, NEW entities
  PROVE  CaseRows(t, entities) =
           UNION {{Joined(t, e, m) : m \in {m \in t.members : m.case = e.id}} : e \in entities}
BY DEF CaseRows, Joined

(* A case of a fixture is an entity joined with its membership.             *)
LEMMA CaseOfFixtureRow ==
  ASSUME NEW t, NEW fixture, NEW c \in TestCasesForFixture(t, fixture)
  PROVE  \E e \in t.entities : \E m \in t.members :
           m.case = e.id /\ c.id = e.id /\ c = Joined(t, e, m)
<1> DEFINE entities == {e \in t.entities : \E m \in t.members : m.fixture = fixture /\ m.case = e.id}
<1>1. c \in CaseRows(t, entities)
  BY DEF TestCasesForFixture, CaseRowsOfFixture
<1>2. PICK e \in entities : c \in {Joined(t, e, m) : m \in {m \in t.members : m.case = e.id}}
  BY <1>1, JoinedRows
<1>3. PICK m \in t.members : m.case = e.id /\ c = Joined(t, e, m)
  BY <1>2
<1>4. c.id = e.id
  BY <1>3 DEF Joined
<1> QED BY <1>3, <1>4

(* Fixtures and cases have identities of their own.                         *)
LEMMA EntitiesAreDistinct ==
  ASSUME NEW t, TablesOK(t)
  PROVE  /\ \A f, g \in TestFixtures(t) : f.id = g.id => f = g
         /\ \A f, g : \A c \in TestCasesForFixture(t, f), d \in TestCasesForFixture(t, g) :
              c.id = d.id => c = d
         /\ \A f \in TestFixtures(t) : \A g : \A c \in TestCasesForFixture(t, g) : f.id # c.id
<1>1. /\ \A a, b \in t.entities : a.id = b.id => a = b
      /\ \A a, b \in t.members : a.case = b.case => a = b
      /\ \A m \in t.members : \E e \in t.entities : e.id = m.case /\ e.kind = "case"
  BY SchemaClauses DEF TablesOK
<1>2. \A f, g \in TestFixtures(t) : f.id = g.id => f = g
  BY <1>1, FixtureRow
<1>3. ASSUME NEW f, NEW g, NEW c \in TestCasesForFixture(t, f), NEW d \in TestCasesForFixture(t, g),
             c.id = d.id
      PROVE  c = d
  <2>1. PICK e \in t.entities : \E m \in t.members :
           m.case = e.id /\ c.id = e.id /\ c = Joined(t, e, m)
    BY CaseOfFixtureRow
  <2>2. PICK m \in t.members : m.case = e.id /\ c.id = e.id /\ c = Joined(t, e, m)
    BY <2>1
  <2>3. PICK h \in t.entities : \E n \in t.members :
           n.case = h.id /\ d.id = h.id /\ d = Joined(t, h, n)
    BY CaseOfFixtureRow
  <2>4. PICK n \in t.members : n.case = h.id /\ d.id = h.id /\ d = Joined(t, h, n)
    BY <2>3
  <2>5. e = h /\ m = n
    <3>1. e.id = h.id
      BY <1>3, <2>2, <2>4
    <3> QED BY <1>1, <2>2, <2>4, <3>1
  <2> QED BY <2>2, <2>4, <2>5
<1>4. ASSUME NEW f \in TestFixtures(t), NEW g, NEW c \in TestCasesForFixture(t, g)
      PROVE  f.id # c.id
  <2>1. PICK e \in t.entities : e.kind = "fixture" /\ e.id = f.id
    BY FixtureRow
  <2>2. PICK m \in t.members : m.case = c.id
    BY CaseOfFixtureRow
  <2>3. PICK h \in t.entities : h.id = c.id /\ h.kind = "case"
    BY <1>1, <2>2
  <2> QED BY <1>1, <2>1, <2>3
<1> QED BY <1>2, <1>3, <1>4

Semantic(t) == FileNodes(t) \cup SymbolNodes(t)
Tests(t)    == TestNodes(t, Semantic(t))
Placed(t)   == {n \in Semantic(t) : \A m \in Tests(t) : m.id # n.id} \cup Tests(t)

(* The projection makes nodes of files, symbols, tests and the missing      *)
(* ends of edges.                                                           *)
LEMMA NodesByPart ==
  ASSUME NEW t
  PROVE  ProjectedNodes(t) = Placed(t) \cup EndpointNodes(t, Placed(t))
BY Zenon DEF ProjectedNodes, Placed, Tests, Semantic

(* Identities of nodes: files apart from symbols, each by its own name.     *)
LEMMA NodeIdentities ==
  /\ \A f : FileNode(f)[1] = "file" /\ FileNode(f)[2] = f
  /\ \A f : SymbolNode(f)[1] = "symbol" /\ SymbolNode(f)[2] = f
BY DEF FileNode, SymbolNode

(* A node has the fields it is made with.                                   *)
LEMMA NodeFields ==
  ASSUME NEW id, NEW kind, NEW name, NEW anchors
  PROVE  /\ Node(id, kind, name, anchors).id = id /\ Node(id, kind, name, anchors).kind = kind
         /\ Node(id, kind, name, anchors).name = name
         /\ Node(id, kind, name, anchors).anchors = anchors
BY DEF Node

(* The nodes of files,                                                      *)
LEMMA FileNodesAre ==
  ASSUME NEW t, NEW n \in FileNodes(t)
  PROVE  \E f \in t.files : n.id = FileNode(f) /\ n.kind = "file"
                            /\ n = Node(FileNode(f), "file", "path", {[symbol |-> None, file |-> f, range |-> None]})
BY NodeFields DEF FileNodes

NodeOf(s) == Node(SymbolNode(s.id), NodeKind(s.kind), s.name, {Anchor(s.id, r) : r \in RangesOf(s)})

(* those of symbols,                                                        *)
LEMMA SymbolNodesAre ==
  ASSUME NEW t, NEW n \in SymbolNodes(t)
  PROVE  \E s \in Projected(t) : n.id = SymbolNode(s.id) /\ n = NodeOf(s)
<1>1. SymbolNodes(t) = {NodeOf(s) : s \in Projected(t)}
  BY DEF SymbolNodes, NodeOf
<1>2. \A s : NodeOf(s).id = SymbolNode(s.id)
  BY NodeFields DEF NodeOf
<1> QED BY <1>1, <1>2

Earlier(others, id)     == UNION {n.anchors : n \in {n \in others : n.id = SymbolNode(id)}}
FixtureNode(others, f) ==
  Node(SymbolNode(f.id), "test_fixture", f.name, {Anchor(f.id, f.range)} \cup Earlier(others, f.id))
CaseNode(others, c) ==
  Node(SymbolNode(c.id), "test_case", c.name,
       {Anchor(c.id, r) : r \in {c.range, c.body} \ {None}} \cup Earlier(others, c.id))

(* those of tests, fixtures and cases apart,                                *)
LEMMA TestNodesByKind ==
  ASSUME NEW t, NEW others
  PROVE  TestNodes(t, others) =
           {FixtureNode(others, f) : f \in TestFixtures(t)}
           \cup UNION {{CaseNode(others, c) : c \in TestCasesForFixture(t, f.id)} : f \in TestFixtures(t)}
BY Zenon DEF TestNodes, FixtureNode, CaseNode, Earlier

(* and what each of those is.                                               *)
LEMMA TestNodesAre ==
  ASSUME NEW t, NEW others, NEW n \in TestNodes(t, others)
  PROVE  /\ n.kind \in {"test_fixture", "test_case"}
         /\ \/ \E f \in TestFixtures(t) : n.id = SymbolNode(f.id) /\ n = FixtureNode(others, f)
            \/ \E f \in TestFixtures(t) : \E c \in TestCasesForFixture(t, f.id) :
                 n.id = SymbolNode(c.id) /\ n = CaseNode(others, c)
<1>1. \A f : FixtureNode(others, f).id = SymbolNode(f.id) /\ FixtureNode(others, f).kind = "test_fixture"
  BY NodeFields DEF FixtureNode
<1>2. \A c : CaseNode(others, c).id = SymbolNode(c.id) /\ CaseNode(others, c).kind = "test_case"
  BY NodeFields DEF CaseNode
<1> QED BY <1>1, <1>2, TestNodesByKind

(* Every fixture has its node,                                              *)
LEMMA FixtureNodeFrom ==
  ASSUME NEW t, NEW others, NEW f \in TestFixtures(t)
  PROVE  /\ FixtureNode(others, f) \in TestNodes(t, others)
         /\ FixtureNode(others, f).id = SymbolNode(f.id)
<1>1. FixtureNode(others, f).id = SymbolNode(f.id)
  BY NodeFields DEF FixtureNode
<1>2. FixtureNode(others, f) \in TestNodes(t, others)
  BY TestNodesByKind
<1> QED BY <1>1, <1>2

(* and so has every case.                                                   *)
LEMMA CaseNodeFrom ==
  ASSUME NEW t, NEW others, NEW f \in TestFixtures(t), NEW c \in TestCasesForFixture(t, f.id)
  PROVE  /\ CaseNode(others, c) \in TestNodes(t, others)
         /\ CaseNode(others, c).id = SymbolNode(c.id)
<1>1. CaseNode(others, c).id = SymbolNode(c.id)
  BY NodeFields DEF CaseNode
<1>2. CaseNode(others, c) \in {CaseNode(others, d) : d \in TestCasesForFixture(t, f.id)}
  OBVIOUS
<1> QED BY <1>1, <1>2, TestNodesByKind

(* No two nodes of a snapshot share an identity.                            *)
LEMMA NodesAreDistinct ==
  ASSUME NEW t, TablesOK(t), NEW n \in ProjectedNodes(t), NEW m \in ProjectedNodes(t), n.id = m.id
  PROVE  n = m
<1>1. ASSUME NEW a \in FileNodes(t), NEW b \in FileNodes(t), a.id = b.id PROVE a = b
  <2>1. PICK f \in t.files : a.id = FileNode(f) /\ a = Node(FileNode(f), "file", "path", {[symbol |-> None, file |-> f, range |-> None]})
    BY FileNodesAre
  <2>2. PICK g \in t.files : b.id = FileNode(g) /\ b = Node(FileNode(g), "file", "path", {[symbol |-> None, file |-> g, range |-> None]})
    BY FileNodesAre
  <2>3. FileNode(f) = FileNode(g)
    BY <1>1, <2>1, <2>2
  <2>4. f = g
    BY <2>3 DEF FileNode
  <2> QED BY <2>1, <2>2, <2>4
<1>2. ASSUME NEW a \in SymbolNodes(t), NEW b \in SymbolNodes(t), a.id = b.id PROVE a = b
  <2>1. PICK r \in Projected(t) : a.id = SymbolNode(r.id) /\ a = NodeOf(r)
    BY SymbolNodesAre
  <2>2. PICK s \in Projected(t) : b.id = SymbolNode(s.id) /\ b = NodeOf(s)
    BY SymbolNodesAre
  <2>3. SymbolNode(r.id) = SymbolNode(s.id)
    BY <1>2, <2>1, <2>2
  <2>4. r.id = s.id
    BY <2>3 DEF SymbolNode
  <2>5. r = s
    BY <2>4, ProjectedIsGot
  <2> QED BY <2>1, <2>2, <2>5
<1>3. \A a \in FileNodes(t) : \E f : a.id = FileNode(f)
  BY FileNodesAre
<1>4. \A a \in SymbolNodes(t) \cup Tests(t) : \E x : a.id = SymbolNode(x)
  BY SymbolNodesAre, TestNodesAre DEF Tests
<1>5. ASSUME NEW a \in Semantic(t), NEW b \in Semantic(t), a.id = b.id PROVE a = b
  BY <1>1, <1>2, <1>3, <1>4, <1>5, NodeIdentities DEF Semantic
<1>6. ASSUME NEW a \in Tests(t), NEW b \in Tests(t), a.id = b.id PROVE a = b
  <2> DEFINE S == Semantic(t)
             IsFixture(x, f) == f \in TestFixtures(t) /\ x.id = SymbolNode(f.id) /\ x = FixtureNode(S, f)
             IsCase(x, f, c) == /\ c \in TestCasesForFixture(t, f.id)
                                /\ x.id = SymbolNode(c.id) /\ x = CaseNode(S, c)
  <2>1. \A x \in Tests(t) : (\E f : IsFixture(x, f)) \/ (\E f, c : IsCase(x, f, c))
    BY TestNodesAre DEF Tests
  <2>2. ASSUME NEW f, NEW g, IsFixture(a, f), IsFixture(b, g) PROVE a = b
    <3>1. SymbolNode(f.id) = SymbolNode(g.id)
      BY <1>6, <2>2
    <3>2. f.id = g.id
      BY <3>1 DEF SymbolNode
    <3>3. f = g
      BY <2>2, <3>2, EntitiesAreDistinct
    <3> QED BY <2>2, <3>3
  <2>3. ASSUME NEW f, NEW c, NEW g, NEW d, IsCase(a, f, c), IsCase(b, g, d) PROVE a = b
    <3>1. SymbolNode(c.id) = SymbolNode(d.id)
      BY <1>6, <2>3
    <3>2. c.id = d.id
      BY <3>1 DEF SymbolNode
    <3>3. c = d
      BY <2>3, <3>2, EntitiesAreDistinct
    <3> QED BY <2>3, <3>3
  <2>4. ASSUME NEW x, NEW y, NEW f, NEW g, NEW c, x.id = y.id, IsFixture(x, f), IsCase(y, g, c)
        PROVE  FALSE
    <3>1. SymbolNode(f.id) = SymbolNode(c.id)
      BY <2>4
    <3>2. f.id = c.id
      BY <3>1 DEF SymbolNode
    <3> QED BY <2>4, <3>2, EntitiesAreDistinct
  <2> HIDE DEF IsFixture, IsCase
  <2> QED BY <1>6, <2>1, <2>2, <2>3, <2>4
<1>7. ASSUME NEW a \in Placed(t), NEW b \in Placed(t), a.id = b.id PROVE a = b
  BY <1>5, <1>6, <1>7 DEF Placed
<1>8. \A a \in EndpointNodes(t, Placed(t)) :
        \E x : /\ a = Node(SymbolNode(x), "symbol", x, {Anchor(x, None)}) /\ a.id = SymbolNode(x)
               /\ \A b \in Placed(t) : b.id # SymbolNode(x)
  BY NodeFields DEF EndpointNodes
<1>9. ASSUME NEW a \in EndpointNodes(t, Placed(t)), NEW b \in EndpointNodes(t, Placed(t)), a.id = b.id
      PROVE  a = b
  <2>1. PICK x : a = Node(SymbolNode(x), "symbol", x, {Anchor(x, None)}) /\ a.id = SymbolNode(x)
    BY <1>8
  <2>2. PICK y : b = Node(SymbolNode(y), "symbol", y, {Anchor(y, None)}) /\ b.id = SymbolNode(y)
    BY <1>8
  <2>3. SymbolNode(x) = SymbolNode(y)
    BY <1>9, <2>1, <2>2
  <2>4. x = y
    BY <2>3 DEF SymbolNode
  <2> QED BY <2>1, <2>2, <2>4
<1>10. \A a \in EndpointNodes(t, Placed(t)) : \A b \in Placed(t) : a.id # b.id
  BY <1>8
<1> QED BY <1>7, <1>9, <1>10, NodesByPart

(* Every file, projected symbol, test entity and end of a call has a node.  *)
LEMMA NodesCover ==
  ASSUME NEW t, TablesOK(t)
  PROVE  LET Has(id) == \E n \in ProjectedNodes(t) : n.id = id
         IN /\ \A f \in t.files : Has(FileNode(f))
            /\ \A s \in Projected(t) : Has(SymbolNode(s.id))
            /\ \A f \in TestFixtures(t) :
                 /\ Has(SymbolNode(f.id))
                 /\ \A c \in TestCasesForFixture(t, f.id) : Has(SymbolNode(c.id))
            /\ \A c \in AllCalls(t) : Has(SymbolNode(c[1])) /\ Has(SymbolNode(c[2]))
<1> DEFINE Has(id) == \E n \in ProjectedNodes(t) : n.id = id
<1>1. \A n \in Placed(t) : Has(n.id)
  BY NodesByPart
<1>2. \A n \in Tests(t) : Has(n.id)
  BY <1>1 DEF Placed
<1>3. ASSUME NEW n \in Semantic(t) PROVE Has(n.id)
  <2>1. n \in Placed(t) \/ \E m \in Tests(t) : m.id = n.id
    BY DEF Placed
  <2> QED BY <1>1, <1>2, <2>1
<1> HIDE DEF Has
<1>4. ASSUME NEW f \in t.files PROVE Has(FileNode(f))
  <2> DEFINE n == Node(FileNode(f), "file", "path", {[symbol |-> None, file |-> f, range |-> None]})
  <2>1. n \in Semantic(t)
    BY DEF Semantic, FileNodes
  <2>2. n.id = FileNode(f)
    BY NodeFields
  <2> QED BY <1>3, <2>1, <2>2
<1>5. ASSUME NEW s \in Projected(t) PROVE Has(SymbolNode(s.id))
  <2>1. NodeOf(s) \in Semantic(t)
    BY DEF Semantic, SymbolNodes, NodeOf
  <2>2. NodeOf(s).id = SymbolNode(s.id)
    BY NodeFields DEF NodeOf
  <2> QED BY <1>3, <2>1, <2>2
<1>6. ASSUME NEW f \in TestFixtures(t)
      PROVE  Has(SymbolNode(f.id)) /\ \A c \in TestCasesForFixture(t, f.id) : Has(SymbolNode(c.id))
  <2>1. PICK S : S = Semantic(t) /\ Tests(t) = TestNodes(t, S)
    BY DEF Tests
  <2>2. Has(SymbolNode(f.id))
    <3>1. FixtureNode(S, f) \in TestNodes(t, S) /\ FixtureNode(S, f).id = SymbolNode(f.id)
      BY FixtureNodeFrom
    <3>2. Has(FixtureNode(S, f).id)
      BY <1>2, <2>1, <3>1
    <3> QED BY <3>1, <3>2
  <2>3. ASSUME NEW c \in TestCasesForFixture(t, f.id) PROVE Has(SymbolNode(c.id))
    <3>1. CaseNode(S, c) \in TestNodes(t, S) /\ CaseNode(S, c).id = SymbolNode(c.id)
      BY CaseNodeFrom
    <3>2. Has(CaseNode(S, c).id)
      BY <1>2, <2>1, <3>1
    <3> QED BY <3>1, <3>2
  <2> QED BY <2>2, <2>3
<1>7. ASSUME NEW c \in AllCalls(t), NEW x \in {c[1], c[2]} PROVE Has(SymbolNode(x))
  <2>1. CASE \E n \in Placed(t) : n.id = SymbolNode(x)
    BY <1>1, <2>1
  <2>2. CASE \A n \in Placed(t) : n.id # SymbolNode(x)
    <3> DEFINE n == Node(SymbolNode(x), "symbol", x, {Anchor(x, None)})
    <3>1. x \in UNION {{d[1], d[2]} : d \in AllCalls(t)}
      OBVIOUS
    <3>2. n \in EndpointNodes(t, Placed(t))
      BY <2>2, <3>1 DEF EndpointNodes
    <3>3. n \in ProjectedNodes(t) /\ n.id = SymbolNode(x)
      BY <3>2, NodesByPart, NodeFields
    <3> QED BY <3>3 DEF Has
  <2> QED BY <2>1, <2>2
<1> QED BY <1>4, <1>5, <1>6, <1>7 DEF Has

(* An edge joins the ends it is named by.                                   *)
LEMMA EdgeEnds ==
  ASSUME NEW source, NEW target, NEW relation, NEW fact, NEW anchor
  PROVE  /\ Edge(source, target, relation, fact, anchor).id[1] = source
         /\ Edge(source, target, relation, fact, anchor).id[2] = target
BY DEF Edge

(* No edge of a snapshot ends at nothing.                                   *)
LEMMA NoEdgeDangles ==
  ASSUME NEW t, TablesOK(t), NEW e \in ProjectedEdges(t)
  PROVE  {e.id[1], e.id[2]} \subseteq {n.id : n \in ProjectedNodes(t)}
<1> DEFINE Has(id) == \E n \in ProjectedNodes(t) : n.id = id
<1>1. /\ \A f \in t.files : Has(FileNode(f))
      /\ \A s \in Projected(t) : Has(SymbolNode(s.id))
      /\ \A f \in TestFixtures(t) :
           /\ Has(SymbolNode(f.id))
           /\ \A c \in TestCasesForFixture(t, f.id) : Has(SymbolNode(c.id))
      /\ \A c \in AllCalls(t) : Has(SymbolNode(c[1])) /\ Has(SymbolNode(c[2]))
  BY NodesCover
<1> SUFFICES Has(e.id[1]) /\ Has(e.id[2])
  OBVIOUS
<1> HIDE DEF Has
<1>2. ASSUME NEW role \in {"decl", "def"}, NEW relation, e \in Ranged(t, role, relation)
      PROVE  Has(e.id[1]) /\ Has(e.id[2])
  <2>1. PICK s \in Projected(t) :
          /\ s[role] # None
          /\ e = Edge(FileNode(s[role].file), SymbolNode(s.id), relation, "range", Anchor(s.id, s[role]))
    BY <1>2 DEF Ranged
  <2>2. s[role] \in RangesOf(s)
    BY <2>1 DEF RangesOf
  <2>3. s[role].file \in t.files
    BY <2>2, ProjectedIsGot
  <2> QED BY <1>1, <2>1, <2>3, EdgeEnds
<1>3. CASE e \in DeclareEdges(t)
  BY <1>2, <1>3 DEF DeclareEdges
<1>4. CASE e \in ReferenceEdges(t)
  <2>1. PICK s \in Projected(t) :
          e \in {Edge(FileNode(r.file), SymbolNode(s.id), "reference", "references", Anchor(s.id, r)) :
                   r \in SemanticFacts(t, s.id).references}
    BY <1>4 DEF ReferenceEdges
  <2>2. PICK r \in SemanticFacts(t, s.id).references :
          e = Edge(FileNode(r.file), SymbolNode(s.id), "reference", "references", Anchor(s.id, r))
    BY <2>1
  <2>3. SemanticFacts(t, s.id).references = {q.range : q \in ReferenceRows(t, s.id)}
    BY ProjectedIsGot DEF SemanticFacts
  <2>4. r.file \in t.files
    BY <2>2, <2>3, SchemaClauses DEF ReferenceRows, TablesOK
  <2> QED BY <1>1, <2>2, <2>4, EdgeEnds
<1>5. CASE e \in CallEdges(t)
  <2>1. PICK c \in AllCalls(t) :
          e = Edge(SymbolNode(c[1]), SymbolNode(c[2]), "call", c[3], Anchor(c[1], Provenance(t, c[1])))
    BY <1>5 DEF CallEdges
  <2> QED BY <1>1, <2>1, EdgeEnds
<1>6. CASE e \in TestEdges(t)
  <2> DEFINE Member(f, c) == Edge(SymbolNode(f.id), SymbolNode(c.id), "test", "member", Anchor(c.id, c.range))
             Tested(m, r) == Edge(SymbolNode(m.case), SymbolNode(m.symbol), "test", "reference",
                                  Anchor(m.symbol, r))
  <2>1. TestEdges(t) =
          UNION {UNION {{Member(f, c)} \cup UNION {{Tested(m, r) : r \in m.references} :
                                                     m \in TestedSymbolMappingsForCase(t, c.id)} :
                          c \in TestCasesForFixture(t, f.id)} : f \in TestFixtures(t)}
    BY Zenon DEF TestEdges
  <2> HIDE DEF Member, Tested
  <2>2. PICK f \in TestFixtures(t) :
          \E c \in TestCasesForFixture(t, f.id) :
            e \in {Member(f, c)} \cup UNION {{Tested(m, r) : r \in m.references} :
                                               m \in TestedSymbolMappingsForCase(t, c.id)}
    BY <1>6, <2>1
  <2>3. PICK c \in TestCasesForFixture(t, f.id) :
            e \in {Member(f, c)} \cup UNION {{Tested(m, r) : r \in m.references} :
                                               m \in TestedSymbolMappingsForCase(t, c.id)}
    BY <2>2
  <2>4. CASE e = Member(f, c)
    BY <1>1, <2>4, EdgeEnds DEF Member
  <2>5. CASE e # Member(f, c)
    <3>1. PICK m \in TestedSymbolMappingsForCase(t, c.id) : \E r \in m.references : e = Tested(m, r)
      BY <2>3, <2>5
    <3>2. PICK r \in m.references : e = Tested(m, r)
      BY <3>1
    <3>3. PICK s \in DirectlyReferencedSymbols(t, c.id) : m = TestedSymbolMapping(t, c.id, s.id)
      BY DEF TestedSymbolMappingsForCase
    <3>4. m.case = c.id /\ m.symbol = s.id
      BY <3>3 DEF TestedSymbolMapping
    <3>5. s \in Projected(t)
      <4>1. PICK row \in t.symbols : s = SymbolFrom(t, row) /\ \E q \in t.tests : q.symbol = row.id
        BY DEF DirectlyReferencedSymbols, Symbols, SymbolRowsOfCase
      <4>2. \E q \in t.ranges : q.id = row.id
        BY <4>1 DEF TablesOK
      <4> QED BY <4>1, <4>2, ProjectedSymbols
    <3> QED BY <1>1, <3>2, <3>4, <3>5, EdgeEnds DEF Tested
  <2> QED BY <2>4, <2>5
<1> QED BY <1>3, <1>4, <1>5, <1>6 DEF ProjectedEdges

(* The node of a class shows what the index holds of it.                    *)
LEMMA NoClassMismatch ==
  ASSUME NEW t, TablesOK(t), NEW n \in ProjectedNodes(t), n.id[1] = "symbol"
  PROVE  ~Mismatch(t, n)
<1> SUFFICES ASSUME n.kind = "class" PROVE ~Mismatch(t, n)
  BY DEF Mismatch
<1>1. n \notin Tests(t)
  BY TestNodesAre DEF Tests
<1>2. n \notin EndpointNodes(t, Placed(t))
  <2>1. \A x : Node(SymbolNode(x), "symbol", x, {Anchor(x, None)}).kind = "symbol"
    BY NodeFields
  <2> QED BY <2>1 DEF EndpointNodes
<1>3. n \notin FileNodes(t)
  BY FileNodesAre
<1>4. n \in SymbolNodes(t)
  BY <1>1, <1>2, <1>3, NodesByPart DEF Placed, Semantic
<1>5. PICK s \in Projected(t) : n.id = SymbolNode(s.id) /\ n = NodeOf(s)
  BY <1>4, SymbolNodesAre
<1>6. Get(t, n.id[2]) = s
  BY <1>5, ProjectedIsGot, NodeIdentities
<1>7. n.name = s.name /\ n.anchors = {Anchor(s.id, r) : r \in RangesOf(s)}
  BY <1>5, NodeFields DEF NodeOf
<1> QED BY <1>6, <1>7 DEF Mismatch

(* MemoryGraph and the role mapper take whatever is projected.              *)
LEMMA GraphIsBuildable ==
  ASSUME NEW t, TablesOK(t)
  PROVE  /\ ~Unbuildable(ProjectedNodes(t), ProjectedEdges(t))
         /\ ~\E n \in ProjectedNodes(t) : n.id[1] = "symbol" /\ Mismatch(t, n)
<1>1. \A e \in ProjectedEdges(t) : {e.id[1], e.id[2]} \ {n.id : n \in ProjectedNodes(t)} = {}
  BY NoEdgeDangles
<1>2. \A n, m \in ProjectedNodes(t) : n.id = m.id => n = m
  BY NodesAreDistinct
<1>3. ~Unbuildable(ProjectedNodes(t), ProjectedEdges(t))
  BY <1>1, <1>2 DEF Unbuildable
<1> QED BY <1>3, NoClassMismatch

---------------------------------------------------------------------------
(* The pipeline.                                                            *)

\* What goes on to the graph is what was offered to the index.
CommittedOK == pc = "indexed" => InputOK(Input) /\ db.rows = Tables(Input)

(* What a build offers the index is what discovery and the merges leave.    *)
LEMMA BuildInputIsSound ==
  ASSUME WorkOK, pc \in {"merged", "opened", "valid", "writing"}
  PROVE  InputOK(Input)
<1>1. /\ Input.symbols = work.symbols /\ Input.facts = work.facts
      /\ Input.fixtures = Fixtures(world.sources) /\ Input.cases = Cases(world.sources)
  BY DEF Input
<1>2. SymbolIds(Input) = Ids(work.symbols)
  BY <1>1, IdsOfSymbols DEF SymbolIds
<1> QED BY <1>1, <1>2, FixturesAreDistinct DEF WorkOK, InputOK

(* Only a commit hands rows on, and those it made.                          *)
LEMMA StepKeepsCommitted ==
  ASSUME WorkOK, CommittedOK, DbOK, [Next]_vars
  PROVE  CommittedOK'
<1>1. CASE Commit
  <2>1. PICK input : input = Input
    OBVIOUS
  <2>2. db' = [db EXCEPT !.rows = Tables(input), !.journal = <<>>, !.torn = FALSE]
    BY <1>1, <2>1 DEF Commit
  <2>3. db'.rows = Tables(input)
    BY <2>2 DEF DbOK
  <2>4. InputOK(input)
    BY <1>1, <2>1, BuildInputIsSound DEF Commit
  <2>5. pc' = "indexed" => Input' = input
    BY <1>1, <2>1 DEF Commit, Stop, Input
  <2> QED BY <2>3, <2>4, <2>5 DEF CommittedOK
<1>2. CASE ~Commit
  <2>1. pc' = "indexed" => pc = "indexed" /\ db' = db /\ work' = work /\ world' = world
    BY <1>2 DEF Next, vars, Begin, Edit, Discover, Collect, Relate, MergeAgain, OpenIndex, Validate,
           Write, BuildGraph, SaveGraph, Fail, Kill, OpenSealed, OpenLive, OnDisk, Stop, Running
  <2> QED BY <2>1 DEF CommittedOK, Input
<1> QED BY <1>1, <1>2

(* A build that goes on to the graph finds in the file exactly the tables   *)
(* of the input it offered.                                                 *)
THEOREM CommittedInductive == Spec => []CommittedOK
<1>1. Init => CommittedOK
  BY DEF Init, CommittedOK
<1>2. WorkOK /\ CommittedOK /\ BuildInv /\ [Next]_vars => CommittedOK'
  BY StepKeepsCommitted DEF BuildInv
<1> QED BY <1>1, <1>2, BuildInductive, WorkInductive, PTL DEF Spec

(* What discovery, canonicalization and the relations produce is never      *)
(* refused further down: not by rebuild, not by a key of the schema in the  *)
(* middle of the transaction, not by the graph or the role mapper.          *)
THEOREM PipelineAlwaysAccepts == Spec => []PipelineAccepts
<1>1. WorkOK /\ CommittedOK => PipelineAccepts
  <2> SUFFICES ASSUME WorkOK, CommittedOK PROVE PipelineAccepts
    OBVIOUS
  <2>1. ASSUME pc \in {"opened", "valid"}
        PROVE  ~Rejected(Input) /\ SchemaHolds(Tables(Input))
    BY <2>1, BuildInputIsSound, InputNotRejected, TablesOfInput DEF TablesOK
  <2>2. ASSUME pc = "indexed"
        PROVE  LET nodes == ProjectedNodes(db.rows) IN
                 /\ ~Unbuildable(nodes, ProjectedEdges(db.rows))
                 /\ ~\E n \in nodes : n.id[1] = "symbol" /\ Mismatch(db.rows, n)
    BY <2>2, TablesOfInput, GraphIsBuildable DEF CommittedOK
  <2> QED BY <2>1, <2>2 DEF PipelineAccepts
<1> QED BY <1>1, CommittedInductive, WorkInductive, PTL

---------------------------------------------------------------------------
(* What a build keeps from the collection to the graph.                     *)

Holding == {"collected", "related", "merged", "opened", "valid", "writing", "indexed"}

\* The symbols are scalar views, a fact says what clangd says of its symbol,
\* and until the second merge a refresh holds the canonical symbols of the
\* collection.
MemoryOK ==
  /\ pc \in Holding => /\ \A s \in work.symbols : s = Scalar(s)
                       /\ \A f \in work.facts : f = FactOf(f.id)
  /\ pc = "related" => world.mode = "refresh"
  /\ pc \in {"collected", "related"} /\ world.mode = "refresh" =>
       /\ work.symbols = Canonical(world.observations) /\ ~Conflicting(world.observations)
       /\ world.observations \subseteq work.observed

(* A merged symbol is its scalar view: the merge has nothing further to     *)
(* add to it.                                                               *)
LEMMA MergeIsScalar ==
  ASSUME NEW observations, NEW s \in Canonical(observations)
  PROVE  s = Scalar(s)
<1>1. PICK id : s = Merge(Group(observations, id))
  BY DEF Canonical
<1>2. PICK i, k, n, q, d, e, p, m :
        s = [id |-> i, kind |-> k, name |-> n, qname |-> q, decl |-> d, def |-> e, parent |-> p, ns |-> m]
  BY <1>1 DEF Merge
<1> QED BY <1>2 DEF Scalar

(* Taking the scalar view twice is taking it once.                          *)
LEMMA ScalarIsScalar ==
  ASSUME NEW o
  PROVE  Scalar(o) = Scalar(Scalar(o))
BY DEF Scalar

(* A fact depends on the inputs of the build alone.                         *)
LEMMA FactsOfWorld == ASSUME UNCHANGED world, NEW id PROVE FactOf(id)' = FactOf(id)
BY DEF FactOf, Asked, ReferencesTo, CalleesOf, CallersOf, Callees, Callers

(* Only the collection, the relations and the second merge change what is   *)
(* held, and each keeps it.                                                 *)
LEMMA StepKeepsMemory ==
  ASSUME WorkOK, MemoryOK, [Next]_vars
  PROVE  MemoryOK'
<1>1. CASE Collect
  <2>1. world' = world /\ (pc' = "collected" \/ pc' = "failed")
    BY <1>1 DEF Collect, Stop
  <2>2. CASE world.mode = "refresh" /\ pc' = "collected"
    <3>1. ~Conflicting(world.observations)
      BY <1>1, <2>2 DEF Collect, Stop
    <3>2. work' = [observed |-> world.observations, symbols |-> Canonical(world.observations), facts |-> {}]
      <4>1. PICK seen, held : seen = world.observations /\ held = Canonical(seen)
        OBVIOUS
      <4>2. work' = [NoWork EXCEPT !.observed = seen, !.symbols = held]
        BY <1>1, <2>2, <4>1 DEF Collect, Stop
      <4>3. work' = [observed |-> seen, symbols |-> held, facts |-> {}]
        BY <4>2 DEF NoWork
      <4> QED BY <4>1, <4>3
    <3> QED BY <2>1, <2>2, <3>1, <3>2, MergeIsScalar DEF MemoryOK
  <2>3. CASE world.mode # "refresh" /\ pc' = "collected"
    <3>1. /\ work'.facts = {}
          /\ work'.symbols = FirstShown(world.observations) \/ work'.symbols = Canonical(world.observations)
      BY <1>1, <2>3 DEF Collect, Stop, NoWork
    <3>2. \A s \in FirstShown(world.observations) : s = Scalar(s)
      BY ScalarIsScalar DEF FirstShown
    <3> QED BY <2>1, <2>3, <3>1, <3>2, MergeIsScalar DEF MemoryOK
  <2>4. CASE pc' = "failed"
    BY <2>4 DEF MemoryOK, Holding
  <2> QED BY <2>1, <2>2, <2>3, <2>4
<1>2. CASE Relate
  <2>1. world' = world /\ pc = "collected"
    BY <1>2 DEF Relate
  <2>2. CASE pc' = "failed"
    BY <2>2 DEF MemoryOK, Holding
  <2>3. CASE pc' # "failed"
    <3>1. PICK kept :
            /\ work' = [observed |-> work.observed \cup {Endpoint(s) : s \in RelatedTo(Targets)},
                        facts    |-> {FactOf(id) : id \in Targets},
                        symbols  |-> IF world.mode = "refresh" THEN work.symbols
                                     ELSE work.symbols \cup {Scalar(s) : s \in kept}]
            /\ pc' = IF world.mode = "refresh" THEN "related" ELSE "merged"
      BY <1>2, <2>3 DEF Relate, Stop
    <3>2. \A f \in work'.facts : f = FactOf(f.id)
      <4>1. \A id : FactOf(id).id = id
        BY DEF FactOf
      <4> QED BY <3>1, <4>1
    <3>3. \A f \in work'.facts : f = (FactOf(f.id))'
      BY <2>1, <3>2, FactsOfWorld
    <3>4. \A s \in work.symbols : s = Scalar(s)
      BY <2>1 DEF MemoryOK, Holding
    <3>5. CASE world.mode = "refresh"
      <4>1. /\ work'.symbols = work.symbols /\ work.observed \subseteq work'.observed /\ pc' = "related"
        BY <3>1, <3>5
      <4>2. /\ work.symbols = Canonical(world.observations) /\ ~Conflicting(world.observations)
            /\ world.observations \subseteq work.observed
        BY <2>1, <3>5 DEF MemoryOK
      <4> QED BY <2>1, <3>3, <3>4, <3>5, <4>1, <4>2 DEF MemoryOK
    <3>6. CASE world.mode # "refresh"
      <4>1. work'.symbols = work.symbols \cup {Scalar(s) : s \in kept} /\ pc' = "merged"
        BY <3>1, <3>6
      <4> QED BY <2>1, <3>3, <3>4, <3>6, <4>1, ScalarIsScalar DEF MemoryOK
    <3> QED BY <3>5, <3>6
  <2> QED BY <2>2, <2>3
<1>3. CASE MergeAgain
  <2>1. world' = world /\ pc = "related"
    BY <1>3 DEF MergeAgain
  <2>2. CASE pc' = "failed"
    BY <2>2 DEF MemoryOK, Holding
  <2>3. CASE pc' # "failed"
    <3>1. work' = [work EXCEPT !.observed = AllEvidence, !.symbols = Canonical(AllEvidence)] /\ pc' = "merged"
      BY <1>3, <2>3 DEF MergeAgain, Stop
    <3>2. work'.symbols = Canonical(AllEvidence) /\ work'.facts = work.facts
      <4>1. work = [observed |-> work.observed, symbols |-> work.symbols, facts |-> work.facts]
        BY DEF WorkOK
      <4> QED BY <3>1, <4>1
    <3>3. \A f \in work'.facts : f = (FactOf(f.id))'
      BY <2>1, <3>2, FactsOfWorld DEF MemoryOK, Holding
    <3>4. \A s \in work'.symbols : s = Scalar(s)
      BY <3>2, MergeIsScalar
    <3> QED BY <2>1, <3>1, <3>3, <3>4 DEF MemoryOK
  <2> QED BY <2>2, <2>3
<1>4. CASE ~(Collect \/ Relate \/ MergeAgain)
  <2>1. \/ pc' \notin Holding
        \/ /\ work' = work /\ world' = world /\ pc \in Holding
           /\ pc' \in {"collected", "related"} => pc' = pc
    BY <1>4 DEF Next, vars, Begin, Edit, Discover, OpenIndex, Validate, Write, Commit, BuildGraph,
                SaveGraph, Fail, Kill, OpenSealed, OpenLive, Stop, Running, Holding
  <2>2. CASE pc' \notin Holding
    BY <2>2 DEF MemoryOK, Holding
  <2>3. CASE /\ work' = work /\ world' = world /\ pc \in Holding
             /\ pc' \in {"collected", "related"} => pc' = pc
    <3>1. \A f \in work'.facts : f = (FactOf(f.id))'
      BY <2>3, FactsOfWorld DEF MemoryOK
    <3> QED BY <2>3, <3>1 DEF MemoryOK
  <2> QED BY <2>1, <2>2, <2>3
<1> QED BY <1>1, <1>2, <1>3, <1>4

(* In every state of a refresh, what it holds of the first merge is the     *)
(* canonical view of all that was observed.                                 *)
THEOREM MemoryInductive == Spec => []MemoryOK
<1>1. Init => MemoryOK
  BY DEF Init, MemoryOK, Holding
<1>2. WorkOK /\ MemoryOK /\ [Next]_vars => MemoryOK'
  BY StepKeepsMemory
<1> QED BY <1>1, <1>2, WorkInductive, PTL DEF Spec

---------------------------------------------------------------------------
(* What more evidence does to a merged symbol.                              *)

(* A larger group of which both are mergeable keeps kind and qualified      *)
(* name, keeps a known range of what is not a namespace, and changes the    *)
(* parent only where a declaration site in a class or struct says so.       *)
LEMMA MergeRefines ==
  ASSUME NEW few, NEW more, few \subseteq more, few # {}, Located(more), Mergeable(more)
  PROVE  LET s == Merge(few)
             t == Merge(more)
         IN /\ t.kind = s.kind /\ t.qname = s.qname
            /\ s.kind # "namespace" => s.decl \in {None, t.decl} /\ s.def \in {None, t.def}
            /\ \/ s.parent \in {None, t.parent}
               \/ \E o \in more : o.parent = t.parent /\ o.pkind \in {"class", "struct"}
<1> DEFINE s == Merge(few)
           t == Merge(more)
           first == CHOOSE o \in few : TRUE
           other == CHOOSE o \in more : TRUE
           OwnerOf(facts, some) ==
             IF Agreed(facts) THEN <<some.name, OneOf(Known(facts, "parent"))>>
             ELSE OneOf(Presentations(DeclarationSites(facts)))
<1>1. first \in few /\ first \in more /\ other \in more
  OBVIOUS
<1>2. /\ s.kind = first.kind /\ s.qname = first.qname
      /\ s.decl = Site(few, "decl") /\ s.def = Site(few, "def") /\ s.parent = OwnerOf(few, first)[2]
  BY DEF Merge
<1>3. /\ t.kind = other.kind /\ t.qname = other.qname
      /\ t.decl = Site(more, "decl") /\ t.def = Site(more, "def") /\ t.parent = OwnerOf(more, other)[2]
  BY DEF Merge
<1> HIDE DEF s, t, first, other
<1>4. t.kind = s.kind /\ t.qname = s.qname
  <2>1. AtMostOne(Values(more, "kind")) /\ AtMostOne(Values(more, "qname"))
    BY DEF Mergeable
  <2>2. other.kind = first.kind /\ other.qname = first.qname
    BY <1>1, <2>1 DEF AtMostOne, Values
  <2> QED BY <1>2, <1>3, <2>2
<1>5. ASSUME s.kind # "namespace"
      PROVE  s.decl \in {None, t.decl} /\ s.def \in {None, t.def}
  <2>1. Kind(more) # "namespace"
    <3>1. Kind(more) \in Values(more, "kind")
      BY <1>1 DEF Kind, OneOf, Values
    <3>2. s.kind \in Values(more, "kind")
      BY <1>1, <1>2 DEF Values
    <3>3. AtMostOne(Values(more, "kind"))
      BY DEF Mergeable
    <3> QED BY <1>5, <3>1, <3>2, <3>3 DEF AtMostOne
  <2>2. Located(few)
    BY DEF Located
  <2>3. ASSUME NEW role \in {"decl", "def"} PROVE Site(few, role) \in {None, Site(more, role)}
    <3>1. AtMostOne(Known(more, role))
      BY <2>1 DEF Mergeable
    <3>2. Known(few, role) \subseteq Known(more, role)
      BY DEF Known, Values
    <3>3. CASE Known(few, role) = {}
      BY <2>2, <3>3, SiteIsKnown
    <3>4. CASE Known(few, role) # {}
      <4>1. Site(few, role) \in Known(more, role)
        BY <2>2, <3>2, <3>4, SiteIsKnown
      <4>2. Site(more, role) \in Known(more, role)
        BY <3>2, <3>4, SiteIsKnown
      <4> QED BY <3>1, <4>1, <4>2 DEF AtMostOne
    <3> QED BY <3>3, <3>4
  <2> QED BY <1>2, <1>3, <2>3
<1>6. CASE Agreed(more)
  <2>1. AtMostOne(Values(more, "name")) /\ AtMostOne(Known(more, "parent"))
    BY <1>6 DEF Agreed
  <2>2. Values(few, "name") \subseteq Values(more, "name") /\ Known(few, "parent") \subseteq Known(more, "parent")
    BY DEF Values, Known
  <2>3. Agreed(few)
    BY <2>1, <2>2 DEF Agreed, AtMostOne
  <2>4. s.parent = OneOf(Known(few, "parent")) /\ t.parent = OneOf(Known(more, "parent"))
    BY <1>2, <1>3, <1>6, <2>3
  <2>5. s.parent \in {None, t.parent}
    BY <2>1, <2>2, <2>4 DEF OneOf, AtMostOne
  <2> QED BY <1>4, <1>5, <2>5 DEF s, t
<1>7. CASE ~Agreed(more)
  <2> DEFINE sites == DeclarationSites(more)
  <2>1. sites # {} /\ \A o \in sites : o.pkind \in {"class", "struct"}
    BY <1>7 DEF Mergeable, Proven
  <2>2. OneOf(Presentations(sites)) \in Presentations(sites)
    BY <2>1 DEF OneOf, Presentations
  <2>3. PICK o \in sites : OneOf(Presentations(sites)) = <<o.name, o.parent>>
    BY <2>2 DEF Presentations
  <2>4. t.parent = o.parent
    BY <1>3, <1>7, <2>3
  <2>5. o \in more
    BY DEF DeclarationSites
  <2> QED BY <1>4, <1>5, <2>1, <2>4, <2>5 DEF s, t
<1> QED BY <1>6, <1>7

(* The evidence that relations add never takes back what the first merge    *)
(* knew.                                                                    *)
THEOREM EvidenceRefines == Spec => EvidenceOnlyRefines
<1> DEFINE Refines ==
      pc = "related" /\ pc' = "merged" =>
        \A s \in work.symbols : \E t \in work'.symbols :
          /\ t.id = s.id /\ t.kind = s.kind /\ t.qname = s.qname
          /\ s.kind # "namespace" => s.decl \in {None, t.decl} /\ s.def \in {None, t.def}
          /\ \/ s.parent \in {None, t.parent}
             \/ \E o \in work'.observed : /\ o.id = s.id /\ o.parent = t.parent
                                          /\ o.pkind \in {"class", "struct"}
<1>1. WorkOK /\ MemoryOK /\ [Next]_vars => [Refines]_vars
  <2> SUFFICES ASSUME WorkOK, MemoryOK, [Next]_vars, pc = "related", pc' = "merged",
                      NEW s \in work.symbols
               PROVE  \E t \in work'.symbols :
                        /\ t.id = s.id /\ t.kind = s.kind /\ t.qname = s.qname
                        /\ s.kind # "namespace" => s.decl \in {None, t.decl} /\ s.def \in {None, t.def}
                        /\ \/ s.parent \in {None, t.parent}
                           \/ \E o \in work'.observed : /\ o.id = s.id /\ o.parent = t.parent
                                                        /\ o.pkind \in {"class", "struct"}
    OBVIOUS
  <2>1. MergeAgain
    BY DEF Next, vars, Begin, Edit, Discover, Collect, Relate, OpenIndex, Validate, Write, Commit,
           BuildGraph, SaveGraph, Fail, Kill, OpenSealed, OpenLive, Stop, Running
  <2>2. PICK all : all = AllEvidence /\ ~Conflicting(all)
    BY <2>1 DEF MergeAgain, Stop
  <2>3. work'.observed = all /\ work'.symbols = Canonical(all)
    <3>1. work' = [work EXCEPT !.observed = all, !.symbols = Canonical(all)]
      BY <2>1, <2>2 DEF MergeAgain, Stop
    <3>2. work = [observed |-> work.observed, symbols |-> work.symbols, facts |-> work.facts]
      BY DEF WorkOK
    <3> QED BY <3>1, <3>2
  <2>4. PICK seen : /\ seen = world.observations /\ work.symbols = Canonical(seen)
                    /\ seen \subseteq all
    BY <2>2 DEF MemoryOK, AllEvidence
  <2>5. Located(all)
    BY <2>2, EndpointsLocated DEF WorkOK, AllEvidence, Located
  <2>6. Located(seen)
    BY <2>4, <2>5 DEF Located
  <2>7. PICK id \in Ids(seen) : s = Merge(Group(seen, id))
    BY <2>4 DEF Canonical
  <2>8. id \in Ids(all)
    BY <2>4, IdsOfSymbols
  <2> DEFINE t == Merge(Group(all, id))
  <2>9. t \in work'.symbols
    BY <2>3, <2>8 DEF Canonical
  <2>10. s.id = id /\ t.id = id
    BY <2>5, <2>6, <2>7, <2>8, MergedIsLocated
  <2>11. /\ Group(seen, id) \subseteq Group(all, id) /\ Group(seen, id) # {}
         /\ Located(Group(all, id)) /\ Mergeable(Group(all, id))
    BY <2>2, <2>4, <2>5, <2>8, <2>7, IdsOfSymbols DEF Group, Located, Conflicting
  <2> HIDE DEF t
  <2>12. /\ t.kind = s.kind /\ t.qname = s.qname
         /\ s.kind # "namespace" => s.decl \in {None, t.decl} /\ s.def \in {None, t.def}
         /\ \/ s.parent \in {None, t.parent}
            \/ \E o \in Group(all, id) : o.parent = t.parent /\ o.pkind \in {"class", "struct"}
    BY <2>7, <2>11, MergeRefines DEF t
  <2>13. \A o \in Group(all, id) : o \in all /\ o.id = id
    BY DEF Group
  <2> QED BY <2>3, <2>9, <2>10, <2>12, <2>13
<1> QED BY <1>1, WorkInductive, MemoryInductive, PTL DEF Spec, EvidenceOnlyRefines

---------------------------------------------------------------------------
(* What the rows of an input answer.                                        *)

RowOf(s) == [id |-> s.id, kind |-> s.kind, name |-> s.name, qname |-> s.qname,
             parent |-> s.parent, ns |-> s.ns]

(* The tables of an input, one by one.                                      *)
LEMMA RowsOfInput ==
  ASSUME NEW input
  PROVE  /\ Tables(input).symbols = {RowOf(s) : s \in input.symbols}
         /\ Tables(input).ranges = Ranges(input) /\ Tables(input).references = References(input)
         /\ Tables(input).relations = Relations(input) /\ Tables(input).entities = Entities(input)
         /\ Tables(input).members = {[fixture |-> c.fixture, case |-> c.id] : c \in input.cases}
         /\ Tables(input).bodies = Bodies(input) /\ Tables(input).tests = TestReferences(input)
BY DEF Tables, RowOf

(* The one member of a singleton.                                           *)
LEMMA OneOfSingle == ASSUME NEW x PROVE OneOf({x}) = x
BY DEF OneOf

(* A symbol comes back as it was, under its identity, its names and its     *)
(* files.                                                                   *)
LEMMA SymbolAnswers ==
  ASSUME NEW input, InputOK(input), NEW s \in input.symbols, s = Scalar(s)
  PROVE  LET t == Tables(input)
         IN /\ RowOf(s) \in t.symbols /\ SymbolFrom(t, RowOf(s)) = s
            /\ Indexed(t, s.id) /\ Get(t, s.id) = s
            /\ s \in FindByName(t, s.name) /\ s \in FindByQualifiedName(t, s.qname)
            /\ \A r \in RangesOf(s) : s \in SymbolsInFile(t, r.file)
<1> DEFINE t == Tables(input)
           row == RowOf(s)
           Held(role) == {r.range : r \in {r \in RangeRows(t, row.id) : r.role = role}}
<1>1. row \in t.symbols
  BY RowsOfInput
<1>2. row.id = s.id /\ row.kind = s.kind /\ row.name = s.name /\ row.qname = s.qname
      /\ row.parent = s.parent /\ row.ns = s.ns
  BY DEF RowOf
<1>3. \A q \in input.symbols : q.id = s.id => q = s
  BY DEF InputOK, Ambiguous
<1>4. t.ranges = Ranges(input)
  BY RowsOfInput
<1>5. TablesOK(t)
  BY TablesOfInput
<1> HIDE DEF t, row
<1>6. Held("declaration") = {s.decl} \ {None}
  <2>1. \A r \in t.ranges : r.id = s.id /\ r.role = "declaration" => r.range = s.decl /\ r.range # None
    BY <1>3, <1>4 DEF Ranges, Row
  <2>2. s.decl # None => Row(s.id, "declaration", s.decl) \in t.ranges
    BY <1>4 DEF Ranges, Row
  <2>3. /\ Row(s.id, "declaration", s.decl).id = s.id /\ Row(s.id, "declaration", s.decl).range = s.decl
        /\ Row(s.id, "declaration", s.decl).role = "declaration"
    BY DEF Row
  <2> QED BY <1>2, <2>1, <2>2, <2>3 DEF RangeRows
<1>7. Held("definition") = {s.def} \ {None}
  <2>1. \A r \in t.ranges : r.id = s.id /\ r.role = "definition" => r.range = s.def /\ r.range # None
    BY <1>3, <1>4 DEF Ranges, Row
  <2>2. s.def # None => Row(s.id, "definition", s.def) \in t.ranges
    BY <1>4 DEF Ranges, Row
  <2>3. /\ Row(s.id, "definition", s.def).id = s.id /\ Row(s.id, "definition", s.def).range = s.def
        /\ Row(s.id, "definition", s.def).role = "definition"
    BY DEF Row
  <2> QED BY <1>2, <2>1, <2>2, <2>3 DEF RangeRows
<1>8. OneOf(Held("declaration")) = s.decl /\ OneOf(Held("definition")) = s.def
  <2>1. \A x : OneOf({x} \ {None}) = x
    BY DEF OneOf
  <2> QED BY <1>6, <1>7, <2>1
<1>9. SymbolFrom(t, row) = s
  <2>1. SymbolFrom(t, row) =
          [id |-> row.id, kind |-> row.kind, name |-> row.name, qname |-> row.qname,
           decl |-> OneOf(Held("declaration")), def |-> OneOf(Held("definition")),
           parent |-> row.parent, ns |-> row.ns]
    BY DEF SymbolFrom
  <2>2. SymbolFrom(t, row) = Scalar(s)
    BY <1>2, <1>8, <2>1 DEF Scalar
  <2> QED BY <2>2
<1>10. Indexed(t, s.id) /\ Get(t, s.id) = s
  BY <1>1, <1>2, <1>5, <1>9, RowIsFound
<1>11. s \in FindByName(t, s.name) /\ s \in FindByQualifiedName(t, s.qname)
  <2>1. row \in SymbolRowsBy(t, "name", s.name) /\ row \in SymbolRowsBy(t, "qname", s.qname)
    BY <1>1, <1>2 DEF SymbolRowsBy
  <2> QED BY <1>9, <2>1 DEF FindByName, FindByQualifiedName, Symbols
<1>12. ASSUME NEW r \in RangesOf(s) PROVE s \in SymbolsInFile(t, r.file)
  <2>1. PICK q \in t.ranges : q.id = s.id /\ q.range = r
    <3>1. CASE r = s.decl
      <4>1. Row(s.id, "declaration", r) \in t.ranges
        BY <1>4, <3>1 DEF Ranges, RangesOf, Row
      <4> QED BY <4>1 DEF Row
    <3>2. CASE r = s.def
      <4>1. Row(s.id, "definition", r) \in t.ranges
        BY <1>4, <3>2 DEF Ranges, RangesOf, Row
      <4> QED BY <4>1 DEF Row
    <3> QED BY <3>1, <3>2 DEF RangesOf
  <2>2. row \in SymbolRowsInFile(t, r.file)
    BY <1>1, <1>2, <2>1 DEF SymbolRowsInFile
  <2> QED BY <1>9, <2>2 DEF SymbolsInFile, Symbols
<1> QED BY <1>1, <1>9, <1>10, <1>11, <1>12 DEF t, row

(* A fact comes back as it was, and no symbol has references but those of   *)
(* its fact.                                                                *)
LEMMA FactAnswers ==
  ASSUME NEW input, InputOK(input), \A f, g \in input.facts : f.id = g.id => f = g
  PROVE  /\ \A f \in input.facts :
              f = [id |-> f.id, references |-> f.references, callers |-> f.callers, callees |-> f.callees]
                => SemanticFacts(Tables(input), f.id) = f
         /\ \A s \in input.symbols :
              \A r \in SemanticFacts(Tables(input), s.id).references :
                \E f \in input.facts : f.id = s.id /\ r \in f.references
<1> DEFINE t == Tables(input)
           Related(id, kind) == {r.target : r \in {r \in RelationRows(t, id) : r.kind = kind}}
<1>1. t.references = References(input) /\ t.relations = Relations(input)
  BY RowsOfInput
<1>2. \A s \in input.symbols : Indexed(t, s.id)
  <2>1. \A s \in input.symbols : RowOf(s) \in t.symbols /\ RowOf(s).id = s.id
    BY RowsOfInput DEF RowOf
  <2> QED BY <2>1 DEF Indexed
<1>3. \A f \in input.facts : Indexed(t, f.id)
  BY <1>2 DEF InputOK, SymbolIds
<1> HIDE DEF t
<1>4. \A id : Indexed(t, id) =>
        SemanticFacts(t, id) = [id |-> id, references |-> {r.range : r \in ReferenceRows(t, id)},
                                callers |-> Related(id, "caller"), callees |-> Related(id, "callee")]
  BY DEF SemanticFacts
<1>5. \A x : x \in t.references <=> \E f \in input.facts : \E r \in f.references : x = [id |-> f.id, range |-> r]
  BY <1>1 DEF References
<1>6. \A x : x \in t.relations <=>
        \E f \in input.facts :
          \/ \E c \in f.callers : x = [source |-> f.id, kind |-> "caller", target |-> c]
          \/ \E c \in f.callees : x = [source |-> f.id, kind |-> "callee", target |-> c]
  BY <1>1 DEF Relations
<1>7. ASSUME NEW f \in input.facts,
             f = [id |-> f.id, references |-> f.references, callers |-> f.callers, callees |-> f.callees]
      PROVE  SemanticFacts(t, f.id) = f
  <2>1. {r.range : r \in ReferenceRows(t, f.id)} = f.references
    <3>1. ASSUME NEW r \in f.references PROVE \E x \in ReferenceRows(t, f.id) : x.range = r
      <4>1. [id |-> f.id, range |-> r] \in ReferenceRows(t, f.id)
        BY <1>5 DEF ReferenceRows
      <4> QED BY <4>1
    <3>2. ASSUME NEW x \in ReferenceRows(t, f.id) PROVE x.range \in f.references
      <4>1. x \in t.references /\ x.id = f.id
        BY DEF ReferenceRows
      <4>2. PICK g \in input.facts : \E r \in g.references : x = [id |-> g.id, range |-> r]
        BY <1>5, <4>1
      <4>3. g.id = f.id /\ x.range \in g.references
        BY <4>1, <4>2
      <4> QED BY <4>3
    <3> QED BY <3>1, <3>2
  <2>2. Related(f.id, "caller") = f.callers
    <3>1. ASSUME NEW c \in f.callers
          PROVE  \E x \in RelationRows(t, f.id) : x.kind = "caller" /\ x.target = c
      <4>1. [source |-> f.id, kind |-> "caller", target |-> c] \in RelationRows(t, f.id)
        BY <1>6 DEF RelationRows
      <4> QED BY <4>1
    <3>2. ASSUME NEW x \in RelationRows(t, f.id), x.kind = "caller" PROVE x.target \in f.callers
      <4>1. x \in t.relations /\ x.source = f.id
        BY DEF RelationRows
      <4>2. PICK g \in input.facts :
              \/ \E c \in g.callers : x = [source |-> g.id, kind |-> "caller", target |-> c]
              \/ \E c \in g.callees : x = [source |-> g.id, kind |-> "callee", target |-> c]
        BY <1>6, <4>1
      <4>3. g.id = f.id /\ x.target \in g.callers
        BY <3>2, <4>1, <4>2
      <4> QED BY <4>3
    <3> QED BY <3>1, <3>2
  <2>3. Related(f.id, "callee") = f.callees
    <3>1. ASSUME NEW c \in f.callees
          PROVE  \E x \in RelationRows(t, f.id) : x.kind = "callee" /\ x.target = c
      <4>1. [source |-> f.id, kind |-> "callee", target |-> c] \in RelationRows(t, f.id)
        BY <1>6 DEF RelationRows
      <4> QED BY <4>1
    <3>2. ASSUME NEW x \in RelationRows(t, f.id), x.kind = "callee" PROVE x.target \in f.callees
      <4>1. x \in t.relations /\ x.source = f.id
        BY DEF RelationRows
      <4>2. PICK g \in input.facts :
              \/ \E c \in g.callers : x = [source |-> g.id, kind |-> "caller", target |-> c]
              \/ \E c \in g.callees : x = [source |-> g.id, kind |-> "callee", target |-> c]
        BY <1>6, <4>1
      <4>3. g.id = f.id /\ x.target \in g.callees
        BY <3>2, <4>1, <4>2
      <4> QED BY <4>3
    <3> QED BY <3>1, <3>2
  <2> HIDE DEF Related
  <2>4. SemanticFacts(t, f.id) =
          [id |-> f.id, references |-> f.references, callers |-> f.callers, callees |-> f.callees]
    BY <1>3, <1>4, <2>1, <2>2, <2>3
  <2> QED BY <1>7, <2>4
<1>8. ASSUME NEW s \in input.symbols, NEW r \in SemanticFacts(t, s.id).references
      PROVE  \E f \in input.facts : f.id = s.id /\ r \in f.references
  <2>1. SemanticFacts(t, s.id).references = {x.range : x \in ReferenceRows(t, s.id)}
    BY <1>2, <1>4
  <2>2. PICK x \in ReferenceRows(t, s.id) : r = x.range
    BY <1>8, <2>1
  <2> QED BY <1>5, <2>2 DEF ReferenceRows
<1> QED BY <1>7, <1>8 DEF t

(* A fixture comes back as it was, under its identity and its name.         *)
LEMMA FixtureAnswers ==
  ASSUME NEW input, InputOK(input), NEW f \in input.fixtures,
         f = [id |-> f.id, name |-> f.name, range |-> f.range]
  PROVE  LET t == Tables(input)
         IN GetTestFixture(t, f.id) = f /\ f \in FindTestFixtures(t, f.name)
<1> DEFINE t == Tables(input)
           e == [id |-> f.id, kind |-> "fixture", name |-> f.name, range |-> f.range]
<1>1. e \in t.entities
  BY RowsOfInput DEF Entities
<1>2. \A a, b \in t.entities : a.id = b.id => a = b
  BY TablesOfInput, SchemaClauses DEF TablesOK
<1> HIDE DEF t
<1>3. FixtureFrom(e) = f
  BY DEF FixtureFrom
<1>4. e.id = f.id /\ e.kind = "fixture" /\ e.name = f.name
  OBVIOUS
<1> HIDE DEF e
<1>5. EntityRows(t, f.id, "fixture") = {e}
  BY <1>1, <1>2, <1>4 DEF EntityRows
<1>6. GetTestFixture(t, f.id) = f
  <2>1. {FixtureFrom(x) : x \in EntityRows(t, f.id, "fixture")} = {f}
    BY <1>3, <1>5
  <2> QED BY <2>1, OneOfSingle DEF GetTestFixture
<1>7. f \in FindTestFixtures(t, f.name)
  <2>1. e \in EntityRowsBy(t, "fixture", f.name)
    BY <1>1, <1>4 DEF EntityRowsBy
  <2> QED BY <1>3, <2>1 DEF FindTestFixtures
<1> QED BY <1>6, <1>7 DEF t

(* So does a case, also as a test of every symbol that it tests.            *)
LEMMA CaseAnswers ==
  ASSUME NEW input, InputOK(input), NEW c \in input.cases,
         c = [id |-> c.id, name |-> c.name, fixture |-> c.fixture, range |-> c.range, body |-> c.body]
  PROVE  LET t == Tables(input)
         IN /\ GetTestCase(t, c.id) = c
            /\ c \in FindTestCases(t, c.name) /\ c \in TestCasesForFixture(t, c.fixture)
            /\ \A r \in t.tests : r.case = c.id => c \in TestCasesForSymbol(t, r.symbol)
<1> DEFINE t == Tables(input)
           e == [id |-> c.id, kind |-> "case", name |-> c.name, range |-> c.range]
           m == [fixture |-> c.fixture, case |-> c.id]
<1>1. e \in t.entities /\ m \in t.members /\ t.bodies = Bodies(input)
  BY RowsOfInput DEF Entities
<1>2. /\ \A a, b \in t.entities : a.id = b.id => a = b
      /\ \A a, b \in t.members : a.case = b.case => a = b
  BY TablesOfInput, SchemaClauses DEF TablesOK
<1> HIDE DEF t
<1>3. \A d \in input.cases : d.id = c.id => d = c
  BY DEF InputOK, Ambiguous
<1>4. {b.range : b \in {b \in t.bodies : b.case = c.id}} = {c.body} \ {None}
  <2>1. ASSUME NEW b \in t.bodies, b.case = c.id PROVE b.range = c.body /\ b.range # None
    <3>1. PICK d \in input.cases : d.body # None /\ b = [case |-> d.id, range |-> d.body]
      BY <1>1 DEF Bodies
    <3>2. d = c
      BY <1>3, <2>1, <3>1
    <3> QED BY <3>1, <3>2
  <2>2. ASSUME c.body # None PROVE \E b \in t.bodies : b.case = c.id /\ b.range = c.body
    <3>1. [case |-> c.id, range |-> c.body] \in t.bodies
      BY <1>1, <2>2 DEF Bodies
    <3> QED BY <3>1
  <2> QED BY <2>1, <2>2
<1>5. OneOf({b.range : b \in {b \in t.bodies : b.case = c.id}}) = c.body
  BY <1>4 DEF OneOf
<1>6. Joined(t, e, m) = c
  BY <1>5 DEF Joined
<1>7. e.id = c.id /\ e.kind = "case" /\ e.name = c.name /\ m.case = c.id /\ m.fixture = c.fixture
  OBVIOUS
<1> HIDE DEF e, m
<1>8. \A n \in t.members : n.case = e.id <=> n = m
  BY <1>1, <1>2, <1>7
<1>9. ASSUME NEW entities, e \in entities PROVE c \in CaseRows(t, entities)
  <2>1. c \in {Joined(t, e, n) : n \in {n \in t.members : n.case = e.id}}
    BY <1>1, <1>6, <1>8
  <2> QED BY <1>9, <2>1, JoinedRows
<1>10. GetTestCase(t, c.id) = c
  <2>1. EntityRows(t, c.id, "case") = {e}
    BY <1>1, <1>2, <1>7 DEF EntityRows
  <2>2. {Joined(t, e, n) : n \in {n \in t.members : n.case = e.id}} = {c}
    BY <1>1, <1>6, <1>8
  <2>3. CaseRows(t, {e}) = {c}
    <3>1. CaseRows(t, {e}) = UNION {{Joined(t, x, n) : n \in {n \in t.members : n.case = x.id}} : x \in {e}}
      BY JoinedRows
    <3> QED BY <2>2, <3>1
  <2> QED BY <2>1, <2>3, OneOfSingle DEF GetTestCase, CaseRow
<1>11. c \in FindTestCases(t, c.name)
  <2>1. e \in {x \in t.entities : x.kind = "case" /\ x.name = c.name}
    BY <1>1, <1>7
  <2> QED BY <1>9, <2>1 DEF FindTestCases, CaseRowsBy
<1>12. c \in TestCasesForFixture(t, c.fixture)
  <2>1. e \in {x \in t.entities : \E n \in t.members : n.fixture = c.fixture /\ n.case = x.id}
    BY <1>1, <1>7
  <2> QED BY <1>9, <2>1 DEF TestCasesForFixture, CaseRowsOfFixture
<1>13. ASSUME NEW r \in t.tests, r.case = c.id PROVE c \in TestCasesForSymbol(t, r.symbol)
  <2>1. e \in {x \in t.entities : \E q \in t.tests : q.case = x.id /\ q.symbol = r.symbol}
    BY <1>1, <1>7, <1>13
  <2> QED BY <1>9, <2>1 DEF TestCasesForSymbol, CaseRowsOfSymbol
<1> QED BY <1>10, <1>11, <1>12, <1>13 DEF t

(* A case tests a symbol when a reference to the symbol stands in its body, *)
(* and the two ways to ask for that agree.                                  *)
LEMMA TestsAnswer ==
  ASSUME NEW input, InputOK(input), NEW c \in input.cases, NEW s \in input.symbols, s = Scalar(s),
         c = [id |-> c.id, name |-> c.name, fixture |-> c.fixture, range |-> c.range, body |-> c.body]
  PROVE  LET t == Tables(input)
         IN TestedSymbolMapping(t, c.id, s.id).references # {} <=>
              \E m \in TestedSymbolMappingsForCase(t, c.id)
                         \cap TestedSymbolMappingsForSymbol(t, s.id) : m.case = c.id
<1> DEFINE t == Tables(input)
           mapping == TestedSymbolMapping(t, c.id, s.id)
           Direct == \E r \in t.tests : r.case = c.id /\ r.symbol = s.id
<1>1. RowOf(s) \in t.symbols /\ SymbolFrom(t, RowOf(s)) = s
  BY SymbolAnswers
<1>2. \A r \in t.tests : r.case = c.id => c \in TestCasesForSymbol(t, r.symbol)
  BY CaseAnswers
<1> HIDE DEF t
<1>3. /\ mapping.case = c.id /\ mapping.symbol = s.id
      /\ mapping.references = {r.range : r \in TestReferenceRows(t, c.id, s.id)}
  BY DEF TestedSymbolMapping
<1>4. mapping.references # {} <=> Direct
  BY <1>3 DEF TestReferenceRows
<1>5. RowOf(s).id = s.id
  BY DEF RowOf
<1>6. ASSUME Direct
      PROVE  /\ mapping \in TestedSymbolMappingsForCase(t, c.id)
             /\ mapping \in TestedSymbolMappingsForSymbol(t, s.id)
  <2>1. RowOf(s) \in SymbolRowsOfCase(t, c.id)
    BY <1>1, <1>5, <1>6 DEF SymbolRowsOfCase
  <2>2. s \in DirectlyReferencedSymbols(t, c.id)
    BY <1>1, <2>1 DEF DirectlyReferencedSymbols, Symbols
  <2>3. c \in TestCasesForSymbol(t, s.id)
    BY <1>2, <1>6
  <2> QED BY <2>2, <2>3 DEF TestedSymbolMappingsForCase, TestedSymbolMappingsForSymbol
<1>7. ASSUME NEW m \in TestedSymbolMappingsForCase(t, c.id),
             m \in TestedSymbolMappingsForSymbol(t, s.id), m.case = c.id
      PROVE  Direct
  <2>1. PICK q \in DirectlyReferencedSymbols(t, c.id) : m = TestedSymbolMapping(t, c.id, q.id)
    BY DEF TestedSymbolMappingsForCase
  <2>2. PICK d \in TestCasesForSymbol(t, s.id) : m = TestedSymbolMapping(t, d.id, s.id)
    BY <1>7 DEF TestedSymbolMappingsForSymbol
  <2>3. q.id = s.id
    <3>1. m.symbol = q.id
      BY <2>1 DEF TestedSymbolMapping
    <3>2. m.symbol = s.id
      BY <2>2 DEF TestedSymbolMapping
    <3> QED BY <3>1, <3>2
  <2>4. PICK row \in t.symbols : /\ q = SymbolFrom(t, row)
                                 /\ \E r \in t.tests : r.case = c.id /\ r.symbol = row.id
    BY DEF DirectlyReferencedSymbols, Symbols, SymbolRowsOfCase
  <2>5. q.id = row.id
    BY <2>4, SymbolFromKeeps
  <2> QED BY <2>3, <2>4, <2>5
<1> HIDE DEF mapping, Direct
<1>8. mapping.references # {} <=>
        \E m \in TestedSymbolMappingsForCase(t, c.id)
                   \cap TestedSymbolMappingsForSymbol(t, s.id) : m.case = c.id
  BY <1>3, <1>4, <1>6, <1>7
<1> QED BY <1>8 DEF t, mapping

(* The rows answer as the models they were made from: every symbol, fact,   *)
(* fixture and case, and the tests of a symbol are those that reference it  *)
(* directly.                                                                *)
THEOREM IndexAlwaysAnswers == Spec => []IndexAnswers
<1>1. MemoryOK /\ CommittedOK => IndexAnswers
  <2> SUFFICES ASSUME MemoryOK, CommittedOK, pc = "indexed" PROVE IndexAnswers
    BY DEF IndexAnswers
  <2>1. PICK input : input = Input
    OBVIOUS
  <2>2. /\ InputOK(input) /\ db.rows = Tables(input)
        /\ input.symbols = work.symbols /\ input.facts = work.facts
        /\ input.fixtures = Fixtures(world.sources) /\ input.cases = Cases(world.sources)
    BY <2>1 DEF CommittedOK, Input
  <2>3. /\ \A s \in work.symbols : s = Scalar(s)
        /\ \A f \in work.facts : f = FactOf(f.id)
    BY DEF MemoryOK, Holding
  <2>4. /\ \A f, g \in input.facts : f.id = g.id => f = g
        /\ \A f \in input.facts :
             /\ f = [id |-> f.id, references |-> f.references, callers |-> f.callers, callees |-> f.callees]
             /\ f.references \subseteq ReferencesTo(f.id)
    <3>1. \A f, g \in input.facts : f.id = g.id => f = g
      BY <2>2, <2>3
    <3>2. ASSUME NEW f \in input.facts
          PROVE  /\ f = [id |-> f.id, references |-> f.references, callers |-> f.callers, callees |-> f.callees]
                 /\ f.references \subseteq ReferencesTo(f.id)
      BY <2>2, <2>3 DEF FactOf
    <3> QED BY <3>1, <3>2
  <2>5. ASSUME NEW s \in work.symbols
        PROVE  /\ Get(db.rows, s.id) = s
               /\ s \in FindByName(db.rows, s.name) \cap FindByQualifiedName(db.rows, s.qname)
               /\ \A r \in RangesOf(s) : s \in SymbolsInFile(db.rows, r.file)
    BY <2>2, <2>3, SymbolAnswers
  <2>6. \A s \in work.symbols : SemanticFacts(db.rows, s.id).references \subseteq ReferencesTo(s.id)
    BY <2>2, <2>4, FactAnswers
  <2>7. \A f \in work.facts : SemanticFacts(db.rows, f.id) = f
    BY <2>2, <2>4, FactAnswers
  <2>8. ASSUME NEW f \in Fixtures(world.sources)
        PROVE  GetTestFixture(db.rows, f.id) = f /\ f \in FindTestFixtures(db.rows, f.name)
    <3>1. f = [id |-> f.id, name |-> f.name, range |-> f.range]
      <4>1. PICK file \in DOMAIN world.sources :
              \E k \in Where(world.sources[file], "test") : f = FixtureOf(file, world.sources[file], k)
        BY DEF Fixtures
      <4>2. PICK source, k : f = FixtureOf(file, source, k)
        BY <4>1
      <4>3. \E i, n, r : f = [id |-> i, name |-> n, range |-> r]
        BY <4>2, Zenon DEF FixtureOf
      <4> QED BY <4>3
    <3> QED BY <2>2, <3>1, FixtureAnswers
  <2>9. ASSUME NEW c \in Cases(world.sources)
        PROVE  /\ GetTestCase(db.rows, c.id) = c
               /\ c \in FindTestCases(db.rows, c.name) \cap TestCasesForFixture(db.rows, c.fixture)
               /\ \A s \in work.symbols :
                    TestedSymbolMapping(db.rows, c.id, s.id).references # {} <=>
                      \E m \in TestedSymbolMappingsForCase(db.rows, c.id)
                                 \cap TestedSymbolMappingsForSymbol(db.rows, s.id) : m.case = c.id
    <3>1. c = [id |-> c.id, name |-> c.name, fixture |-> c.fixture, range |-> c.range, body |-> c.body]
      BY DEF Cases, CaseOf
    <3>2. GetTestCase(db.rows, c.id) = c
          /\ c \in FindTestCases(db.rows, c.name) \cap TestCasesForFixture(db.rows, c.fixture)
      BY <2>2, <3>1, CaseAnswers
    <3>3. ASSUME NEW s \in work.symbols
          PROVE  TestedSymbolMapping(db.rows, c.id, s.id).references # {} <=>
                   \E m \in TestedSymbolMappingsForCase(db.rows, c.id)
                              \cap TestedSymbolMappingsForSymbol(db.rows, s.id) : m.case = c.id
      BY <2>2, <2>3, <3>1, TestsAnswer
    <3> QED BY <3>2, <3>3
  <2> QED BY <2>5, <2>6, <2>7, <2>8, <2>9 DEF IndexAnswers
<1> QED BY <1>1, CommittedInductive, MemoryInductive, PTL

---------------------------------------------------------------------------
(* Where the parts of a symbol come from.                                   *)

\* Nothing that a build holds is made up: each part of a symbol was seen, and
\* its identity together with its qualified name; and a relation ends in a
\* symbol that is held.
OriginOK ==
  /\ pc \in Holding => \A s \in work.symbols : s \in PartsIn(world) /\ Symbol(s) \in NamesIn(world)
  /\ pc \in {"collected", "related"} =>
       \A o \in work.observed : Scalar(o) \in PartsIn(world) /\ Symbol(o) \in NamesIn(world)
  /\ pc = "related" => \A f \in work.facts : f.callers \cup f.callees \subseteq Ids(work.observed)
  /\ pc \in {"merged", "opened", "valid", "writing"} =>
       \A f \in work.facts : f.callers \cup f.callees \subseteq Ids(work.symbols)

(* What a world shows is of itself, as a symbol and as evidence.            *)
LEMMA SeenIsOfWorld ==
  ASSUME NEW w, NEW o \in Seen(w)
  PROVE  /\ Scalar(o) \in PartsIn(w) /\ Symbol(o) \in NamesIn(w) /\ Symbol(Scalar(o)) = Symbol(o)
         /\ Scalar(Endpoint(o)) = Scalar(o) /\ Symbol(Endpoint(o)) = Symbol(o)
<1>1. /\ o.id \in Values(Seen(w), "id") /\ o.kind \in Values(Seen(w), "kind")
      /\ o.name \in Values(Seen(w), "name") /\ o.qname \in Values(Seen(w), "qname")
      /\ o.decl \in Values(Seen(w), "decl") /\ o.def \in Values(Seen(w), "def")
      /\ o.parent \in Values(Seen(w), "parent") /\ o.ns \in Values(Seen(w), "ns")
  BY DEF Values
<1>2. Scalar(o) \in PartsIn(w)
  BY <1>1 DEF Scalar, PartsIn
<1>3. Symbol(o) \in NamesIn(w)
  BY DEF NamesIn
<1> QED BY <1>2, <1>3 DEF Scalar, Endpoint, Symbol

(* A merged symbol has the identity and the qualified name of one of its    *)
(* observations, and each other part of one of them or none.                *)
LEMMA MergeMakesNothingUp ==
  ASSUME NEW w, NEW facts, NEW o \in facts, Mergeable(facts), Located(facts),
         \A x \in facts : Scalar(x) \in PartsIn(w) /\ Symbol(x) \in NamesIn(w)
  PROVE  Merge(facts) \in PartsIn(w) /\ Symbol(Merge(facts)) \in NamesIn(w)
<1> DEFINE some  == CHOOSE x \in facts : TRUE
           owner == IF Agreed(facts) THEN <<some.name, OneOf(Known(facts, "parent"))>>
                    ELSE OneOf(Presentations(DeclarationSites(facts)))
           V(field) == Values(Seen(w), field)
<1>1. some \in facts
  OBVIOUS
<1>2. ASSUME NEW x \in facts
      PROVE  /\ x.id \in V("id") /\ x.kind \in V("kind") /\ x.name \in V("name") /\ x.qname \in V("qname")
             /\ x.decl \in V("decl") \cup {None} /\ x.def \in V("def") \cup {None}
             /\ x.parent \in V("parent") \cup {None} /\ x.ns \in V("ns") \cup {None}
  <2>1. Scalar(x) \in PartsIn(w)
    OBVIOUS
  <2> HIDE DEF V
  <2>2. PartsIn(w) = [id : V("id"), kind : V("kind"), name : V("name"), qname : V("qname"),
                      decl : V("decl") \cup {None}, def : V("def") \cup {None},
                      parent : V("parent") \cup {None}, ns : V("ns") \cup {None}]
    BY DEF PartsIn, V
  <2>3. PICK s : s = Scalar(x)
    OBVIOUS
  <2>4. s \in [id : V("id"), kind : V("kind"), name : V("name"), qname : V("qname"),
               decl : V("decl") \cup {None}, def : V("def") \cup {None},
               parent : V("parent") \cup {None}, ns : V("ns") \cup {None}]
    BY <2>1, <2>2, <2>3
  <2>5. /\ s.id = x.id /\ s.kind = x.kind /\ s.name = x.name /\ s.qname = x.qname
        /\ s.decl = x.decl /\ s.def = x.def /\ s.parent = x.parent /\ s.ns = x.ns
    BY <2>3 DEF Scalar
  <2> QED BY <2>4, <2>5
<1>3. Merge(facts) =
        [id |-> some.id, kind |-> some.kind, name |-> owner[1], qname |-> some.qname,
         decl |-> Site(facts, "decl"), def |-> Site(facts, "def"),
         parent |-> owner[2], ns |-> OneOf(Known(facts, "ns"))]
  BY DEF Merge
<1> HIDE DEF some, V
<1>4. /\ Site(facts, "decl") \in V("decl") \cup {None} /\ Site(facts, "def") \in V("def") \cup {None}
  <2>1. /\ \A v \in Known(facts, "decl") : v \in V("decl") \cup {None}
        /\ \A v \in Known(facts, "def") : v \in V("def") \cup {None}
    BY <1>2 DEF Known, Values
  <2> QED BY <2>1, SiteIsKnown
<1>5. /\ OneOf(Known(facts, "ns")) \in V("ns") \cup {None}
      /\ OneOf(Known(facts, "parent")) \in V("parent") \cup {None}
  <2>1. /\ \A v \in Known(facts, "ns") : v \in V("ns") \cup {None}
        /\ \A v \in Known(facts, "parent") : v \in V("parent") \cup {None}
    BY <1>2 DEF Known, Values
  <2> QED BY <2>1 DEF OneOf
<1>6. owner[1] \in V("name") /\ owner[2] \in V("parent") \cup {None}
  <2>1. CASE Agreed(facts)
    BY <1>1, <1>2, <1>5, <2>1
  <2>2. CASE ~Agreed(facts)
    <3>1. DeclarationSites(facts) # {} /\ DeclarationSites(facts) \subseteq facts
      BY <2>2 DEF Mergeable, Proven, DeclarationSites
    <3>2. OneOf(Presentations(DeclarationSites(facts))) \in Presentations(DeclarationSites(facts))
      BY <3>1 DEF OneOf, Presentations
    <3>3. PICK x \in facts : owner = <<x.name, x.parent>>
      BY <2>2, <3>1, <3>2 DEF Presentations
    <3> QED BY <1>2, <3>3
  <2> QED BY <2>1, <2>2
<1> HIDE DEF owner
<1>7. Merge(facts) \in PartsIn(w)
  <2>1. some.id \in V("id") /\ some.kind \in V("kind") /\ some.qname \in V("qname")
    BY <1>1, <1>2
  <2>2. PartsIn(w) = [id : V("id"), kind : V("kind"), name : V("name"), qname : V("qname"),
                      decl : V("decl") \cup {None}, def : V("def") \cup {None},
                      parent : V("parent") \cup {None}, ns : V("ns") \cup {None}]
    BY DEF PartsIn, V
  <2> QED BY <1>3, <1>4, <1>5, <1>6, <2>1, <2>2
<1>8. Symbol(Merge(facts)) = Symbol(some)
  BY <1>3 DEF Symbol
<1> QED BY <1>1, <1>7, <1>8

(* So for the whole of a canonicalization.                                  *)
LEMMA CanonicalMakesNothingUp ==
  ASSUME NEW w, NEW observations, ~Conflicting(observations), Located(observations),
         \A o \in observations : Scalar(o) \in PartsIn(w) /\ Symbol(o) \in NamesIn(w)
  PROVE  \A s \in Canonical(observations) : s \in PartsIn(w) /\ Symbol(s) \in NamesIn(w)
<1> TAKE s \in Canonical(observations)
<1>1. PICK id \in Ids(observations) : s = Merge(Group(observations, id))
  BY DEF Canonical
<1>2. Mergeable(Group(observations, id))
  BY <1>1 DEF Conflicting
<1>3. PICK o \in Group(observations, id) : TRUE
  BY <1>1, IdsOfSymbols DEF Group
<1>4. Located(Group(observations, id)) /\ Group(observations, id) \subseteq observations
  BY DEF Group, Located
<1> QED BY <1>1, <1>2, <1>3, <1>4, MergeMakesNothingUp

(* The relations end in related symbols, which the world shows.             *)
LEMMA RelatedIsSeen ==
  ASSUME NEW ids
  PROVE  /\ RelatedTo(ids) \subseteq world.related /\ RelatedTo(ids) \subseteq Seen(world)
         /\ \A id \in ids : FactOf(id).callers \cup FactOf(id).callees \subseteq Ids(RelatedTo(ids))
<1>1. RelatedTo(ids) \subseteq world.related
  BY DEF RelatedTo, CallersOf, CalleesOf, Callers, Callees
<1>2. ASSUME NEW id \in ids
      PROVE  FactOf(id).callers \cup FactOf(id).callees \subseteq {s.id : s \in RelatedTo(ids)}
  <2>1. FactOf(id).callers = {s.id : s \in CallersOf(id)} /\ FactOf(id).callees = {s.id : s \in CalleesOf(id)}
    BY IdsOfSymbols DEF FactOf
  <2>2. CallersOf(id) \cup CalleesOf(id) \subseteq RelatedTo(ids)
    BY DEF RelatedTo
  <2> QED BY <2>1, <2>2
<1> QED BY <1>1, <1>2, IdsOfSymbols DEF Seen

(* The collection is of the world.                                          *)
LEMMA CollectKeepsOrigin ==
  ASSUME WorkOK, Collect
  PROVE  OriginOK'
<1> DEFINE seen == world.observations
<1>1. world' = world /\ (pc' = "collected" \/ pc' = "failed")
  BY DEF Collect, Stop
<1>2. Located(seen) /\ \A o \in seen : o.site \in Places
  BY WorldLocated
<1>3. \A o \in seen : Scalar(o) \in PartsIn(world) /\ Symbol(o) \in NamesIn(world) /\ Symbol(Scalar(o)) = Symbol(o)
  BY SeenIsOfWorld DEF Seen
<1>4. CASE pc' = "failed"
  BY <1>4 DEF OriginOK, Holding
<1>5. CASE pc' = "collected"
  <2>1. PICK held :
          /\ held = IF world.mode = "prepare" THEN FirstShown(seen) ELSE Canonical(seen)
          /\ world.mode # "prepare" => ~Conflicting(seen)
          /\ work' = [NoWork EXCEPT !.observed = seen, !.symbols = held]
    BY <1>5 DEF Collect, Stop
  <2>2. work' = [observed |-> seen, symbols |-> held, facts |-> {}]
    BY <2>1 DEF NoWork
  <2>3. \A s \in held : s \in PartsIn(world) /\ Symbol(s) \in NamesIn(world)
    <3>1. CASE world.mode = "prepare"
      BY <1>2, <1>3, <2>1, <3>1, FirstShownIsSound
    <3>2. CASE world.mode # "prepare"
      BY <1>2, <1>3, <2>1, <3>2, CanonicalMakesNothingUp
    <3> QED BY <3>1, <3>2
  <2> QED BY <1>1, <1>3, <1>5, <2>2, <2>3 DEF OriginOK
<1> QED BY <1>1, <1>4, <1>5

(* So are the endpoints that the relations add.                             *)
LEMMA RelateKeepsOrigin ==
  ASSUME WorkOK, MemoryOK, OriginOK, Relate
  PROVE  OriginOK'
<1>1. world' = world /\ pc = "collected"
  BY DEF Relate
<1>2. CASE pc' = "failed"
  BY <1>2 DEF OriginOK, Holding
<1>3. CASE pc' # "failed"
  <2>1. PICK ends, kept :
          /\ ends = RelatedTo(Targets) /\ kept \subseteq {s \in ends : s.id \notin Ids(work.symbols)}
          /\ Ids(kept) = Ids({s \in ends : s.id \notin Ids(work.symbols)})
          /\ work' = [observed |-> work.observed \cup {Endpoint(s) : s \in ends},
                      facts    |-> {FactOf(id) : id \in Targets},
                      symbols  |-> IF world.mode = "refresh" THEN work.symbols
                                   ELSE work.symbols \cup {Scalar(s) : s \in kept}]
          /\ pc' = IF world.mode = "refresh" THEN "related" ELSE "merged"
    BY <1>3 DEF Relate, Stop
  <2>2. /\ ends \subseteq Seen(world)
        /\ \A f \in work'.facts : f.callers \cup f.callees \subseteq Ids(ends)
    BY <2>1, RelatedIsSeen
  <2>3. \A s \in work.symbols : s \in PartsIn(world) /\ Symbol(s) \in NamesIn(world)
    BY <1>1 DEF OriginOK, Holding
  <2>4. \A s \in ends : /\ Scalar(s) \in PartsIn(world) /\ Symbol(Scalar(s)) \in NamesIn(world)
                        /\ Scalar(Endpoint(s)) \in PartsIn(world) /\ Symbol(Endpoint(s)) \in NamesIn(world)
                        /\ Endpoint(s).id = s.id /\ Scalar(s).id = s.id
    <3>1. \A s \in ends : s \in Seen(world)
      BY <2>2
    <3>2. \A s \in ends : Endpoint(s).id = s.id /\ Scalar(s).id = s.id
      BY DEF Endpoint, Scalar
    <3> QED BY <3>1, <3>2, SeenIsOfWorld
  <2>5. \A s \in work'.symbols : s \in PartsIn(world) /\ Symbol(s) \in NamesIn(world)
    BY <2>1, <2>3, <2>4
  <2>6. CASE world.mode = "refresh"
    <3>1. /\ pc' = "related"
          /\ work'.observed = work.observed \cup {Endpoint(s) : s \in ends}
      BY <2>1, <2>6
    <3>2. \A o \in work'.observed : Scalar(o) \in PartsIn(world) /\ Symbol(o) \in NamesIn(world)
      BY <1>1, <2>4, <3>1 DEF OriginOK
    <3>3. {s.id : s \in ends} \subseteq {o.id : o \in work'.observed}
      BY <2>4, <3>1
    <3>4. \A f \in work'.facts : f.callers \cup f.callees \subseteq Ids(work'.observed)
      BY <2>2, <3>3, IdsOfSymbols
    <3> QED BY <1>1, <2>5, <3>1, <3>2, <3>4 DEF OriginOK
  <2>7. CASE world.mode # "refresh"
    <3>1. pc' = "merged" /\ work'.symbols = work.symbols \cup {Scalar(s) : s \in kept}
      BY <2>1, <2>7
    <3>2. {s.id : s \in ends} \subseteq {s.id : s \in work'.symbols}
      <4>1. \A s \in ends : s.id \in {x.id : x \in work.symbols} \/ s.id \in {x.id : x \in kept}
        <5> DEFINE new == {s \in ends : s.id \notin Ids(work.symbols)}
        <5>1. {x.id : x \in kept} = {x.id : x \in new}
          BY <2>1, IdsOfSymbols
        <5> QED BY <5>1, IdsOfSymbols
      <4> QED BY <2>1, <2>4, <3>1, <4>1
    <3>3. \A f \in work'.facts : f.callers \cup f.callees \subseteq Ids(work'.symbols)
      BY <2>2, <3>2, IdsOfSymbols
    <3> QED BY <1>1, <2>5, <3>1, <3>3 DEF OriginOK
  <2> QED BY <2>6, <2>7
<1> QED BY <1>2, <1>3

(* And the second merge, which has a symbol for every endpoint.             *)
LEMMA MergeKeepsOrigin ==
  ASSUME WorkOK, OriginOK, MergeAgain
  PROVE  OriginOK'
<1>1. world' = world /\ pc = "related"
  BY DEF MergeAgain
<1>2. CASE pc' = "failed"
  BY <1>2 DEF OriginOK, Holding
<1>3. CASE pc' # "failed"
  <2>1. PICK all : /\ all = AllEvidence /\ ~Conflicting(all) /\ pc' = "merged"
                   /\ work' = [work EXCEPT !.observed = all, !.symbols = Canonical(all)]
    BY <1>3 DEF MergeAgain, Stop
  <2>2. work'.symbols = Canonical(all) /\ work'.facts = work.facts
    <3>1. work = [observed |-> work.observed, symbols |-> work.symbols, facts |-> work.facts]
      BY DEF WorkOK
    <3> QED BY <2>1, <3>1
  <2>3. all = work.observed \cup RelatedTo(Ids(work.symbols))
    BY <2>1 DEF AllEvidence
  <2>4. \A o \in all : Scalar(o) \in PartsIn(world) /\ Symbol(o) \in NamesIn(world)
    <3>1. \A o \in RelatedTo(Ids(work.symbols)) : o \in Seen(world)
      BY RelatedIsSeen
    <3>2. \A o \in work.observed : Scalar(o) \in PartsIn(world) /\ Symbol(o) \in NamesIn(world)
      BY <1>1 DEF OriginOK
    <3> QED BY <2>3, <3>1, <3>2, SeenIsOfWorld
  <2>5. Located(all)
    BY <1>1, <2>3, EndpointsLocated DEF WorkOK, Located
  <2>6. \A s \in Canonical(all) : s \in PartsIn(world) /\ Symbol(s) \in NamesIn(world)
    BY <2>1, <2>4, <2>5, CanonicalMakesNothingUp
  <2>7. Ids(work.observed) \subseteq Ids(Canonical(all))
    <3>1. {o.id : o \in work.observed} \subseteq {o.id : o \in all}
      BY <2>3
    <3> QED BY <2>5, <3>1, CanonicalIsSound, IdsOfSymbols
  <2> QED BY <1>1, <2>1, <2>2, <2>6, <2>7 DEF OriginOK
<1> QED BY <1>2, <1>3

(* Every other step keeps what is held or drops it.                         *)
LEMMA StepKeepsOrigin ==
  ASSUME WorkOK, MemoryOK, OriginOK, [Next]_vars
  PROVE  OriginOK'
<1>1. CASE Collect
  BY <1>1, CollectKeepsOrigin
<1>2. CASE Relate
  BY <1>2, RelateKeepsOrigin
<1>3. CASE MergeAgain
  BY <1>3, MergeKeepsOrigin
<1>4. CASE ~(Collect \/ Relate \/ MergeAgain)
  <2>1. \/ pc' \notin Holding
        \/ /\ work' = work /\ world' = world /\ pc \in Holding
           /\ pc' \in {"collected", "related"} => pc' = pc
           /\ pc' \in {"merged", "opened", "valid", "writing"} => pc \in {"merged", "opened", "valid", "writing"}
    BY <1>4 DEF Next, vars, Begin, Edit, Discover, OpenIndex, Validate, Write, Commit, BuildGraph,
                SaveGraph, Fail, Kill, OpenSealed, OpenLive, Stop, Running, Holding
  <2>2. CASE pc' \notin Holding
    BY <2>2 DEF OriginOK, Holding
  <2>3. CASE pc' \in Holding
    BY <2>1, <2>3 DEF OriginOK
  <2> QED BY <2>2, <2>3
<1> QED BY <1>1, <1>2, <1>3, <1>4

(* Nothing that a build holds is made up, and no relation leads out of it.  *)
THEOREM OriginInductive == Spec => []OriginOK
<1>1. Init => OriginOK
  BY DEF Init, OriginOK, Holding
<1>2. WorkOK /\ MemoryOK /\ OriginOK /\ [Next]_vars => OriginOK'
  BY StepKeepsOrigin
<1> QED BY <1>1, <1>2, WorkInductive, MemoryInductive, PTL DEF Spec

---------------------------------------------------------------------------
(* The benchmark over one index.                                            *)

NamesOf(t) == {Symbol(s) : s \in t.symbols}

\* None is no set of names and no set of pairs of names either.
NoneApartFrom(names) ==
  None \notin SUBSET (names \cup {<<None, None>>}) /\ None \notin SUBSET (names \X names)

NoneIsNoSet == \A w \in Worlds \cup Edits : NoneApartFrom(NamesIn(w))

\* Rows that a benchmark is fair over: symbols have names, relations end in
\* symbols, tests are cases, and there is an end to each.
FairRows(t) ==
  /\ TablesOK(t)
  /\ IsFiniteSet(t.symbols)
  /\ \A s \in t.symbols : /\ s.qname # None /\ SymbolFrom(t, s) # None
                          /\ IsFiniteSet({r.range : r \in ReferenceRows(t, s.id)})
  /\ \A r \in t.ranges : r.range # None
  /\ \A r \in t.relations : \E s \in t.symbols : s.id = r.target
  /\ \A r \in t.tests : \E m \in t.members : m.case = r.case
  /\ NoneApartFrom(NamesOf(t))

\* An output is what the annotation says in each dimension it speaks of.
Fits(expected, output) ==
  /\ expected = ExpectedResults(expected.files, expected.symbols, expected.tests, expected.relations)
  /\ output = RetrievalOutput(output.files, output.symbols, output.tests, output.relations)
  /\ expected.files \in {None, output.files} /\ expected.symbols \in {None, Elements(output.symbols)}
  /\ expected.tests \in {None, output.tests} /\ expected.relations \in {None, output.relations}
  /\ expected.symbols # None => ~Mismatched(expected.symbols, expected.symbols)

(* The classes of failures, one by one.                                     *)
LEMMA FailureClauses ==
  ASSUME NEW expected, NEW output,
         expected = ExpectedResults(expected.files, expected.symbols, expected.tests, expected.relations)
  PROVE  LET symbols == Elements(output.symbols)
         IN \A c : c \in Failures(expected, output) <=>
              \/ /\ c = "empty_result" /\ output = NoOutput
                 /\ \/ expected.files \notin {None, {}} \/ expected.symbols \notin {None, {}}
                    \/ expected.tests \notin {None, {}} \/ expected.relations \notin {None, {}}
              \/ c = "target_file_miss" /\ expected.files # None /\ ~(expected.files \subseteq output.files)
              \/ c = "unexpected_file" /\ expected.files = {} /\ output.files # {}
              \/ c = "target_symbol_miss" /\ expected.symbols # None /\ ~(expected.symbols \subseteq symbols)
              \/ /\ c = "symbol_identity_mismatch" /\ expected.symbols # None
                 /\ Mismatched(expected.symbols, symbols)
              \/ c = "unexpected_symbol" /\ expected.symbols = {} /\ symbols # {}
              \/ c = "target_test_miss" /\ expected.tests # None /\ ~(expected.tests \subseteq output.tests)
              \/ c = "unexpected_test" /\ expected.tests = {} /\ output.tests # {}
              \/ /\ c = "direct_relation_miss" /\ expected.relations # None
                 /\ ~(expected.relations \subseteq output.relations)
              \/ /\ c = "unexpected_direct_relation" /\ expected.relations # None
                 /\ ~(output.relations \subseteq expected.relations)
<1>1. DOMAIN expected = {"files", "symbols", "tests", "relations"}
  BY DEF ExpectedResults
<1> DEFINE symbols == Elements(output.symbols)
           asked == \E d \in DOMAIN expected : expected[d] \notin {None, {}}
<1>2. asked <=> \/ expected.files \notin {None, {}} \/ expected.symbols \notin {None, {}}
                \/ expected.tests \notin {None, {}} \/ expected.relations \notin {None, {}}
  BY <1>1
<1>3. Failures(expected, output) =
        {c \in {"empty_result"} : output = NoOutput /\ asked}
        \cup {c \in {"target_file_miss"} : expected["files"] # None /\ ~(expected["files"] \subseteq output.files)}
        \cup {c \in {"unexpected_file"} : expected["files"] = {} /\ output.files # {}}
        \cup {c \in {"target_symbol_miss"} : expected["symbols"] # None /\ ~(expected["symbols"] \subseteq symbols)}
        \cup {c \in {"symbol_identity_mismatch"} :
                expected.symbols # None /\ Mismatched(expected.symbols, symbols)}
        \cup {c \in {"unexpected_symbol"} : expected["symbols"] = {} /\ symbols # {}}
        \cup {c \in {"target_test_miss"} : expected["tests"] # None /\ ~(expected["tests"] \subseteq output.tests)}
        \cup {c \in {"unexpected_test"} : expected["tests"] = {} /\ output.tests # {}}
        \cup {c \in {"direct_relation_miss"} :
                expected["relations"] # None /\ ~(expected["relations"] \subseteq output.relations)}
        \cup {c \in {"unexpected_direct_relation"} :
                expected.relations # None /\ ~(output.relations \subseteq expected.relations)}
  BY Zenon DEF Failures
<1> HIDE DEF symbols, asked
<1> QED BY <1>2, <1>3 DEF symbols

(* An answer that fits passes, and measures 1.                              *)
LEMMA FitPasses ==
  ASSUME NEW expected, NEW output, Fits(expected, output), None # {}
  PROVE  /\ Failures(expected, output) = {}
         /\ \A kind : LET m == Metrics(kind, expected, output)
                      IN Full(m.files) /\ Full(m.symbols) /\ Full(m.tests) /\ m.relations # FALSE
<1>1. ASSUME NEW c \in Failures(expected, output) PROVE FALSE
  <2>1. output = NoOutput => /\ expected.files \in {None, {}} /\ expected.symbols \in {None, {}}
                             /\ expected.tests \in {None, {}} /\ expected.relations \in {None, {}}
    <3>1. Elements(<<>>) = {}
      BY DEF Elements
    <3>2. /\ NoOutput.files = {} /\ NoOutput.symbols = <<>> /\ NoOutput.tests = {}
          /\ NoOutput.relations = {}
      BY DEF NoOutput, RetrievalOutput
    <3> QED BY <3>1, <3>2 DEF Fits
  <2> QED BY <1>1, <2>1, FailureClauses DEF Fits
<1>2. ASSUME NEW kind
      PROVE  LET m == Metrics(kind, expected, output)
             IN Full(m.files) /\ Full(m.symbols) /\ Full(m.tests) /\ m.relations # FALSE
  <2>1. ASSUME NEW e, NEW a, e \in {None, a} PROVE Full(Measured(e, a))
    <3>1. CASE e = None
      BY <3>1 DEF Measured, Full
    <3>2. CASE e # None
      <4>1. e = a /\ e \cap a = e
        BY <2>1, <3>2
      <4>2. Measured(e, a) = [hit |-> Cardinality(e), of |-> Cardinality(e)]
        BY <3>2, <4>1 DEF Measured, Recall
      <4> QED BY <4>2 DEF Full
    <3> QED BY <3>1, <3>2
  <2>2. /\ Metrics(kind, expected, output).files = Measured(expected.files, output.files)
        /\ Metrics(kind, expected, output).symbols = Measured(expected.symbols, Elements(output.symbols))
        /\ Metrics(kind, expected, output).tests = Measured(expected.tests, output.tests)
        /\ Metrics(kind, expected, output).relations =
             IF expected.relations = None THEN None ELSE expected.relations = output.relations
    BY DEF Metrics
  <2>3. Metrics(kind, expected, output).relations # FALSE
    <3>1. CASE expected.relations = None
      BY <2>2, <3>1, NoneAssumption
    <3>2. CASE expected.relations # None
      <4>1. expected.relations = output.relations
        BY <3>2 DEF Fits
      <4> QED BY <2>2, <3>2, <4>1
    <3> QED BY <3>1, <3>2
  <2>4. /\ Full(Metrics(kind, expected, output).files) /\ Full(Metrics(kind, expected, output).symbols)
        /\ Full(Metrics(kind, expected, output).tests)
    <3>1. /\ expected.files \in {None, output.files} /\ expected.symbols \in {None, Elements(output.symbols)}
          /\ expected.tests \in {None, output.tests}
      BY DEF Fits
    <3>2. /\ Full(Measured(expected.files, output.files)) /\ Full(Measured(expected.tests, output.tests))
          /\ Full(Measured(expected.symbols, Elements(output.symbols)))
      BY <2>1, <3>1
    <3> QED BY <2>2, <3>2
  <2> QED BY <2>3, <2>4, Zenon
<1> QED BY <1>1, <1>2

---------------------------------------------------------------------------
(* What the rows say of a symbol, and what they answer.                     *)

NameIn(t, id)       == <<id, OneOf({r.qname : r \in {r \in t.symbols : r.id = id}})>>
FilesOf(t, s, role) == {r.range.file : r \in {r \in t.ranges : r.id = s.id /\ r.role = role}}
UsesOf(t, s)        == {r.range.file : r \in {r \in t.references : r.id = s.id}}
EndsOf(t, s, kind)  == {r.target : r \in {r \in t.relations : r.source = s.id /\ r.kind = kind}}
TestsOf(t, s)       ==
  {[id |-> e.id, name |-> e.name, file |-> e.range.file] :
     e \in {e \in t.entities : \E r \in t.tests : r.case = e.id /\ r.symbol = s.id}}
Into(t, s, kind)    == {<<NameIn(t, c), NameIn(t, s.id)>> : c \in EndsOf(t, s, kind)}
OutOf(t, s, kind)   == {<<NameIn(t, s.id), NameIn(t, c)>> : c \in EndsOf(t, s, kind)}
NamedBy(t, s, S)    == IF S = {} THEN {} ELSE {NameIn(t, s.id)}

(* The annotation of each kind of query.                                    *)
LEMMA AnnotatedByKind ==
  ASSUME NEW t, NEW s
  PROVE  /\ Annotated(t, "find_declaration", s) =
              ExpectedResults(FilesOf(t, s, "declaration"), NamedBy(t, s, FilesOf(t, s, "declaration")), None, None)
         /\ Annotated(t, "find_definition", s) =
              ExpectedResults(FilesOf(t, s, "definition"), NamedBy(t, s, FilesOf(t, s, "definition")), None, None)
         /\ Annotated(t, "find_references", s) =
              ExpectedResults(UsesOf(t, s), NamedBy(t, s, UsesOf(t, s)), None, None)
         /\ Annotated(t, "find_callers", s) =
              ExpectedResults(None, None, None, Into(t, s, "caller"))
         /\ Annotated(t, "find_callees", s) =
              ExpectedResults(None, None, None, OutOf(t, s, "callee"))
         /\ Annotated(t, "find_tests", s) = ExpectedResults(None, None, TestsOf(t, s), None)
BY Zenon DEF Annotated, FilesOf, UsesOf, EndsOf, Into, OutOf, TestsOf, NamedBy, NameIn

(* The answer to each kind of query.                                        *)
LEMMA AnswerByKind ==
  ASSUME NEW t, NEW s, NEW symbol, NEW kind
  PROVE  LET answer == IdentityAnswer(t, IdentityQuery(kind, symbol), s)
             references == SemanticFacts(t, s.id).references
             tests == TestCasesForSymbol(t, s.id)
         IN /\ kind = "find_declaration" => answer = SourceFact(s, s.decl)
            /\ kind = "find_definition" => answer = SourceFact(s, s.def)
            /\ kind = "find_references" =>
                 answer = RetrievalOutput({r.file : r \in references},
                                          [i \in 1..Cardinality(references) |-> Symbol(s)], {}, {})
            /\ kind = "find_callers" =>
                 answer = RelationAnswer(t, {<<c, s.id>> : c \in SemanticFacts(t, s.id).callers})
            /\ kind = "find_callees" =>
                 answer = RelationAnswer(t, {<<s.id, c>> : c \in SemanticFacts(t, s.id).callees})
            /\ kind = "find_tests" =>
                 answer = RetrievalOutput({c.range.file : c \in tests}, <<>>,
                            {[id |-> c.id, name |-> c.name, file |-> c.range.file] : c \in tests}, {})
<1>1. IdentityQuery(kind, symbol).kind = kind
  BY DEF IdentityQuery
<1> QED BY <1>1, Zenon DEF IdentityAnswer

(* A symbol of the rows is named by its qualified name, wherever it is      *)
(* named, and a query for it is executed.                                   *)
LEMMA RowIsNamed ==
  ASSUME NEW t, FairRows(t), NEW s \in t.symbols
  PROVE  /\ NameIn(t, s.id) = Symbol(s) /\ NamedEndpoint(t, s.id) = Symbol(s)
         /\ Symbol(SymbolFrom(t, s)) = Symbol(s) /\ SymbolFrom(t, s).id = s.id
         /\ \A kind \in IdentityKinds :
              /\ Execute(t, IdentityQuery(kind, Symbol(s))).failures = {}
              /\ Execute(t, IdentityQuery(kind, Symbol(s))).output =
                   IdentityAnswer(t, IdentityQuery(kind, Symbol(s)), SymbolFrom(t, s))
              /\ IdentityQuery(kind, Symbol(s)).kind = kind
<1> DEFINE f == SymbolFrom(t, s)
<1>1. f.id = s.id /\ f.qname = s.qname /\ f # None
  <2>1. f # None
    BY DEF FairRows
  <2> QED BY <2>1, SymbolFromKeeps
<1>2. Indexed(t, s.id) /\ SymbolRow(t, s.id) = s /\ Get(t, s.id) = f
  BY RowIsFound DEF FairRows
<1>3. {r \in t.symbols : r.id = s.id} = {s}
  BY SchemaClauses DEF FairRows, TablesOK
<1> HIDE DEF f
<1>4. NameIn(t, s.id) = Symbol(s)
  <2>1. {r.qname : r \in {r \in t.symbols : r.id = s.id}} = {s.qname}
    BY <1>3
  <2> QED BY <2>1, OneOfSingle DEF NameIn, Symbol
<1>5. NamedEndpoint(t, s.id) = Symbol(s)
  BY <1>1, <1>2 DEF NamedEndpoint, Symbol
<1>6. Symbol(f) = Symbol(s)
  BY <1>1 DEF Symbol
<1>7. ASSUME NEW kind \in IdentityKinds
      PROVE  /\ Execute(t, IdentityQuery(kind, Symbol(s))).failures = {}
             /\ Execute(t, IdentityQuery(kind, Symbol(s))).output =
                  IdentityAnswer(t, IdentityQuery(kind, Symbol(s)), f)
             /\ IdentityQuery(kind, Symbol(s)).kind = kind
  <2> DEFINE q == IdentityQuery(kind, Symbol(s))
  <2>1. q.kind = kind /\ q.symbol = Symbol(s) /\ q.symbol[1] = s.id
    BY DEF IdentityQuery, Symbol
  <2>2. kind # "search_symbol"
    BY DEF IdentityKinds
  <2> HIDE DEF q
  <2>3. ExactSymbol(t, q) = f
    BY <1>1, <1>2, <1>6, <2>1 DEF ExactSymbol
  <2>4. Execute(t, q) = [output |-> IdentityAnswer(t, q, f), failures |-> {}]
    BY <1>1, <2>1, <2>2, <2>3 DEF Execute
  <2> QED BY <2>1, <2>4 DEF q
<1> QED BY <1>1, <1>4, <1>5, <1>6, <1>7 DEF f

(* The place of a role is the one row of it.                                *)
LEMMA PlaceOfRole ==
  ASSUME NEW t, FairRows(t), NEW s \in t.symbols
  PROVE  LET f == SymbolFrom(t, s)
         IN /\ FilesOf(t, s, "declaration") = {r.file : r \in {f.decl} \ {None}}
            /\ FilesOf(t, s, "definition") = {r.file : r \in {f.def} \ {None}}
<1> DEFINE f == SymbolFrom(t, s)
           Held(role) == {r.range : r \in {r \in RangeRows(t, s.id) : r.role = role}}
<1>1. f.decl = OneOf(Held("declaration")) /\ f.def = OneOf(Held("definition"))
  <2>1. f = [id |-> s.id, kind |-> s.kind, name |-> s.name, qname |-> s.qname,
             decl |-> OneOf(Held("declaration")), def |-> OneOf(Held("definition")),
             parent |-> s.parent, ns |-> s.ns]
    BY DEF SymbolFrom
  <2> HIDE DEF Held, f
  <2> QED BY <2>1
<1>2. ASSUME NEW role
      PROVE  FilesOf(t, s, role) = {r.file : r \in {OneOf(Held(role))} \ {None}}
  <2>1. \A a, b \in t.ranges : a.id = b.id /\ a.role = b.role => a = b
    BY SchemaClauses DEF FairRows, TablesOK
  <2>2. \A r \in t.ranges : r.range # None
    BY DEF FairRows
  <2>3. CASE \E q \in t.ranges : q.id = s.id /\ q.role = role
    <3>1. PICK q \in t.ranges : q.id = s.id /\ q.role = role
      BY <2>3
    <3>2. {r \in RangeRows(t, s.id) : r.role = role} = {q} /\ {r \in t.ranges : r.id = s.id /\ r.role = role} = {q}
      BY <2>1, <3>1 DEF RangeRows
    <3>3. OneOf(Held(role)) = q.range
      <4>1. Held(role) = {q.range}
        BY <3>2
      <4> QED BY <4>1, OneOfSingle
    <3>4. FilesOf(t, s, role) = {q.range.file}
      BY <3>2 DEF FilesOf
    <3> HIDE DEF Held
    <3> QED BY <2>2, <3>1, <3>3, <3>4
  <2>4. CASE ~\E q \in t.ranges : q.id = s.id /\ q.role = role
    <3>1. Held(role) = {}
      BY <2>4 DEF RangeRows
    <3>2. OneOf(Held(role)) = None
      BY <3>1 DEF OneOf
    <3>3. FilesOf(t, s, role) = {}
      BY <2>4 DEF FilesOf
    <3> QED BY <3>2, <3>3
  <2> QED BY <2>3, <2>4
<1> HIDE DEF Held, f
<1> QED BY <1>1, <1>2 DEF f

(* One symbol or none does not mismatch itself.                             *)
LEMMA OneNameMatches ==
  ASSUME NEW S, NEW x, S \subseteq {x}
  PROVE  ~Mismatched(S, S)
<1>1. ASSUME NEW a \in S, NEW key \in {1, 2} PROVE Listed(S, key, a[key]) = a
  <2>1. Listed(S, key, a[key]) \in S
    BY DEF Listed
  <2> QED BY <2>1
<1> QED BY <1>1 DEF Mismatched

(* A place that is known is answered as it is annotated.                    *)
LEMMA SourceFactFits ==
  ASSUME NEW t, FairRows(t), NEW s \in t.symbols, NEW range,
         NEW files, files = {r.file : r \in {range} \ {None}}
  PROVE  LET expected == ExpectedResults(files, NamedBy(t, s, files), None, None)
             answer == SourceFact(SymbolFrom(t, s), range)
         IN Fits(expected, answer) /\ expected.symbols = Elements(answer.symbols)
<1> DEFINE expected == ExpectedResults(files, NamedBy(t, s, files), None, None)
           answer == SourceFact(SymbolFrom(t, s), range)
<1>1. NameIn(t, s.id) = Symbol(s) /\ Symbol(SymbolFrom(t, s)) = Symbol(s)
  BY RowIsNamed
<1>2. /\ expected.files = files /\ expected.symbols = NamedBy(t, s, files) /\ expected.tests = None
      /\ expected.relations = None
      /\ expected = ExpectedResults(expected.files, expected.symbols, expected.tests, expected.relations)
  BY DEF ExpectedResults
<1>3. CASE range = None
  <2>1. files = {} /\ NamedBy(t, s, files) = {}
    BY <1>3 DEF NamedBy
  <2>2. /\ answer.files = {} /\ Elements(answer.symbols) = {}
        /\ answer = RetrievalOutput(answer.files, answer.symbols, answer.tests, answer.relations)
    BY <1>3 DEF SourceFact, NoOutput, RetrievalOutput, Elements
  <2> HIDE DEF expected, answer
  <2> QED BY <1>2, <2>1, <2>2, OneNameMatches DEF Fits, expected, answer
<1>4. CASE range # None
  <2>1. files = {range.file} /\ NamedBy(t, s, files) = {Symbol(s)}
    BY <1>1, <1>4 DEF NamedBy
  <2>2. /\ answer.files = {range.file} /\ answer.symbols = <<Symbol(s)>>
        /\ answer = RetrievalOutput(answer.files, answer.symbols, answer.tests, answer.relations)
    BY <1>1, <1>4 DEF SourceFact, RetrievalOutput
  <2>3. Elements(<<Symbol(s)>>) = {Symbol(s)}
    BY DEF Elements
  <2> HIDE DEF expected, answer
  <2>4. expected.symbols = {Symbol(s)} /\ expected.symbols = Elements(answer.symbols)
    BY <1>2, <2>1, <2>2, <2>3
  <2>5. ~Mismatched(expected.symbols, expected.symbols)
    BY <2>4, OneNameMatches
  <2>6. Fits(expected, answer)
    BY <1>2, <2>1, <2>2, <2>4, <2>5 DEF Fits
  <2> QED BY <2>4, <2>6 DEF expected, answer
<1> QED BY <1>3, <1>4

(* Every known place of the symbol is, and every reference.                 *)
LEMMA PlacesFit ==
  ASSUME NEW t, FairRows(t), NEW s \in t.symbols, NEW kind \in {"find_declaration", "find_definition"}
  PROVE  LET answer == IdentityAnswer(t, IdentityQuery(kind, Symbol(s)), SymbolFrom(t, s))
         IN Fits(Annotated(t, kind, s), answer) /\ Annotated(t, kind, s).symbols = Elements(answer.symbols)
<1> DEFINE f == SymbolFrom(t, s)
           answer == IdentityAnswer(t, IdentityQuery(kind, Symbol(s)), f)
<1>1. CASE kind = "find_declaration"
  <2>1. answer = SourceFact(f, f.decl)
    BY <1>1, AnswerByKind
  <2>2. PICK files : files = FilesOf(t, s, "declaration")
    OBVIOUS
  <2>3. Annotated(t, kind, s) = ExpectedResults(files, NamedBy(t, s, files), None, None)
    BY <1>1, <2>2, AnnotatedByKind
  <2>4. files = {r.file : r \in {f.decl} \ {None}}
    BY <2>2, PlaceOfRole
  <2>5. PICK range : range = f.decl
    OBVIOUS
  <2> HIDE DEF answer
  <2> QED BY <2>1, <2>3, <2>4, <2>5, SourceFactFits DEF answer
<1>2. CASE kind = "find_definition"
  <2>1. answer = SourceFact(f, f.def)
    BY <1>2, AnswerByKind
  <2>2. PICK files : files = FilesOf(t, s, "definition")
    OBVIOUS
  <2>3. Annotated(t, kind, s) = ExpectedResults(files, NamedBy(t, s, files), None, None)
    BY <1>2, <2>2, AnnotatedByKind
  <2>4. files = {r.file : r \in {f.def} \ {None}}
    BY <2>2, PlaceOfRole
  <2>5. PICK range : range = f.def
    OBVIOUS
  <2> HIDE DEF answer
  <2> QED BY <2>1, <2>3, <2>4, <2>5, SourceFactFits DEF answer
<1> QED BY <1>1, <1>2

LEMMA ReferencesFit ==
  ASSUME NEW t, FairRows(t), NEW s \in t.symbols
  PROVE  Fits(Annotated(t, "find_references", s),
              IdentityAnswer(t, IdentityQuery("find_references", Symbol(s)), SymbolFrom(t, s)))
<1> DEFINE f == SymbolFrom(t, s)
           references == {r.range : r \in ReferenceRows(t, s.id)}
           answer == IdentityAnswer(t, IdentityQuery("find_references", Symbol(s)), f)
<1>1. /\ f.id = s.id /\ Symbol(f) = Symbol(s) /\ NameIn(t, s.id) = Symbol(s)
      /\ Indexed(t, s.id)
  <2>1. f.id = s.id /\ Symbol(f) = Symbol(s) /\ NameIn(t, s.id) = Symbol(s)
    BY RowIsNamed
  <2>2. Indexed(t, s.id)
    BY DEF Indexed
  <2> QED BY <2>1, <2>2
<1>2. SemanticFacts(t, f.id).references = references
  <2>1. SemanticFacts(t, s.id) = [id |-> s.id, references |-> references,
          callers |-> SemanticFacts(t, s.id).callers, callees |-> SemanticFacts(t, s.id).callees]
    BY <1>1 DEF SemanticFacts
  <2> QED BY <1>1, <2>1
<1>3. IsFiniteSet(references)
  BY DEF FairRows
<1>4. UsesOf(t, s) = {r.file : r \in references}
  BY DEF UsesOf, ReferenceRows
<1> HIDE DEF references
<1>5. PICK names : names = [i \in 1..Cardinality(references) |-> Symbol(s)]
  OBVIOUS
<1>6. answer = RetrievalOutput({r.file : r \in references}, names, {}, {})
  <2>1. answer = RetrievalOutput({r.file : r \in SemanticFacts(t, f.id).references},
                   [i \in 1..Cardinality(SemanticFacts(t, f.id).references) |-> Symbol(f)], {}, {})
    BY AnswerByKind, Zenon
  <2> HIDE DEF answer, f
  <2> QED BY <1>1, <1>2, <1>5, <2>1
<1>7. Elements(names) = NamedBy(t, s, UsesOf(t, s))
  <2>1. Cardinality(references) \in Nat /\ (Cardinality(references) = 0 <=> references = {})
    BY <1>3, FS_CardinalityType, FS_EmptySet
  <2>2. CASE references = {}
    <3>1. DOMAIN names = {} /\ UsesOf(t, s) = {}
      BY <1>4, <1>5, <2>1, <2>2
    <3> QED BY <3>1 DEF Elements, NamedBy
  <2>3. CASE references # {}
    <3>1. 1 \in DOMAIN names /\ (\A i \in DOMAIN names : names[i] = Symbol(s)) /\ UsesOf(t, s) # {}
      BY <1>4, <1>5, <2>1, <2>3
    <3>2. Elements(names) = {Symbol(s)}
      BY <3>1 DEF Elements
    <3> QED BY <1>1, <3>1, <3>2 DEF NamedBy
  <2> QED BY <2>2, <2>3
<1>8. Annotated(t, "find_references", s) = ExpectedResults(UsesOf(t, s), NamedBy(t, s, UsesOf(t, s)), None, None)
  BY AnnotatedByKind
<1> HIDE DEF answer
<1>9. NamedBy(t, s, UsesOf(t, s)) \subseteq {Symbol(s)}
  BY <1>1 DEF NamedBy
<1>10. PICK uses, named : uses = UsesOf(t, s) /\ named = NamedBy(t, s, UsesOf(t, s))
  OBVIOUS
<1>11. Fits(ExpectedResults(uses, named, None, None), RetrievalOutput(uses, names, {}, {}))
  <2>1. PICK expected, output :
          /\ expected = ExpectedResults(uses, named, None, None)
          /\ output = RetrievalOutput(uses, names, {}, {})
    OBVIOUS
  <2>2. /\ expected.files = uses /\ expected.symbols = named /\ expected.tests = None
        /\ expected.relations = None
        /\ expected = ExpectedResults(expected.files, expected.symbols, expected.tests, expected.relations)
    BY <2>1 DEF ExpectedResults
  <2>3. /\ output.files = uses /\ output.symbols = names
        /\ output = RetrievalOutput(output.files, output.symbols, output.tests, output.relations)
    BY <2>1 DEF RetrievalOutput
  <2>4. ~Mismatched(named, named)
    <3>1. named \subseteq {Symbol(s)}
      BY <1>9, <1>10
    <3> QED BY <3>1, OneNameMatches
  <2> QED BY <1>7, <1>10, <2>1, <2>2, <2>3, <2>4 DEF Fits
<1> QED BY <1>4, <1>6, <1>8, <1>10, <1>11 DEF answer

(* A relation is answered as it is annotated, its ends being symbols.       *)
LEMMA RelationsFit ==
  ASSUME NEW t, FairRows(t), NEW s \in t.symbols, NEW kind \in {"find_callers", "find_callees"}
  PROVE  LET answer == IdentityAnswer(t, IdentityQuery(kind, Symbol(s)), SymbolFrom(t, s))
         IN /\ Fits(Annotated(t, kind, s), answer)
            /\ Annotated(t, kind, s).relations = answer.relations
            /\ Annotated(t, kind, s).relations \subseteq NamesOf(t) \X NamesOf(t)
<1> DEFINE f == SymbolFrom(t, s)
           answer == IdentityAnswer(t, IdentityQuery(kind, Symbol(s)), f)
           Ends(role) == EndsOf(t, s, role)
<1>1. f.id = s.id
  BY RowIsNamed
<1>2. SemanticFacts(t, s.id).callers = Ends("caller") /\ SemanticFacts(t, s.id).callees = Ends("callee")
  <2>1. Indexed(t, s.id)
    BY DEF Indexed
  <2>2. ASSUME NEW role
        PROVE  {r.target : r \in {r \in RelationRows(t, s.id) : r.kind = role}} = Ends(role)
    BY DEF RelationRows, EndsOf
  <2> HIDE DEF Ends
  <2>3. SemanticFacts(t, s.id) =
          [id |-> s.id, references |-> {r.range : r \in ReferenceRows(t, s.id)},
           callers |-> {r.target : r \in {r \in RelationRows(t, s.id) : r.kind = "caller"}},
           callees |-> {r.target : r \in {r \in RelationRows(t, s.id) : r.kind = "callee"}}]
    BY <2>1 DEF SemanticFacts
  <2> QED BY <2>2, <2>3
<1>3. ASSUME NEW id, id = s.id \/ \E role : id \in Ends(role)
      PROVE  NameIn(t, id) = NamedEndpoint(t, id) /\ NameIn(t, id) \in NamesOf(t)
  <2>1. PICK r \in t.symbols : r.id = id
    BY <1>3 DEF EndsOf, FairRows
  <2>2. NameIn(t, r.id) = Symbol(r) /\ NamedEndpoint(t, r.id) = Symbol(r)
    BY RowIsNamed
  <2>3. Symbol(r) \in NamesOf(t)
    BY DEF NamesOf
  <2> QED BY <2>1, <2>2, <2>3
<1> HIDE DEF Ends
<1>4. ASSUME NEW role
      PROVE  /\ Into(t, s, role) = {<<NamedEndpoint(t, p[1]), NamedEndpoint(t, p[2])>> : p \in {<<c, s.id>> : c \in Ends(role)}}
             /\ OutOf(t, s, role) = {<<NamedEndpoint(t, p[1]), NamedEndpoint(t, p[2])>> : p \in {<<s.id, c>> : c \in Ends(role)}}
             /\ Into(t, s, role) \subseteq NamesOf(t) \X NamesOf(t) /\ OutOf(t, s, role) \subseteq NamesOf(t) \X NamesOf(t)
  <2>1. \A c \in Ends(role) : NameIn(t, c) = NamedEndpoint(t, c) /\ NameIn(t, c) \in NamesOf(t)
    BY <1>3
  <2>2. NameIn(t, s.id) = NamedEndpoint(t, s.id) /\ NameIn(t, s.id) \in NamesOf(t)
    BY <1>3
  <2>3. PICK ends : ends = Ends(role)
    OBVIOUS
  <2>4. /\ \A p \in {<<c, s.id>> : c \in ends} : p[1] \in ends /\ p[2] = s.id
        /\ \A p \in {<<s.id, c>> : c \in ends} : p[1] = s.id /\ p[2] \in ends
    OBVIOUS
  <2>5. /\ \A c \in ends : \E p \in {<<d, s.id>> : d \in ends} : p[1] = c /\ p[2] = s.id
        /\ \A c \in ends : \E p \in {<<s.id, d>> : d \in ends} : p[1] = s.id /\ p[2] = c
    <3>1. ASSUME NEW c \in ends
          PROVE  /\ <<c, s.id>> \in {<<d, s.id>> : d \in ends} /\ <<s.id, c>> \in {<<s.id, d>> : d \in ends}
                 /\ <<c, s.id>>[1] = c /\ <<c, s.id>>[2] = s.id /\ <<s.id, c>>[1] = s.id /\ <<s.id, c>>[2] = c
      OBVIOUS
    <3> QED BY <3>1, Zenon
  <2>6. Into(t, s, role) = {<<NamedEndpoint(t, p[1]), NamedEndpoint(t, p[2])>> : p \in {<<c, s.id>> : c \in Ends(role)}}
    <3>1. PICK pairs : pairs = {<<c, s.id>> : c \in ends}
      OBVIOUS
    <3> QED BY <2>1, <2>2, <2>3, <2>4, <2>5, <3>1 DEF Into, Ends
  <2>7. OutOf(t, s, role) = {<<NamedEndpoint(t, p[1]), NamedEndpoint(t, p[2])>> : p \in {<<s.id, c>> : c \in Ends(role)}}
    <3>1. PICK pairs : pairs = {<<s.id, c>> : c \in ends}
      OBVIOUS
    <3> QED BY <2>1, <2>2, <2>3, <2>4, <2>5, <3>1 DEF OutOf, Ends
  <2>8. \A c \in EndsOf(t, s, role) : NameIn(t, c) \in NamesOf(t)
    BY <2>1 DEF Ends
  <2>9. Into(t, s, role) \subseteq NamesOf(t) \X NamesOf(t)
    BY <2>2, <2>8 DEF Into
  <2>10. OutOf(t, s, role) \subseteq NamesOf(t) \X NamesOf(t)
    BY <2>2, <2>8 DEF OutOf
  <2> QED BY <2>6, <2>7, <2>9, <2>10
<1>5. ASSUME NEW pairs, NEW relations,
             relations = {<<NamedEndpoint(t, p[1]), NamedEndpoint(t, p[2])>> : p \in pairs}
      PROVE  /\ Fits(ExpectedResults(None, None, None, relations), RelationAnswer(t, pairs))
             /\ RelationAnswer(t, pairs).relations = relations
             /\ ExpectedResults(None, None, None, relations).relations = relations
  <2>1. PICK expected, output :
          /\ expected = ExpectedResults(None, None, None, relations)
          /\ output = RelationAnswer(t, pairs)
    OBVIOUS
  <2>2. /\ expected.files = None /\ expected.symbols = None /\ expected.tests = None
        /\ expected.relations = relations
        /\ expected = ExpectedResults(expected.files, expected.symbols, expected.tests, expected.relations)
    BY <2>1 DEF ExpectedResults
  <2>3. PICK files, symbols : output = RetrievalOutput(files, symbols, {}, relations)
    BY <1>5, <2>1 DEF RelationAnswer
  <2>4. /\ output.relations = relations
        /\ output = RetrievalOutput(output.files, output.symbols, output.tests, output.relations)
    BY <2>3 DEF RetrievalOutput
  <2> QED BY <2>1, <2>2, <2>4 DEF Fits
<1>6. CASE kind = "find_callers"
  <2>1. answer = RelationAnswer(t, {<<c, s.id>> : c \in Ends("caller")})
    <3>1. answer = RelationAnswer(t, {<<c, f.id>> : c \in SemanticFacts(t, f.id).callers})
      BY <1>6, AnswerByKind, Zenon
    <3> HIDE DEF f, answer
    <3> QED BY <1>1, <1>2, <3>1
  <2>2. Annotated(t, kind, s) = ExpectedResults(None, None, None, Into(t, s, "caller"))
    BY <1>6, AnnotatedByKind
  <2> HIDE DEF answer
  <2> QED BY <1>4, <1>5, <2>1, <2>2 DEF answer
<1>7. CASE kind = "find_callees"
  <2>1. answer = RelationAnswer(t, {<<s.id, c>> : c \in Ends("callee")})
    <3>1. answer = RelationAnswer(t, {<<f.id, c>> : c \in SemanticFacts(t, f.id).callees})
      BY <1>7, AnswerByKind, Zenon
    <3> HIDE DEF f, answer
    <3> QED BY <1>1, <1>2, <3>1
  <2>2. Annotated(t, kind, s) = ExpectedResults(None, None, None, OutOf(t, s, "callee"))
    BY <1>7, AnnotatedByKind
  <2> HIDE DEF answer
  <2> QED BY <1>4, <1>5, <2>1, <2>2 DEF answer
<1> QED BY <1>6, <1>7

(* The tests of a symbol are answered as they are annotated, each being a   *)
(* case of some fixture.                                                    *)
LEMMA TestsFit ==
  ASSUME NEW t, FairRows(t), NEW s \in t.symbols
  PROVE  Fits(Annotated(t, "find_tests", s),
              IdentityAnswer(t, IdentityQuery("find_tests", Symbol(s)), SymbolFrom(t, s)))
<1> DEFINE f == SymbolFrom(t, s)
           answer == IdentityAnswer(t, IdentityQuery("find_tests", Symbol(s)), f)
           entities == {e \in t.entities : \E r \in t.tests : r.case = e.id /\ r.symbol = s.id}
<1>1. f.id = s.id
  BY RowIsNamed
<1>2. TestCasesForSymbol(t, s.id) = CaseRows(t, entities)
  BY DEF TestCasesForSymbol, CaseRowsOfSymbol
<1>3. {[id |-> c.id, name |-> c.name, file |-> c.range.file] : c \in CaseRows(t, entities)} = TestsOf(t, s)
  <2>1. \A e \in entities : \E m \in t.members : m.case = e.id
    BY DEF FairRows
  <2>2. TestsOf(t, s) = {[id |-> e.id, name |-> e.name, file |-> e.range.file] : e \in entities}
    BY DEF TestsOf
  <2> HIDE DEF entities
  <2>3. \A c \in CaseRows(t, entities) : \E e \in entities : c.id = e.id /\ c.name = e.name /\ c.range = e.range
    <3> TAKE c \in CaseRows(t, entities)
    <3>1. PICK e \in entities, m \in t.members : c = Joined(t, e, m)
      BY JoinedRows
    <3> QED BY <3>1 DEF Joined
  <2>4. \A e \in entities : \E c \in CaseRows(t, entities) : c.id = e.id /\ c.name = e.name /\ c.range = e.range
    <3> TAKE e \in entities
    <3>1. PICK m \in t.members : m.case = e.id
      BY <2>1
    <3>2. Joined(t, e, m) \in CaseRows(t, entities)
      BY <3>1, JoinedRows
    <3> QED BY <3>2 DEF Joined
  <2>5. PICK cases : cases = CaseRows(t, entities)
    OBVIOUS
  <2>6. {[id |-> c.id, name |-> c.name, file |-> c.range.file] : c \in cases}
          = {[id |-> e.id, name |-> e.name, file |-> e.range.file] : e \in entities}
    BY <2>3, <2>4, <2>5
  <2> QED BY <2>2, <2>5, <2>6
<1> HIDE DEF entities
<1>4. PICK files : answer = RetrievalOutput(files, <<>>, TestsOf(t, s), {})
  <2>1. answer = RetrievalOutput({c.range.file : c \in TestCasesForSymbol(t, f.id)}, <<>>,
           {[id |-> c.id, name |-> c.name, file |-> c.range.file] : c \in TestCasesForSymbol(t, f.id)}, {})
    BY AnswerByKind, Zenon
  <2> HIDE DEF f, answer
  <2> QED BY <1>1, <1>2, <1>3, <2>1
<1>5. Annotated(t, "find_tests", s) = ExpectedResults(None, None, TestsOf(t, s), None)
  BY AnnotatedByKind
<1>6. PICK expected, output : expected = Annotated(t, "find_tests", s) /\ output = answer
  OBVIOUS
<1> HIDE DEF answer
<1>7. /\ expected.files = None /\ expected.symbols = None /\ expected.relations = None
      /\ expected.tests = TestsOf(t, s)
      /\ expected = ExpectedResults(expected.files, expected.symbols, expected.tests, expected.relations)
  BY <1>5, <1>6 DEF ExpectedResults
<1>8. /\ output.tests = TestsOf(t, s)
      /\ output = RetrievalOutput(output.files, output.symbols, output.tests, output.relations)
  BY <1>4, <1>6 DEF RetrievalOutput
<1>9. Fits(expected, output)
  BY <1>7, <1>8 DEF Fits
<1> QED BY <1>6, <1>9 DEF answer

(* Every identity query is answered as it is annotated.                     *)
LEMMA IdentityFits ==
  ASSUME NEW t, FairRows(t), NEW s \in t.symbols, NEW kind \in IdentityKinds
  PROVE  Fits(Annotated(t, kind, s), IdentityAnswer(t, IdentityQuery(kind, Symbol(s)), SymbolFrom(t, s)))
<1>1. CASE kind \in {"find_declaration", "find_definition"}
  BY <1>1, PlacesFit, Zenon
<1>2. CASE kind = "find_references"
  BY <1>2, ReferencesFit, Zenon
<1>3. CASE kind \in {"find_callers", "find_callees"}
  BY <1>3, RelationsFit, Zenon
<1>4. CASE kind = "find_tests"
  BY <1>4, TestsFit, Zenon
<1> QED BY <1>1, <1>2, <1>3, <1>4 DEF IdentityKinds

(* Ranking a finite set lists its elements, each once.                      *)
LEMMA RankedLists ==
  ASSUME NEW S, IsFiniteSet(S)
  PROVE  Ranked(S) \in [1..Cardinality(S) -> S] /\ Elements(Ranked(S)) = S
<1>1. PICK n : n = Cardinality(S)
  OBVIOUS
<1>2. PICK f \in Bijection(1..n, S) : TRUE
  BY <1>1, FS_CardinalityType DEF ExistsBijection
<1>3. f \in [1..n -> S] /\ \A x \in S : \E i \in 1..n : f[i] = x
  BY <1>2 DEF Bijection, Injection, Surjection
<1>4. Elements(f) = S
  BY <1>3 DEF Elements
<1>5. \E seq \in [1..Cardinality(S) -> S] : Elements(seq) = S
  BY <1>1, <1>3, <1>4
<1> QED BY <1>5 DEF Ranked

SymbolsOf(found) == {Symbol(x) : x \in found}

\* An execution lists what was found, all of it where there is no limit.
Lists(e, found, limit) ==
  /\ e.failures = {}
  /\ e.output = RetrievalOutput(e.output.files, e.output.symbols, e.output.tests, e.output.relations)
  /\ Elements(e.output.symbols) \subseteq SymbolsOf(found)
  /\ limit = None => Elements(e.output.symbols) = SymbolsOf(found)
  /\ \E n \in Nat \ {0} : DOMAIN e.output.symbols = 1..n
  /\ limit = 1 => DOMAIN e.output.symbols = 1..1

(* A search lists, without a limit, all it finds; with the limit 1, one.    *)
LEMMA SearchRanks ==
  ASSUME NEW t, NEW match, NEW name, NEW limit, NEW found, IsFiniteSet(found), found # {},
         limit = None \/ limit = 1,
         found = IF match = "display_name" THEN FindByName(t, name) ELSE FindByQualifiedName(t, name)
  PROVE  /\ SearchSymbol(match, name, limit).kind = "search_symbol"
         /\ Lists(Execute(t, SearchSymbol(match, name, limit)), found, limit)
<1> DEFINE q == SearchSymbol(match, name, limit)
           all == Ranked(found)
           kept == IF limit = None \/ limit >= Len(all) THEN all ELSE SubSeq(all, 1, limit)
<1>1. q.kind = "search_symbol" /\ q.match = match /\ q.name = name /\ q.limit = limit
  BY DEF SearchSymbol
<1>2. all \in [1..Cardinality(found) -> found] /\ Elements(all) = found
  BY RankedLists
<1>3. Cardinality(found) \in Nat \ {0}
  BY FS_CardinalityType, FS_EmptySet
<1>4. SearchAnswer(t, q).symbols = [i \in DOMAIN kept |-> Symbol(kept[i])]
      /\ \E files : SearchAnswer(t, q) = RetrievalOutput(files, SearchAnswer(t, q).symbols, {}, {})
  <2>1. (IF q.match = "display_name" THEN FindByName(t, q.name) ELSE FindByQualifiedName(t, q.name)) = found
    BY <1>1
  <2>2. (IF q.limit = None \/ q.limit >= Len(all) THEN all ELSE SubSeq(all, 1, q.limit)) = kept
    BY <1>1
  <2> HIDE DEF q
  <2>3. PICK names : names = [i \in DOMAIN kept |-> Symbol(kept[i])]
    OBVIOUS
  <2>4. PICK files : SearchAnswer(t, q) = RetrievalOutput(files, names, {}, {})
    BY <2>1, <2>2, <2>3 DEF SearchAnswer
  <2>5. SearchAnswer(t, q).symbols = names
    BY <2>4 DEF RetrievalOutput
  <2> QED BY <2>3, <2>4, <2>5
<1>5. Execute(t, q) = [output |-> SearchAnswer(t, q), failures |-> {}]
  BY <1>1 DEF Execute
<1>6. /\ limit = None => kept = all
      /\ limit = 1 => kept \in [1..1 -> found]
  <2>1. CASE limit = None
    BY <2>1, NoneAssumption
  <2>2. CASE limit = 1
    <3>1. limit # None
      BY <2>2, NoneAssumption
    <3> HIDE DEF all
    <3>2. PICK n \in Nat \ {0} : all \in [1..n -> found]
      BY <1>2, <1>3
    <3>3. Len(all) = n /\ all \in Seq(found)
      BY <3>2
    <3>4. CASE n = 1
      BY <2>2, <3>2, <3>3, <3>4
    <3>5. CASE n # 1
      <4>1. kept = SubSeq(all, 1, 1)
        BY <2>2, <3>1, <3>3, <3>5
      <4>2. SubSeq(all, 1, 1) = [i \in 1..1 |-> all[i]]
        BY <3>3
      <4>3. PICK first : first = [i \in 1..1 |-> all[i]]
        OBVIOUS
      <4>4. first \in [1..1 -> found]
        BY <3>2, <4>3
      <4> HIDE DEF kept
      <4> QED BY <2>2, <3>1, <4>1, <4>2, <4>3, <4>4
    <3> QED BY <3>4, <3>5
  <2>3. None # 1
    BY NoneAssumption
  <2> QED BY <2>1, <2>2, <2>3
<1>7. PICK names : names = [i \in DOMAIN kept |-> Symbol(kept[i])]
  OBVIOUS
<1>8. Elements(names) \subseteq {Symbol(x) : x \in found}
  <2>1. \A i \in DOMAIN kept : kept[i] \in found
    <3> HIDE DEF kept, all
    <3> QED BY <1>2, <1>6
  <2> HIDE DEF kept
  <2> QED BY <1>7, <2>1 DEF Elements
<1>9. limit = None => Elements(names) = {Symbol(x) : x \in found}
  <2> SUFFICES ASSUME kept = all PROVE Elements(names) = {Symbol(x) : x \in found}
    BY <1>6
  <2> HIDE DEF kept, all
  <2>1. \A x \in found : \E i \in DOMAIN all : all[i] = x
    BY <1>2 DEF Elements
  <2>2. \A i \in DOMAIN all : all[i] \in found
    BY <1>2
  <2> QED BY <1>7, <2>1, <2>2 DEF Elements
<1>10. /\ \E n \in Nat \ {0} : DOMAIN names = 1..n
       /\ limit = 1 => DOMAIN names = 1..1
  <2> HIDE DEF kept, all
  <2>1. DOMAIN names = DOMAIN kept
    BY <1>7
  <2>2. limit = None => DOMAIN kept = 1..Cardinality(found)
    BY <1>2, <1>6
  <2>3. limit = 1 => DOMAIN kept = 1..1
    BY <1>6
  <2>4. PICK n : n = IF limit = None THEN Cardinality(found) ELSE 1
    OBVIOUS
  <2>5. n \in Nat \ {0}
    BY <1>3, <2>4
  <2>6. DOMAIN names = 1..n
    BY <2>1, <2>2, <2>3, <2>4
  <2> QED BY <2>1, <2>3, <2>5, <2>6
<1>11. PICK output, files : output = SearchAnswer(t, q) /\ output = RetrievalOutput(files, names, {}, {})
  BY <1>4, <1>7
<1>12. output.symbols = names /\ output = RetrievalOutput(output.files, output.symbols, output.tests, output.relations)
  BY <1>11 DEF RetrievalOutput
<1>13. Execute(t, q).output = output /\ Execute(t, q).failures = {}
  BY <1>5, <1>11
<1> HIDE DEF kept, all
<1> QED BY <1>1, <1>8, <1>9, <1>10, <1>12, <1>13 DEF Lists, SymbolsOf, q

(* A case is its metrics and failures.                                      *)
LEMMA RunOf ==
  ASSUME NEW t, NEW q, NEW expected
  PROVE  /\ RunCase(t, q, expected).metrics = Metrics(q.kind, expected, Execute(t, q).output)
         /\ Execute(t, q).failures = {} =>
              RunCase(t, q, expected).failures = Failures(expected, Execute(t, q).output)
         /\ Execute(t, q).failures # {} => RunCase(t, q, expected).failures = Execute(t, q).failures
BY DEF RunCase

(* None is told apart from every annotation.                                *)
LEMMA NoneIsApart ==
  ASSUME NEW t, FairRows(t)
  PROVE  /\ None # {}
         /\ \A S : S \subseteq NamesOf(t) \cup {<<None, None>>} => S # None
         /\ \A S : S \subseteq NamesOf(t) \X NamesOf(t) => S # None
BY DEF FairRows, NoneApartFrom

\* The case of the suite for one symbol.
CaseFor(t, kind, s) == RunCase(t, IdentityQuery(kind, Symbol(s)), Annotated(t, kind, s))

(* It passes and measures 1.                                                *)
LEMMA CasePasses ==
  ASSUME NEW t, FairRows(t), NEW kind \in IdentityKinds, NEW s \in t.symbols
  PROVE  /\ Passed(CaseFor(t, kind, s)) /\ Full(CaseFor(t, kind, s).metrics.files)
         /\ Full(CaseFor(t, kind, s).metrics.symbols) /\ Full(CaseFor(t, kind, s).metrics.tests)
         /\ CaseFor(t, kind, s).metrics.relations # FALSE
<1>1. PICK q, expected, output :
        /\ q = IdentityQuery(kind, Symbol(s)) /\ expected = Annotated(t, kind, s)
        /\ output = IdentityAnswer(t, q, SymbolFrom(t, s))
  OBVIOUS
<1>2. Execute(t, q).failures = {} /\ Execute(t, q).output = output
  BY <1>1, RowIsNamed
<1>3. Fits(expected, output)
  BY <1>1, IdentityFits
<1>4. None # {}
  BY NoneIsApart
<1>5. /\ Failures(expected, output) = {}
      /\ LET m == Metrics(q.kind, expected, output)
         IN Full(m.files) /\ Full(m.symbols) /\ Full(m.tests) /\ m.relations # FALSE
  BY <1>3, <1>4, FitPasses, Zenon
<1>6. /\ RunCase(t, q, expected).metrics = Metrics(q.kind, expected, output)
      /\ RunCase(t, q, expected).failures = {}
  BY <1>2, <1>5, RunOf
<1>7. CaseFor(t, kind, s) = RunCase(t, q, expected)
  BY <1>1 DEF CaseFor
<1> QED BY <1>5, <1>6, <1>7 DEF Passed

(* So does the suite that annotates every symbol with every kind of query.  *)
LEMMA SuitePasses ==
  ASSUME NEW t, FairRows(t)
  PROVE  LET Case(kind, s) == RunCase(t, IdentityQuery(kind, Symbol(s)), Annotated(t, kind, s))
             summary == Summarize({Case(p[1], p[2]) : p \in IdentityKinds \X t.symbols})
         IN summary.failed = 0 /\ summary.perfect
<1> DEFINE results == {CaseFor(t, p[1], p[2]) : p \in IdentityKinds \X t.symbols}
<1>1. ASSUME NEW r \in results PROVE \E kind \in IdentityKinds, s \in t.symbols : r = CaseFor(t, kind, s)
  OBVIOUS
<1> HIDE DEF results
<1>2. \A r \in results : /\ Passed(r) /\ Full(r.metrics.files) /\ Full(r.metrics.symbols)
                         /\ Full(r.metrics.tests) /\ r.metrics.relations # FALSE
  <2>1. \A r \in results : \E kind \in IdentityKinds, s \in t.symbols : r = CaseFor(t, kind, s)
    BY <1>1
  <2> QED BY <2>1, CasePasses
<1>3. {r \in results : ~Passed(r)} = {}
  BY <1>2
<1>4. Summarize(results).failed = 0 /\ Summarize(results).perfect
  BY <1>2, <1>3, FS_EmptySet DEF Summarize
<1> QED BY <1>4, Zenon DEF results, CaseFor

(* Of symbols annotated together, an answer of all of them mismatches        *)
(* exactly if two have one qualified name.                                  *)
LEMMA OverloadsMismatch ==
  ASSUME NEW t, FairRows(t), NEW names, names \subseteq NamesOf(t)
  PROVE  Mismatched(names, names) <=> Overloaded(names)
<1>1. \A a, b \in names : a[1] = b[1] => a = b
  <2>1. \A x, y \in t.symbols : x.id = y.id => x = y
    BY SchemaClauses DEF FairRows, TablesOK
  <2>2. ASSUME NEW a \in names, NEW b \in names, a[1] = b[1] PROVE a = b
    <3>1. PICK x \in t.symbols, y \in t.symbols : a = Symbol(x) /\ b = Symbol(y)
      BY DEF NamesOf
    <3>2. x.id = y.id
      BY <2>2, <3>1 DEF Symbol
    <3> QED BY <2>1, <3>1, <3>2
  <2> QED BY <2>2
<1>2. ASSUME NEW a \in names, NEW key \in {1, 2}
      PROVE  Listed(names, key, a[key]) \in names /\ Listed(names, key, a[key])[key] = a[key]
  BY DEF Listed
<1>3. ASSUME Mismatched(names, names) PROVE Overloaded(names)
  <2>1. PICK a \in names, key \in {1, 2} : Listed(names, key, a[key]) # a
    BY <1>3 DEF Mismatched
  <2>2. PICK e : e = Listed(names, key, a[key])
    OBVIOUS
  <2>3. e \in names /\ e[key] = a[key] /\ e # a
    BY <1>2, <2>1, <2>2
  <2>4. key = 2
    BY <1>1, <2>3
  <2> QED BY <2>3, <2>4 DEF Overloaded
<1>4. ASSUME Overloaded(names) PROVE Mismatched(names, names)
  <2>1. PICK a \in names, b \in names : a # b /\ a[2] = b[2]
    BY <1>4 DEF Overloaded
  <2>2. Listed(names, 2, a[2]) # a \/ Listed(names, 2, b[2]) # b
    BY <2>1
  <2> QED BY <2>2 DEF Mismatched
<1> QED BY <1>3, <1>4

(* All symbols of a name, in the order of the answer, and the best of them. *)
LEMMA SearchIsFair ==
  ASSUME NEW t, FairRows(t), NEW s \in t.symbols, NEW match \in DOMAIN Searched
  PROVE  FairSearch(t, match, s[Searched[match]])
<1> DEFINE rows == {r \in t.symbols : r[Searched[match]] = s[Searched[match]]}
           names == {Symbol(r) : r \in rows}
           expected == ExpectedResults(None, names, None, None)
<1>1. PICK name, found : /\ name = s[Searched[match]]
                         /\ found = {SymbolFrom(t, r) : r \in rows}
  OBVIOUS
<1>2. found = IF match = "display_name" THEN FindByName(t, name) ELSE FindByQualifiedName(t, name)
  <2>1. CASE match = "display_name"
    <3>1. Searched[match] = "name"
      BY <2>1 DEF Searched
    <3> QED BY <1>1, <2>1, <3>1 DEF FindByName, Symbols, SymbolRowsBy
  <2>2. CASE match = "qualified_name"
    <3>1. Searched[match] = "qname"
      BY <2>2 DEF Searched
    <3> QED BY <1>1, <2>2, <3>1 DEF FindByQualifiedName, Symbols, SymbolRowsBy
  <2> QED BY <2>1, <2>2 DEF Searched
<1>3. rows \subseteq t.symbols /\ s \in rows
  OBVIOUS
<1> HIDE DEF rows
<1>4. IsFiniteSet(found) /\ found # {}
  <2>1. IsFiniteSet(rows)
    BY <1>3, FS_Subset DEF FairRows
  <2>2. [r \in rows |-> SymbolFrom(t, r)] \in Surjection(rows, found)
    BY <1>1 DEF Surjection
  <2> QED BY <1>1, <1>3, <2>1, <2>2, FS_Surjection
<1>5. SymbolsOf(found) = names
  <2>1. \A r \in rows : Symbol(SymbolFrom(t, r)) = Symbol(r)
    BY <1>3, RowIsNamed
  <2> QED BY <1>1, <2>1 DEF SymbolsOf
<1>6. names \subseteq NamesOf(t) /\ names # {}
  BY <1>3 DEF NamesOf
<1> HIDE DEF names
<1>7. names # None
  BY <1>6, NoneIsApart
<1>8. /\ expected.files = None /\ expected.symbols = names /\ expected.tests = None
      /\ expected.relations = None
      /\ expected = ExpectedResults(expected.files, expected.symbols, expected.tests, expected.relations)
  BY DEF ExpectedResults
<1> HIDE DEF expected
<1>9. ASSUME NEW limit \in {None, 1}
      PROVE  LET q == SearchSymbol(match, name, limit)
                 output == Execute(t, q).output
             IN /\ RunCase(t, q, expected).metrics = Metrics("search_symbol", expected, output)
                /\ RunCase(t, q, expected).failures = Failures(expected, output)
                /\ Elements(output.symbols) \subseteq names
                /\ limit = None => Elements(output.symbols) = names
                /\ limit = 1 => Cardinality(Elements(output.symbols)) = 1
                /\ Metrics("search_symbol", expected, output).first = 1
  <2>1. PICK q, output : q = SearchSymbol(match, name, limit) /\ output = Execute(t, q).output
    OBVIOUS
  <2>2. /\ Execute(t, q).failures = {} /\ q.kind = "search_symbol"
        /\ Elements(output.symbols) \subseteq names
        /\ limit = None => Elements(output.symbols) = names
        /\ \E n \in Nat \ {0} : DOMAIN output.symbols = 1..n
        /\ limit = 1 => DOMAIN output.symbols = 1..1
    <3>1. q.kind = "search_symbol" /\ Lists(Execute(t, q), found, limit)
      BY <1>2, <1>4, <2>1, SearchRanks
    <3> QED BY <1>5, <2>1, <3>1 DEF Lists
  <2>3. limit = 1 => Cardinality(Elements(output.symbols)) = 1
    <3>1. limit = 1 => Elements(output.symbols) = {output.symbols[1]}
      BY <2>2 DEF Elements
    <3> QED BY <3>1, FS_Singleton
  <2>4. Metrics("search_symbol", expected, output).first = 1
    <3>1. PICK n \in Nat \ {0} : DOMAIN output.symbols = 1..n
      BY <2>2
    <3>2. {i \in DOMAIN output.symbols : output.symbols[i] \in expected.symbols} = 1..n
      BY <1>8, <2>2, <3>1 DEF Elements
    <3>3. Lowest(1..n) = 1
      <4>1. \E i \in 1..n : \A j \in 1..n : i <= j
        BY <3>1
      <4>2. Lowest(1..n) \in 1..n /\ \A j \in 1..n : Lowest(1..n) <= j
        BY <4>1 DEF Lowest
      <4> QED BY <3>1, <4>2
    <3>4. expected.symbols \notin {None, {}} /\ 1..n # {}
      <4>1. 1 \in 1..n
        BY <3>1
      <4> QED BY <1>6, <1>7, <1>8, <4>1
    <3> QED BY <3>2, <3>3, <3>4 DEF Metrics
  <2> QED BY <2>1, <2>2, <2>3, <2>4, RunOf
<1>10. PICK all : all = RunCase(t, SearchSymbol(match, name, None), expected)
  OBVIOUS
<1>11. /\ all.failures = IF Overloaded(names) THEN {"symbol_identity_mismatch"} ELSE {}
       /\ Full(all.metrics.symbols) /\ all.metrics.first = 1
  <2>1. PICK output : output = Execute(t, SearchSymbol(match, name, None)).output
    OBVIOUS
  <2>2. /\ all.metrics = Metrics("search_symbol", expected, output)
        /\ all.failures = Failures(expected, output)
        /\ Elements(output.symbols) = names /\ all.metrics.first = 1
    BY <1>9, <1>10, <2>1
  <2>3. output # NoOutput
    <3>1. Elements(NoOutput.symbols) = {}
      BY DEF NoOutput, RetrievalOutput, Elements
    <3> QED BY <1>6, <2>2, <3>1
  <2>4. \A c : c \in Failures(expected, output) <=> c = "symbol_identity_mismatch" /\ Mismatched(names, names)
    <3>1. ASSUME NEW c \in Failures(expected, output)
          PROVE  c = "symbol_identity_mismatch" /\ Mismatched(names, names)
      <4>1. PICK symbols : symbols = Elements(output.symbols)
        OBVIOUS
      <4>2. \/ c = "target_symbol_miss" /\ ~(expected.symbols \subseteq symbols)
            \/ c = "symbol_identity_mismatch" /\ Mismatched(expected.symbols, symbols)
            \/ c = "unexpected_symbol" /\ expected.symbols = {}
            \/ c = "unexpected_file" /\ expected.files = {}
            \/ c = "unexpected_test" /\ expected.tests = {}
        BY <1>8, <2>3, <3>1, <4>1, FailureClauses
      <4>3. None # {}
        BY NoneIsApart
      <4> QED BY <1>6, <1>8, <2>2, <4>1, <4>2, <4>3
    <3>2. Mismatched(names, names) => "symbol_identity_mismatch" \in Failures(expected, output)
      BY <1>7, <1>8, <2>2, FailureClauses
    <3> QED BY <3>1, <3>2
  <2>5. Mismatched(names, names) <=> Overloaded(names)
    BY <1>6, OverloadsMismatch
  <2>6. Full(all.metrics.symbols)
    <3>1. all.metrics.symbols = Measured(names, names)
      BY <1>8, <2>2 DEF Metrics
    <3>2. Measured(names, names) = [hit |-> Cardinality(names), of |-> Cardinality(names)]
      BY <1>7 DEF Measured, Recall
    <3> QED BY <3>1, <3>2 DEF Full
  <2> QED BY <2>2, <2>4, <2>5, <2>6
<1>12. PICK best : best = RunCase(t, SearchSymbol(match, name, 1), expected).metrics
  OBVIOUS
<1>13. best.symbols.hit = 1 /\ best.first = 1
  <2>1. PICK output : output = Execute(t, SearchSymbol(match, name, 1)).output
    OBVIOUS
  <2>2. /\ best = Metrics("search_symbol", expected, output)
        /\ Elements(output.symbols) \subseteq names /\ Cardinality(Elements(output.symbols)) = 1
        /\ best.first = 1
    BY <1>9, <1>12, <2>1
  <2>3. best.symbols = Measured(names, Elements(output.symbols))
    BY <1>8, <2>2 DEF Metrics
  <2>4. names \cap Elements(output.symbols) = Elements(output.symbols)
    BY <2>2
  <2>5. best.symbols = [hit |-> 1, of |-> Cardinality(names)]
    BY <1>7, <2>2, <2>3, <2>4 DEF Measured, Recall
  <2> QED BY <2>2, <2>5
<1> QED BY <1>1, <1>10, <1>11, <1>12, <1>13 DEF FairSearch, expected, names, rows

(* Every relation has named ends, and the answer to a query does not pass   *)
(* where the annotation lacks one of them.                                  *)
LEMMA MissingRelationFails ==
  ASSUME NEW t, FairRows(t), NEW s \in t.symbols, NEW kind \in {"find_callers", "find_callees"},
         NEW r \in Annotated(t, kind, s).relations
  PROVE  /\ r[1][2] # None /\ r[2][2] # None
         /\ ~Passed(RunCase(t, IdentityQuery(kind, Symbol(s)),
                            ExpectedResults(None, None, None, Annotated(t, kind, s).relations \ {r})))
<1>1. PICK q, relations, expected, output :
        /\ q = IdentityQuery(kind, Symbol(s)) /\ relations = Annotated(t, kind, s).relations
        /\ expected = ExpectedResults(None, None, None, relations \ {r})
        /\ output = IdentityAnswer(t, q, SymbolFrom(t, s))
  OBVIOUS
<1>2. relations = output.relations /\ relations \subseteq NamesOf(t) \X NamesOf(t) /\ r \in relations
  BY <1>1, RelationsFit
<1>3. Execute(t, q).failures = {} /\ Execute(t, q).output = output
  BY <1>1, RowIsNamed DEF IdentityKinds
<1>4. r[1][2] # None /\ r[2][2] # None
  <2>1. PICK a \in t.symbols, b \in t.symbols : r = <<Symbol(a), Symbol(b)>>
    BY <1>2 DEF NamesOf
  <2>2. Symbol(a)[2] # None /\ Symbol(b)[2] # None
    BY DEF Symbol, FairRows
  <2> QED BY <2>1, <2>2
<1>5. expected.relations # None /\ ~(output.relations \subseteq expected.relations)
  <2>1. expected.relations = relations \ {r}
    BY <1>1 DEF ExpectedResults
  <2>2. relations \ {r} \subseteq NamesOf(t) \X NamesOf(t)
    BY <1>2
  <2> QED BY <1>2, <2>1, <2>2, NoneIsApart
<1>6. "unexpected_direct_relation" \in Failures(expected, output)
  <2>1. expected = ExpectedResults(expected.files, expected.symbols, expected.tests, expected.relations)
    BY <1>1 DEF ExpectedResults
  <2> QED BY <1>5, <2>1, FailureClauses
<1>7. RunCase(t, q, expected).failures # {}
  BY <1>3, <1>6, RunOf
<1>8. ~Passed(RunCase(t, q, expected))
  BY <1>7 DEF Passed
<1> QED BY <1>1, <1>4, <1>8

(* A target more than the rows hold fails the case and is measured.         *)
LEMMA ExtraTargetFails ==
  ASSUME NEW t, FairRows(t), NEW s \in t.symbols
  PROVE  LET a == Annotated(t, "find_definition", s)
             r == RunCase(t, IdentityQuery("find_definition", Symbol(s)),
                          [a EXCEPT !.symbols = @ \cup {<<None, None>>}])
         IN ~Passed(r) /\ ~Full(r.metrics.symbols)
<1>1. PICK q, a, output :
        /\ q = IdentityQuery("find_definition", Symbol(s)) /\ a = Annotated(t, "find_definition", s)
        /\ output = IdentityAnswer(t, q, SymbolFrom(t, s))
  OBVIOUS
<1>2. Fits(a, output) /\ a.symbols = Elements(output.symbols)
  BY <1>1, PlacesFit
<1>3. Execute(t, q).failures = {} /\ Execute(t, q).output = output /\ q.kind = "find_definition"
  BY <1>1, RowIsNamed DEF IdentityKinds
<1>4. PICK none : none = <<None, None>>
  OBVIOUS
<1>5. a.symbols \subseteq {Symbol(s)} /\ none \notin a.symbols
  <2>1. a.symbols = NamedBy(t, s, FilesOf(t, s, "definition"))
    BY <1>1, AnnotatedByKind DEF ExpectedResults
  <2>2. a.symbols \subseteq {Symbol(s)}
    BY <2>1, RowIsNamed DEF NamedBy
  <2>3. Symbol(s) # none
    <3>1. Symbol(s)[2] # None /\ none[2] = None
      BY <1>4 DEF Symbol, FairRows
    <3> QED BY <3>1
  <2> QED BY <2>2, <2>3
<1>6. PICK expected : expected = [a EXCEPT !.symbols = @ \cup {none}]
  OBVIOUS
<1>7. /\ expected.symbols = a.symbols \cup {none}
      /\ expected = ExpectedResults(expected.files, expected.symbols, expected.tests, expected.relations)
  <2>1. a = ExpectedResults(a.files, a.symbols, a.tests, a.relations)
    BY <1>2 DEF Fits
  <2>2. expected = ExpectedResults(a.files, a.symbols \cup {none}, a.tests, a.relations)
    BY <1>6, <2>1 DEF ExpectedResults
  <2> QED BY <2>2 DEF ExpectedResults
<1>8. expected.symbols # None
  <2>1. expected.symbols \subseteq NamesOf(t) \cup {<<None, None>>}
    BY <1>4, <1>5, <1>7 DEF NamesOf
  <2> QED BY <2>1, NoneIsApart
<1>9. RunCase(t, q, expected).failures # {}
  <2>1. "target_symbol_miss" \in Failures(expected, output)
    <3>1. expected.symbols # None /\ ~(expected.symbols \subseteq Elements(output.symbols))
      BY <1>2, <1>5, <1>7, <1>8
    <3> QED BY <1>7, <3>1, FailureClauses
  <2> QED BY <1>3, <2>1, RunOf
<1>10. ~Full(RunCase(t, q, expected).metrics.symbols)
  <2>1. PICK hit, of : hit = Cardinality(a.symbols) /\ of = Cardinality(a.symbols \cup {none})
    OBVIOUS
  <2>2. hit \in Nat /\ of = hit + 1
    <3>1. IsFiniteSet(a.symbols)
      BY <1>5, FS_Singleton, FS_Subset
    <3>2. of = Cardinality(a.symbols) + 1
      BY <1>5, <2>1, <3>1, FS_AddElement
    <3> QED BY <2>1, <3>1, <3>2, FS_CardinalityType
  <2>3. RunCase(t, q, expected).metrics.symbols = [hit |-> hit, of |-> of]
    <3>1. RunCase(t, q, expected).metrics.symbols = Measured(expected.symbols, Elements(output.symbols))
      <4>1. RunCase(t, q, expected).metrics = Metrics("find_definition", expected, output)
        BY <1>3, RunOf
      <4> QED BY <4>1 DEF Metrics
    <3>2. expected.symbols \cap Elements(output.symbols) = a.symbols
      BY <1>2, <1>7
    <3> QED BY <1>7, <1>8, <2>1, <3>1, <3>2 DEF Measured, Recall
  <2>4. [hit |-> hit, of |-> of] # None
    <3>1. [hit |-> hit, of |-> of] \in [hit : Nat, of : Nat]
      BY <2>2
    <3> QED BY <3>1, NoneAssumption
  <2> QED BY <2>2, <2>3, <2>4 DEF Full
<1> QED BY <1>1, <1>4, <1>6, <1>9, <1>10 DEF Passed

(* An identity under a wrong name is rejected, though nothing is missed.    *)
LEMMA WrongNameIsRejected ==
  ASSUME NEW t, FairRows(t), NEW s \in t.symbols
  PROVE  LET r == RunCase(t, IdentityQuery("find_definition", <<s.id, None>>),
                          ExpectedResults({}, None, None, None))
         IN r.failures = {"query_rejected"} /\ Full(r.metrics.files)
<1>1. PICK q, expected :
        /\ q = IdentityQuery("find_definition", <<s.id, None>>)
        /\ expected = ExpectedResults({}, None, None, None)
  OBVIOUS
<1>2. q.kind = "find_definition" /\ q.symbol = <<s.id, None>> /\ q.symbol[1] = s.id
  BY <1>1 DEF IdentityQuery
<1>3. ExactSymbol(t, q) = None
  <2>1. PICK f : f = SymbolFrom(t, s)
    OBVIOUS
  <2>2. Get(t, s.id) = f
    BY <2>1, RowIsFound DEF FairRows
  <2>3. Symbol(f) = Symbol(s)
    BY <2>1, RowIsNamed
  <2>4. Symbol(s) # <<s.id, None>>
    BY DEF Symbol, FairRows
  <2> QED BY <1>2, <2>2, <2>3, <2>4 DEF ExactSymbol
<1>4. Execute(t, q) = [output |-> NoOutput, failures |-> {"query_rejected"}]
  BY <1>2, <1>3 DEF Execute
<1>5. /\ RunCase(t, q, expected).failures = {"query_rejected"}
      /\ RunCase(t, q, expected).metrics = Metrics("find_definition", expected, NoOutput)
  BY <1>2, <1>4, RunOf
<1>6. Full(Metrics("find_definition", expected, NoOutput).files)
  <2>1. expected.files = {} /\ NoOutput.files = {}
    BY <1>1 DEF ExpectedResults, NoOutput, RetrievalOutput
  <2>2. Metrics("find_definition", expected, NoOutput).files = Measured({}, {})
    BY <2>1 DEF Metrics
  <2>3. Measured({}, {}) = None \/ Measured({}, {}) = [hit |-> Cardinality({} \cap {}), of |-> Cardinality({})]
    BY DEF Measured, Recall
  <2>4. {} \cap {} = {}
    OBVIOUS
  <2> QED BY <2>2, <2>3, <2>4 DEF Full
<1> QED BY <1>1, <1>5, <1>6

(* So a benchmark over such rows is fair.                                   *)
LEMMA FairRowsAreFair ==
  ASSUME shown # None => FairRows(shown.rows)
  PROVE  BenchmarkIsFair
<1> SUFFICES ASSUME shown # None PROVE BenchmarkIsFair
  BY Zenon DEF BenchmarkIsFair
<1> DEFINE t == shown.rows
           Against(kind, s, q, expected) == RunCase(t, IdentityQuery(kind, q), expected)
<1>1. FairRows(t)
  OBVIOUS
<1>2. LET summary == Summarize({RunCase(t, IdentityQuery(p[1], Symbol(p[2])), Annotated(t, p[1], p[2])) :
                                  p \in IdentityKinds \X t.symbols})
      IN summary.failed = 0 /\ summary.perfect
  BY <1>1, SuitePasses, Zenon
<1>3. ASSUME NEW s \in t.symbols
      PROVE  /\ \A match \in DOMAIN Searched : FairSearch(t, match, s[Searched[match]])
             /\ \A kind \in {"find_callers", "find_callees"} :
                  LET relations == Annotated(t, kind, s).relations IN
                    /\ \A r \in relations : r[1][2] # None /\ r[2][2] # None
                    /\ \A r \in relations :
                         ~Passed(Against(kind, s, Symbol(s), ExpectedResults(None, None, None, relations \ {r})))
             /\ LET a == Annotated(t, "find_definition", s)
                    r == Against("find_definition", s, Symbol(s), [a EXCEPT !.symbols = @ \cup {<<None, None>>}])
                IN ~Passed(r) /\ ~Full(r.metrics.symbols)
             /\ LET r == Against("find_definition", s, <<s.id, None>>, ExpectedResults({}, None, None, None))
                IN r.failures = {"query_rejected"} /\ Full(r.metrics.files)
  <2> HIDE DEF t
  <2>1. \A match \in DOMAIN Searched : FairSearch(t, match, s[Searched[match]])
    BY <1>1, SearchIsFair, Zenon
  <2>2. ASSUME NEW kind \in {"find_callers", "find_callees"}
        PROVE  LET relations == Annotated(t, kind, s).relations IN
                 /\ \A r \in relations : r[1][2] # None /\ r[2][2] # None
                 /\ \A r \in relations :
                      ~Passed(Against(kind, s, Symbol(s), ExpectedResults(None, None, None, relations \ {r})))
    BY <1>1, <2>2, MissingRelationFails, Zenon
  <2>3. LET a == Annotated(t, "find_definition", s)
            r == Against("find_definition", s, Symbol(s), [a EXCEPT !.symbols = @ \cup {<<None, None>>}])
        IN ~Passed(r) /\ ~Full(r.metrics.symbols)
    BY <1>1, ExtraTargetFails, Zenon
  <2>4. LET r == Against("find_definition", s, <<s.id, None>>, ExpectedResults({}, None, None, None))
        IN r.failures = {"query_rejected"} /\ Full(r.metrics.files)
    BY <1>1, WrongNameIsRejected, Zenon
  <2> HIDE DEF Against
  <2> QED BY <2>1, <2>2, <2>3, <2>4, Zenon
<1> QED BY <1>2, <1>3, Zenon DEF BenchmarkIsFair

---------------------------------------------------------------------------
(* What is committed is fair to measure.                                    *)

(* There is an end to the references of a symbol.                           *)
LEMMA ReferencesFinite ==
  ASSUME world \in Worlds \cup Edits, NEW id
  PROVE  IsFiniteSet(FactOf(id).references)
<1> DEFINE named(f) == {i \in Where(world.sources[f], "word") :
                          world.sources[f][i].span = 0 /\ world.sources[f][i].name = id}
           places(f) == {At(f, i, 0, 1) : i \in named(f)}
           all == {places(f) : f \in DOMAIN world.sources}
<1>1. ReferencesTo(id) = UNION all
  BY DEF ReferencesTo
<1>2. ASSUME NEW f \in DOMAIN world.sources PROVE IsFiniteSet(places(f))
  <2>1. IsFiniteSet(named(f))
    <3>1. named(f) \subseteq DOMAIN world.sources[f]
      BY DEF Where
    <3>2. IsFiniteSet(DOMAIN world.sources[f])
      BY WorldsAssumption
    <3> QED BY <3>1, <3>2, FS_Subset
  <2> HIDE DEF named
  <2>2. [i \in named(f) |-> At(f, i, 0, 1)] \in Surjection(named(f), places(f))
    BY DEF Surjection
  <2> QED BY <2>1, <2>2, FS_Surjection
<1> HIDE DEF places
<1>3. IsFiniteSet(all)
  <2>1. [f \in DOMAIN world.sources |-> places(f)] \in Surjection(DOMAIN world.sources, all)
    BY DEF Surjection
  <2>2. IsFiniteSet(DOMAIN world.sources)
    BY WorldsAssumption
  <2> QED BY <2>1, <2>2, FS_Surjection
<1>4. IsFiniteSet(UNION all)
  BY <1>2, <1>3, FS_UNION
<1>5. FactOf(id).references = ReferencesTo(id) \/ FactOf(id).references = {}
  BY DEF FactOf
<1> QED BY <1>1, <1>4, <1>5, FS_EmptySet

\* An input of a world: nothing in it is made up, and no relation leads out.
OfWorld(input, w) ==
  /\ \A s \in input.symbols : s = Scalar(s) /\ s \in PartsIn(w) /\ Symbol(s) \in NamesIn(w)
  /\ \A f, g \in input.facts : f.id = g.id => f = g
  /\ \A f \in input.facts :
       /\ f = [id |-> f.id, references |-> f.references, callers |-> f.callers, callees |-> f.callees]
       /\ IsFiniteSet(f.references) /\ f.callers \cup f.callees \subseteq SymbolIds(input)

(* The rows made from it are fair.                                          *)
LEMMA FairTables ==
  ASSUME NEW w \in Worlds \cup Edits, NEW input, InputOK(input), OfWorld(input, w),
         NoneIsNoSet
  PROVE  FairRows(Tables(input))
<1> DEFINE t == Tables(input)
<1>1. /\ t.symbols = {RowOf(s) : s \in input.symbols}
      /\ t.ranges = Ranges(input) /\ t.references = References(input)
      /\ t.relations = Relations(input)
      /\ t.members = {[fixture |-> c.fixture, case |-> c.id] : c \in input.cases}
      /\ t.bodies = Bodies(input) /\ t.tests = TestReferences(input)
  BY RowsOfInput
<1>2. TablesOK(t) /\ \A a, b \in t.symbols : a.id = b.id => a = b
  BY TablesOfInput, SchemaClauses DEF TablesOK
<1>3. ASSUME NEW s \in input.symbols
      PROVE  /\ SymbolFrom(t, RowOf(s)) = s /\ RowOf(s) \in t.symbols
             /\ RowOf(s).id = s.id /\ RowOf(s).qname = s.qname
  BY SymbolAnswers DEF OfWorld, RowOf
<1>4. ASSUME NEW s \in input.symbols
      PROVE  IsFiniteSet({r.range : r \in ReferenceRows(t, s.id)})
  <2>1. {r.range : r \in ReferenceRows(t, s.id)} = SemanticFacts(t, s.id).references
    <3>1. Indexed(t, s.id)
      BY <1>3 DEF Indexed
    <3> HIDE DEF t
    <3> QED BY <3>1 DEF SemanticFacts
  <2>2. PICK held : held = SemanticFacts(t, s.id).references
    OBVIOUS
  <2>3. \A r \in held : \E f \in input.facts : f.id = s.id /\ r \in f.references
    BY <2>2, FactAnswers DEF OfWorld
  <2>4. CASE \E f \in input.facts : f.id = s.id
    <3>1. PICK f \in input.facts : f.id = s.id
      BY <2>4
    <3>2. held \subseteq f.references
      BY <2>3, <3>1 DEF OfWorld
    <3>3. IsFiniteSet(f.references)
      BY DEF OfWorld
    <3> QED BY <2>1, <2>2, <3>2, <3>3, FS_Subset
  <2>5. CASE ~\E f \in input.facts : f.id = s.id
    BY <2>1, <2>2, <2>3, <2>5, FS_EmptySet
  <2> QED BY <2>4, <2>5
<1> HIDE DEF t
<1>5. \A a \in t.symbols : \E s \in input.symbols : a = RowOf(s)
  BY <1>1
<1>6. ASSUME NEW a \in t.symbols
      PROVE  \E x \in Seen(w) : x.id = a.id /\ x.qname = a.qname
  <2>1. PICK s \in input.symbols : a = RowOf(s)
    BY <1>5
  <2>2. PICK x \in Seen(w) : Symbol(s) = Symbol(x)
    BY DEF OfWorld, NamesIn
  <2> QED BY <1>3, <2>1, <2>2 DEF Symbol
<1>7. IsFiniteSet(t.symbols)
  <2> DEFINE ids == {x.id : x \in Seen(w)}
  <2>1. IsFiniteSet(ids)
    <3>1. [x \in Seen(w) |-> x.id] \in Surjection(Seen(w), ids)
      BY DEF Surjection
    <3>2. IsFiniteSet(Seen(w))
      BY WorldsAssumption
    <3> QED BY <3>1, <3>2, FS_Surjection
  <2>2. [a \in t.symbols |-> a.id] \in Injection(t.symbols, ids)
    <3>1. \A a \in t.symbols : a.id \in ids
      BY <1>6
    <3> QED BY <1>2, <3>1 DEF Injection, IsInjective
  <2> QED BY <2>1, <2>2, FS_Injection
<1>8. ASSUME NEW a \in t.symbols
      PROVE  /\ a.qname # None /\ SymbolFrom(t, a) # None
             /\ IsFiniteSet({r.range : r \in ReferenceRows(t, a.id)})
  <2>1. a.qname # None
    BY <1>6, WorldsAssumption
  <2>2. PICK s \in input.symbols : a = RowOf(s)
    BY <1>5
  <2>3. s # None
    BY NoneAssumption DEF OfWorld
  <2> QED BY <1>3, <1>4, <2>1, <2>2, <2>3
<1>9. \A r \in t.ranges : r.range # None
  BY <1>1 DEF Ranges
<1>10. ASSUME NEW r \in t.relations PROVE \E a \in t.symbols : a.id = r.target
  <2>1. PICK f \in input.facts : r.target \in f.callers \cup f.callees
    BY <1>1 DEF Relations
  <2>2. PICK s \in input.symbols : s.id = r.target
    BY <2>1 DEF OfWorld, SymbolIds
  <2> QED BY <1>3, <2>2
<1>11. ASSUME NEW r \in t.tests PROVE \E m \in t.members : m.case = r.case
  <2>1. PICK b \in t.bodies : r.case = b.case
    BY <1>1 DEF TestReferences
  <2>2. PICK c \in input.cases : b.case = c.id
    BY <1>1 DEF Bodies
  <2>3. [fixture |-> c.fixture, case |-> c.id] \in t.members
    BY <1>1
  <2> QED BY <2>1, <2>2, <2>3
<1>12. NoneApartFrom(NamesOf(t))
  <2>1. NamesOf(t) \subseteq NamesIn(w)
    BY <1>6 DEF NamesOf, NamesIn, Symbol
  <2>2. NoneApartFrom(NamesIn(w))
    BY DEF NoneIsNoSet
  <2> QED BY <2>1, <2>2 DEF NoneApartFrom
<1> QED BY <1>2, <1>7, <1>8, <1>9, <1>10, <1>11, <1>12 DEF FairRows, t

\* What is committed, and what a reader still looks at, is fair to measure.
ServedOK == FairRows(committed) /\ (shown # None => FairRows(shown.rows))

(* So are the empty tables that a file begins with.                         *)
LEMMA InitServed ==
  ASSUME Init, NoneIsNoSet
  PROVE  ServedOK
<1>1. PICK input : input = [symbols |-> {}, files |-> {}, facts |-> {}, fixtures |-> {}, cases |-> {}]
  OBVIOUS
<1>2. InputOK(input) /\ OfWorld(input, world)
  BY <1>1 DEF InputOK, OfWorld, Located, Ambiguous, SymbolIds
<1>3. committed = Tables(input) /\ shown = None /\ world \in Worlds \cup Edits
  BY <1>1 DEF Init, NoTables
<1> QED BY <1>2, <1>3, FairTables DEF ServedOK

(* A commit writes what a build made of its world; a reader looks at what   *)
(* was committed.                                                           *)
LEMMA StepKeepsServed ==
  ASSUME BuildInv, WorkOK, MemoryOK, OriginOK, ServedOK, [Next]_vars, NoneIsNoSet
  PROVE  ServedOK'
<1>1. FairRows(committed)'
  <2>1. CASE Commit
    <3>1. PICK input, w : input = Input /\ w = world
      OBVIOUS
    <3>2. pc = "writing" /\ committed' = Tables(input)
      BY <2>1, <3>1 DEF Commit
    <3>3. InputOK(input) /\ w \in Worlds \cup Edits
      BY <3>1, <3>2, BuildInputIsSound DEF WorkOK
    <3>4. OfWorld(input, w)
      <4>1. input.symbols = work.symbols /\ input.facts = work.facts
        BY <3>1 DEF Input
      <4>2. \A s \in work.symbols : s = Scalar(s) /\ s \in PartsIn(w) /\ Symbol(s) \in NamesIn(w)
        BY <3>1, <3>2 DEF MemoryOK, OriginOK, Holding
      <4>3. \A f \in work.facts : f = FactOf(f.id)
        BY <3>2 DEF MemoryOK, Holding
      <4>4. SymbolIds(input) = Ids(work.symbols)
        BY <4>1, IdsOfSymbols DEF SymbolIds
      <4>5. ASSUME NEW f \in work.facts
            PROVE  /\ f = [id |-> f.id, references |-> f.references, callers |-> f.callers, callees |-> f.callees]
                   /\ IsFiniteSet(f.references) /\ f.callers \cup f.callees \subseteq SymbolIds(input)
        <5>1. f = FactOf(f.id)
          BY <4>3
        <5>2. PICK i, r, c, e : f = [id |-> i, references |-> r, callers |-> c, callees |-> e]
          BY <5>1 DEF FactOf
        <5>3. IsFiniteSet(f.references)
          BY <3>1, <3>3, <5>1, ReferencesFinite
        <5>4. f.callers \cup f.callees \subseteq SymbolIds(input)
          BY <3>2, <4>4 DEF OriginOK
        <5> QED BY <5>2, <5>3, <5>4
      <4>6. \A f, g \in work.facts : f.id = g.id => f = g
        BY <4>3
      <4> QED BY <4>1, <4>2, <4>5, <4>6 DEF OfWorld
    <3>5. FairRows(Tables(input))
      BY <3>3, <3>4, FairTables
    <3> QED BY <3>2, <3>5
  <2>2. CASE ~Commit
    <3>1. committed' = committed
      BY <2>2 DEF Next, vars, Begin, Edit, Discover, Collect, Relate, MergeAgain, OpenIndex, Validate,
             Write, BuildGraph, SaveGraph, Fail, Kill, OpenSealed, OpenLive, OnDisk
    <3> QED BY <3>1 DEF ServedOK
  <2> QED BY <2>1, <2>2
<1>2. shown' # None => FairRows(shown'.rows)
  <2>1. CASE shown' = shown
    BY <2>1 DEF ServedOK
  <2>2. CASE shown' # shown
    BY <2>2, ReaderSeesLastCommit DEF ServedOK
  <2> QED BY <2>1, <2>2
<1> QED BY <1>1, <1>2 DEF ServedOK

(* What is committed and what readers look at is always fair to measure:    *)
(* the transaction of replace_all leaves no relation without its endpoint,  *)
(* no test without its case and no symbol without a name.                   *)
THEOREM ServedInductive ==
  ASSUME NoneIsNoSet
  PROVE  Spec => []ServedOK
<1>1. Init => ServedOK
  BY InitServed
<1>2. BuildInv /\ WorkOK /\ MemoryOK /\ OriginOK /\ ServedOK /\ [Next]_vars => ServedOK'
  BY StepKeepsServed
<1> QED BY <1>1, <1>2, BuildInductive, WorkInductive, MemoryInductive, OriginInductive, PTL DEF Spec

(* A benchmark over the index that a reader opened is fair: what the rows   *)
(* hold of a symbol is what P1RetrievalExecutor answers and the scores see, *)
(* overloads included, and a true annotation fails only where two of its    *)
(* symbols are overloads of each other (runner.py:575).                     *)
THEOREM BenchmarkAlwaysFair ==
  ASSUME NoneIsNoSet
  PROVE  Spec => []BenchmarkIsFair
<1>1. ServedOK => BenchmarkIsFair
  BY FairRowsAreFair DEF ServedOK
<1> QED BY <1>1, ServedInductive, PTL
=============================================================================

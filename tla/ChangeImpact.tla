------------------------------ MODULE ChangeImpact ------------------------------
(***************************************************************************)
(* repository/dependency.py: which translation units a repository change   *)
(* affects, decided from the compilation databases and the compiler's      *)
(* dependency files of the revision before and of the revision after.      *)
(*                                                                         *)
(* A side is [tree, database, commands, exact, short, broken]: the files,  *)
(* whether compile_commands.json can be read, its entries <<source,        *)
(* arguments>>, the entries and the sources a depfile is registered for,   *)
(* and the sources whose depfile is missing or malformed.  The depfiles    *)
(* that can be read are those the compiler wrote for that side.            *)
(***************************************************************************)
EXTENDS Integers, FiniteSets

CONSTANTS
  Paths,          \* repository files
  Extension,      \* "source" (a translation unit), "header" or "other"
  Texts,          \* file contents
  Arguments,      \* compiler command lines
  Includes,       \* [Texts \X Arguments -> SUBSET Paths]: what a text includes
  Configuration,  \* the declared configuration files of the database provider
  Checkouts,      \* sides the first revision may be
  Absent,         \* no file, no path, no impact
  MaxEdits        \* bound on the edits of a behaviour

ASSUME PathsAssumption == Absent \notin Paths
ASSUME ExtensionAssumption == Extension \in [Paths -> {"source", "header", "other"}]

VARIABLES
  before,  \* the side the last semantic facts were produced from
  after,   \* the side that is there now
  impact,  \* the DependencyImpact of the step between them, or Absent
  edits

vars == <<before, after, impact, edits>>

-----------------------------------------------------------------------------
(* CompilationDatabaseProvider.load: all entries or none.  A configuration  *)
(* file that is gone, an entry that is no translation unit and an entry     *)
(* whose source is gone each make the whole database unknown.               *)
Unit(side, c) == [source |-> c[1], arguments |-> c[2],
                  configuration |-> [p \in Configuration |-> side.tree[p]]]

Loads(side) ==
  /\ side.database = "read"
  /\ \A p \in Configuration : side.tree[p] # Absent
  /\ \A c \in side.commands : c[1] \in Paths /\ Extension[c[1]] = "source" /\ side.tree[c[1]] # Absent

Units(side) == IF Loads(side) THEN {Unit(side, c) : c \in side.commands} ELSE {}

(* The files a compilation reads: the least set with the source that is     *)
(* closed under inclusion of files that exist.                              *)
ReadWith(side, u, S) ==
  /\ u.source \in S
  /\ \A p \in S, q \in Paths :
       q \in Includes[<<side.tree[p], u.arguments>>] /\ side.tree[q] # Absent => q \in S

Existing(side) == {p \in Paths : side.tree[p] # Absent}

Dependencies(side, u) ==
  LET closed == {S \in SUBSET Existing(side) : ReadWith(side, u, S)}
  IN  {p \in Paths : \A S \in closed : p \in S}

(* MakeDepfileDependencyProvider.load: the depfile registered for the exact *)
(* unit, or for its source when no other unit has that source.              *)
Alone(side, u) == \A v \in Units(side) : v.source = u.source => v = u

Registered(side, u) ==
  \/ <<u.source, u.arguments>> \in side.exact
  \/ Alone(side, u) /\ u.source \in side.short

Recorded(side) == {u \in Units(side) : Registered(side, u) /\ u.source \notin side.broken}

Coverage(side) ==
  IF ~Loads(side) \/ Units(side) = {} THEN "unknown"
  ELSE IF Recorded(side) # Units(side) THEN "partial" ELSE "complete"

-----------------------------------------------------------------------------
(* RepositoryChange and normalize_repository_changes: what a diff may say   *)
(* of two trees, with some of the files that went paired as renames with    *)
(* some that came; no path occurs twice on one side.                        *)
Change(old, new) == [old |-> old, new |-> new]

PathsOf(c) == {c.old, c.new} \ {Absent}

ChangeSets(old, new) ==
  LET gone == {p \in Paths : old.tree[p] # Absent /\ new.tree[p] = Absent}
      come == {p \in Paths : old.tree[p] = Absent /\ new.tree[p] # Absent}
      kept == {p \in Paths : old.tree[p] # new.tree[p]} \ (gone \union come)
  IN  {{Change(p, p) : p \in kept} \union {Change(r[1], r[2]) : r \in renames}
         \union {Change(p, Absent) : p \in {q \in gone : \A r \in renames : r[1] # q}}
         \union {Change(Absent, p) : p \in {q \in come : \A r \in renames : r[2] # q}}
       : renames \in {R \in SUBSET (gone \X come) :
                        \A r, s \in R : r[1] = s[1] \/ r[2] = s[2] => r = s}}

Touches(c, extension) == \E p \in PathsOf(c) : Extension[p] = extension

(* ReverseDependencyIndex of one side.                                      *)
Dependents(side, p) == {u \in Recorded(side) : p \in Dependencies(side, u)}

Own(side, p) == {u \in Units(side) : u.source = p}

(* A header's users as the revision before knew them, and no others.        *)
DependentsBefore(c) == UNION {Dependents(before, p) : p \in PathsOf(c)}

(* DependencyImpactAnalyzer.analyze, one change at a time.                  *)
DependentsOf(c) == UNION {Dependents(before, p) \union Dependents(after, p) : p \in PathsOf(c)}
OwnOf(c) == UNION {Own(before, p) \union Own(after, p) : p \in PathsOf(c)}

AffectedBy(c) ==
  (IF Touches(c, "header") THEN DependentsOf(c) ELSE {})
    \union (IF Touches(c, "source") THEN OwnOf(c) ELSE {})
    \union (IF PathsOf(c) \intersect Configuration # {} THEN Units(before) \union Units(after) ELSE {})

Affected(changes) ==
  (Units(before) \ Units(after)) \union (Units(after) \ Units(before))
    \union UNION {AffectedBy(c) : c \in changes}

(* The diagnostics that require a full rebuild.                             *)
Rebuild(changes) ==
  \/ \E side \in {before, after} : ~Loads(side) \/ Recorded(side) # Units(side)
  \/ \E c \in changes : Touches(c, "source") /\ OwnOf(c) = {}
  \/ \E c \in changes : Touches(c, "header") /\ {Coverage(before), Coverage(after)} # {"complete"}

Analysis(changes) ==
  [changes |-> changes, affected |-> Affected(changes),
   status |-> IF Rebuild(changes) THEN "full_rebuild_required"
              ELSE IF "unknown" \in {Coverage(before), Coverage(after)} THEN "unknown"
              ELSE "safe_incremental"]

-----------------------------------------------------------------------------
Init == before \in Checkouts /\ after = before /\ impact = Absent /\ edits = 0

Edit ==
  /\ impact = Absent /\ edits < MaxEdits
  /\ edits' = edits + 1
  /\ UNCHANGED <<before, impact>>

(* Files are written, added and removed.                                    *)
Write(p, t) == Edit /\ after.tree[p] # t /\ after' = [after EXCEPT !.tree[p] = t]

(* The build system changes the command of a source, or stops compiling it. *)
Reconfigure(c, new) == Edit /\ after' = [after EXCEPT !.commands = (@ \ {c}) \union new]

LoseDatabase(how) == Edit /\ after' = [after EXCEPT !.database = how]

LoseDepfile(p) == Edit /\ after' = [after EXCEPT !.broken = @ \union {p}]

Analyze ==
  /\ impact = Absent
  /\ \E changes \in ChangeSets(before, after) : impact' = Analysis(changes)
  /\ UNCHANGED <<before, after, edits>>

(* The facts are brought up to date and the next step begins.               *)
Advance ==
  /\ impact # Absent
  /\ before' = after /\ impact' = Absent
  /\ UNCHANGED <<after, edits>>

Next ==
  \/ \E p \in Paths : \E t \in Texts \union {Absent} : Write(p, t)
  \/ \E c \in after.commands : \E new \in SUBSET ({c[1]} \X Arguments) : Reconfigure(c, new)
  \/ \E how \in {"missing", "malformed"} : LoseDatabase(how)
  \/ \E p \in {c[1] : c \in after.commands} : LoseDepfile(p)
  \/ Analyze \/ Advance

Spec == Init /\ [][Next]_vars

-----------------------------------------------------------------------------
(* SemanticFingerprintInput: the files of a unit with their contents; the   *)
(* command and the configuration are part of the unit.                      *)
Fingerprint(side, u) == {<<p, side.tree[p]>> : p \in Dependencies(side, u)}

(* Files a unit reads besides its source that the analyzer does not take    *)
(* for headers: an included source, or a table included under another name. *)
Unusual(u) ==
  {p \in Dependencies(before, u) \union Dependencies(after, u) : p # u.source /\ Extension[p] # "header"}

(* What is left out of the affected set of a safe_incremental impact.       *)
LeftOut ==
  IF impact # Absent /\ impact.status = "safe_incremental"
    THEN (Units(before) \union Units(after)) \ impact.affected
    ELSE {}

Unchanged(u) ==
  u \in Units(before) \intersect Units(after) /\ Fingerprint(before, u) = Fingerprint(after, u)

(* `safe_incremental' means what it says: a unit that is left out of the    *)
(* affected set has the very fingerprint it had, whatever was edited,       *)
(* renamed, added where an include had been looked for in vain, or          *)
(* recompiled with other arguments.  The exception is named: a change to an *)
(* included file that does not have the extension of a header.              *)
SafeImpactIsComplete ==
  \A u \in LeftOut : Unchanged(u) \/ \E p \in Unusual(u) : before.tree[p] # after.tree[p]
=============================================================================

------------------------------ MODULE Knowledge ------------------------------
(***************************************************************************)
(* The records of the knowledge store (knowledge/model.py) and the pure    *)
(* freshness policy over them (knowledge/freshness.py).                    *)
(*                                                                         *)
(* A source tree is abstracted to its content, the commit HEAD names and a *)
(* stamp: the inode and time fields of a file's stat, which every write    *)
(* changes, also one that restores earlier bytes.  A build configuration   *)
(* (tools, flags, compile database, rule versions) is one value: the code  *)
(* only ever compares its digests.  A scope is the set of (channel, file)  *)
(* pairs it declares.                                                      *)
(***************************************************************************)
EXTENDS Naturals

CONSTANTS
    Revisions,   \* commits HEAD may name
    Contents,    \* states of the tracked files' bytes
    Tree,        \* the content each commit records
    Configs,     \* build configurations
    Scopes,      \* declared scopes, sets of (channel, file) pairs
    None         \* an absent optional value

ASSUME TreeAssumption == Tree \in [Revisions -> Contents]
ASSUME NoneAssumption ==
    /\ None \notin Revisions
    /\ None \notin Configs
    /\ None \notin Scopes

-----------------------------------------------------------------------------
Source == [rev : Revisions \cup {None}, content : Contents, stamp : Nat]

(* Porcelain status is not empty.  A checkout without a commit is refused  *)
(* before its status matters.                                              *)
Dirty(src) == src.rev = None \/ src.content # Tree[src.rev]

(* The artifacts of a snapshot are found under its generation.             *)
Snapshot == [gen : Nat, rev : Revisions, scope : Scopes,
             content : Contents, cfg : Configs]

Ended == {"succeeded", "failed", "cancelled"}

(* An attempt and the generation it targets are minted together, so one    *)
(* number names both.                                                      *)
BuildAttempt == [id : Nat, rev : Revisions \cup {None},
                 status : {"building"} \cup Ended]

Manifest == [usable : Snapshot \cup {None}, latest : BuildAttempt \cup {None}]

NoManifest == [usable |-> None, latest |-> None]

ASSUME NoneIsNoRecord == None \notin Snapshot /\ None \notin BuildAttempt
                                              /\ None \notin Source

(* KnowledgeManifest.validate.                                             *)
ValidManifest(m) ==
    /\ m.latest # None /\ m.latest.status = "succeeded" =>
         /\ m.usable # None
         /\ m.latest.id = m.usable.gen
         /\ m.latest.rev = m.usable.rev
    /\ m.latest # None /\ m.latest.status # "succeeded" /\ m.usable # None =>
         m.latest.id # m.usable.gen

Covers(declared, wanted) == wanted \subseteq declared

-----------------------------------------------------------------------------
(* evaluate_freshness.  src is the observed source, None when it could not *)
(* be observed; issues are the reasons found while reading artifacts, and  *)
(* those for which the records disagree among themselves (provenance,      *)
(* repository, digests, artifact generations and versions): each makes the *)
(* snapshot unknown.                                                       *)

Unknown(m, rev, src, issues) ==
    \/ issues # {}
    \/ m.usable = None
    \/ src = None
    \/ rev = None
    \/ src # None /\ src.rev = None

Stale(m, rev, cfg, src) ==
    \/ m.usable.rev # rev
    \/ src # None /\ \/ src.rev # m.usable.rev
                     \/ Dirty(src)
                     \/ src.content # m.usable.content
    \/ m.usable.cfg # cfg

SnapshotState(m, rev, cfg, src, issues) ==
    CASE Unknown(m, rev, src, issues) -> "unknown"
      [] ~Unknown(m, rev, src, issues) /\ Stale(m, rev, cfg, src) -> "stale"
      [] OTHER -> "fresh"

(* The latest attempt overrides the state of the snapshot.                 *)
Freshness(m, rev, cfg, src, issues) ==
    CASE m.latest # None /\ m.latest.status = "building" -> "building"
      [] m.latest # None /\ m.latest.status \in {"failed", "cancelled"} -> "failed"
      [] OTHER -> SnapshotState(m, rev, cfg, src, issues)

CanBind(m, rev, scope, cfg, src, issues) ==
    /\ Freshness(m, rev, cfg, src, issues) = "fresh"
    /\ Covers(m.usable.scope, scope)
=============================================================================

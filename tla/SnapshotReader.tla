---------------------------- MODULE SnapshotReader ----------------------------
(***************************************************************************)
(* PrebuiltSnapshotReader and SnapshotSession (knowledge/reader.py): a     *)
(* query process binds the last usable snapshot and reads it through a     *)
(* session, in guarded and possibly nested reads, while refreshes publish  *)
(* newer snapshots and anybody edits the source tree or damages an         *)
(* artifact.                                                               *)
(*                                                                         *)
(* The refreshes are those of KnowledgePublication, which the calls of     *)
(* KnowledgeRefresh implement.  A check (_check) is not atomic: its two    *)
(* observations of the source and its two hashings of the artifacts are    *)
(* steps of their own, and so is the opening of the index after it.  The   *)
(* session is single-threaded, as its docstring says.                      *)
(***************************************************************************)
EXTENDS KnowledgePublication, Sequences

CONSTANTS
    MaxDepth,        \* bound: reads of the session that are open at a time
    MaxDisturbances  \* bound: what happens to source and artifacts, and faults

ASSUME ReaderBounds == MaxDepth \in Nat /\ MaxDisturbances \in Nat

VARIABLES
    source,     \* the Git worktree
    artifact,   \* the artifact files of each generation
    disturbed,  \* disturbances so far: the clock of the stamps
    pc,         \* the step of the check in progress, or "ready"
    purpose,    \* what the check is for
    pinned,     \* the manifest the session (or its binding) was made from
    required,   \* the requirement it was made with
    check,      \* the locals of _check
    session,    \* SnapshotSession, None when there is none
    views,      \* its reads in progress, outermost first
    last        \* what the read just ended saw, None if it raised

world == <<source, artifact, disturbed>>
bound == <<pinned, required>>
vars  == <<published, world, pc, purpose, bound, check, session, views, last>>

-----------------------------------------------------------------------------
Requirement == [rev : Revisions, scope : Scopes, cfg : Configs]

(* SourceObservation | None, ArtifactObservation, diagnostics.             *)
(* since: when the source was observed first, for the properties.          *)
Check == [src : Source \cup {None}, stamp : Nat, graph : BOOLEAN,
          issues : SUBSET {"source", "artifact", "drift"}, since : Nat]

NoCheck == [src |-> None, stamp |-> 0, graph |-> FALSE, issues |-> {}, since |-> 0]

(* What the session keeps of its binding.  graph: it is the sealed one.    *)
Session == [src : Source, stamp : Nat, graph : BOOLEAN, closed : BOOLEAN, since : Nat]

ASSUME NoneIsNoSession == None \notin Session

(* BoundKnowledge, and what its reader has seen: states of the source, and *)
(* whether all it read of the index was sealed.                            *)
View == [index : BOOLEAN, seen : SUBSET Contents, sealed : BOOLEAN, raised : BOOLEAN]

Steps == {"load", "observe", "hash", "decode", "rehash", "confirm", "decide", "open"}

ReaderTypeOK ==
    /\ manifest \in Manifest
    /\ source \in Source
    /\ artifact \in [Ids -> [sealed : BOOLEAN, stamp : Nat]]
    /\ disturbed \in 0..MaxDisturbances
    /\ pc \in Steps \cup {"ready"}
    /\ purpose \in {"bind", "enter", "leave"}
    /\ pinned \in Manifest
    /\ required \in Requirement \cup {None}
    /\ check \in Check
    /\ session \in Session \cup {None}
    /\ views \in Seq(View) /\ Len(views) <= MaxDepth
    /\ last \in View \cup {None}

ReaderInit ==
    /\ Unpublished
    /\ source \in [rev : Revisions, content : Contents, stamp : {0}]
    /\ artifact = [id \in Ids |-> [sealed |-> TRUE, stamp |-> 0]]
    /\ disturbed = 0
    /\ pc = "ready"
    /\ purpose = "bind"
    /\ pinned = NoManifest
    /\ required = None
    /\ check = NoCheck
    /\ session = None
    /\ views = <<>>
    /\ last = None

-----------------------------------------------------------------------------
(* The world outside.  A stamp never repeats.                              *)

Disturb ==
    /\ disturbed < MaxDisturbances
    /\ disturbed' = disturbed + 1

WriteSource(c) ==
    /\ Disturb
    /\ source' = [source EXCEPT !.content = c, !.stamp = disturbed + 1]
    /\ UNCHANGED artifact

MoveHead(r) ==
    /\ Disturb
    /\ source.rev # r
    /\ source' = [source EXCEPT !.rev = r]
    /\ UNCHANGED artifact

(* Other bytes, or again the sealed ones.                                  *)
RewriteArtifact(id, sealed) ==
    /\ Disturb
    /\ manifest.usable # None /\ id <= manifest.usable.gen
    /\ artifact' = [artifact EXCEPT ![id] = [sealed |-> sealed, stamp |-> disturbed + 1]]
    /\ UNCHANGED source

Environment ==
    /\ \/ Publishing /\ UNCHANGED world
       \/ /\ \/ \E c \in Contents : WriteSource(c)
             \/ \E r \in Revisions : MoveHead(r)
             \/ \E id \in Ids, sealed \in BOOLEAN : RewriteArtifact(id, sealed)
          /\ UNCHANGED published
    /\ UNCHANGED <<pc, purpose, bound, check, session, views, last>>

-----------------------------------------------------------------------------
(* Helpers.                                                                *)

Snap == pinned.usable

Open == session # None /\ ~session.closed

Reading == views # <<>>

Top == views[Len(views)]

Pop == SubSeq(views, 1, Len(views) - 1)

(* An I/O or format error in a step that reads files.                      *)
Fault == Disturb /\ UNCHANGED <<source, artifact>>

NoFault == UNCHANGED world

Result == CanBind(pinned, required.rev, required.scope, required.cfg,
                  check.src, check.issues)

(* A mutant: a drift is another content, not another observation.          *)
DriftedInContent ==
    /\ check.src # None
    /\ <<check.src.rev, check.src.content>> # <<session.src.rev, session.src.content>>

Drifted == check.src # session.src \/ check.stamp # session.stamp

Invalidate == session' = [session EXCEPT !.closed = TRUE]

(* A mutant: the latest manifest is looked up again.                       *)
BeginCheckOfLatest(why) ==
    /\ pc' = "observe"
    /\ purpose' = why
    /\ pinned' = manifest
    /\ check' = NoCheck
    /\ UNCHANGED required

BeginCheck(why) ==
    /\ pc' = "observe"
    /\ purpose' = why
    /\ check' = NoCheck
    /\ UNCHANGED bound

NotBound == pinned' = NoManifest /\ required' = None

-----------------------------------------------------------------------------
(* bind.  A session bound before is given up.                              *)

Bind(req) ==
    /\ pc = "ready" /\ ~Reading
    /\ pc' = "load"
    /\ purpose' = "bind"
    /\ pinned' = manifest
    /\ required' = req
    /\ session' = None
    /\ last' = None
    /\ UNCHANGED <<published, world, check, views>>

(* The manifest is hashed before and after it is read; without a last      *)
(* usable snapshot the policy has nothing to observe.                      *)
Load ==
    /\ pc = "load"
    /\ \/ /\ manifest = pinned /\ Snap # None
          /\ BeginCheck("bind")
       \/ /\ manifest # pinned \/ Snap = None
          /\ pc' = "ready"
          /\ NotBound
          /\ UNCHANGED <<purpose, check>>
    /\ UNCHANGED <<published, world, session, views, last>>

-----------------------------------------------------------------------------
(* _check.                                                                 *)

CheckStep(from, to) ==
    /\ pc = from
    /\ pc' = to
    /\ UNCHANGED <<published, purpose, bound, session, views, last>>

Issue(i) == check' = [check EXCEPT !.issues = @ \cup {i}]

Observe ==
    /\ CheckStep("observe", "hash")
    /\ \/ NoFault /\ check' = [check EXCEPT !.src = source, !.since = disturbed]
       \/ Fault /\ Issue("source")

(* Without a seal to compare, nothing of the artifacts is decoded.         *)
HashArtifacts ==
    \/ /\ CheckStep("hash", "decode")
       /\ artifact[Snap.gen].sealed
       /\ check' = [check EXCEPT !.stamp = artifact[Snap.gen].stamp]
       /\ NoFault
    \/ /\ CheckStep("hash", "confirm")
       /\ Issue("artifact")
       /\ \/ ~artifact[Snap.gen].sealed /\ NoFault
          \/ Fault

(* What was altered since it was hashed may decode or not.                 *)
Decode ==
    \/ /\ CheckStep("decode", "rehash")
       /\ check' = [check EXCEPT !.graph = artifact[Snap.gen].sealed]
       /\ NoFault
    \/ /\ CheckStep("decode", "confirm")
       /\ Issue("artifact")
       /\ \/ ~artifact[Snap.gen].sealed /\ NoFault
          \/ Fault

(* A mutant: the hashes of before the decoding are good enough.            *)
RehashNothing ==
    /\ CheckStep("rehash", "confirm")
    /\ UNCHANGED <<check, world>>

Rehash ==
    /\ CheckStep("rehash", "confirm")
    /\ \/ /\ artifact[Snap.gen] = [sealed |-> TRUE, stamp |-> check.stamp]
          /\ UNCHANGED <<check, world>>
       \/ /\ artifact[Snap.gen] # [sealed |-> TRUE, stamp |-> check.stamp]
          /\ Issue("artifact") /\ NoFault
       \/ Fault /\ Issue("artifact")

(* Only a source that could be observed is observed again.                 *)
Confirm ==
    /\ CheckStep("confirm", "decide")
    /\ \/ check.src \in {None, source} /\ UNCHANGED <<check, world>>
       \/ check.src \notin {None, source} /\ Issue("drift") /\ NoFault
       \/ check.src # None /\ Fault /\ Issue("source")

-----------------------------------------------------------------------------
(* What becomes of a check.                                                *)

Decide(why) ==
    /\ pc = "decide" /\ purpose = why
    /\ check' = NoCheck
    /\ UNCHANGED <<published, world, purpose>>

Bound ==
    /\ Decide("bind")
    /\ pc' = "ready"
    /\ \/ /\ Result
          /\ session' = [src |-> check.src, stamp |-> check.stamp, graph |-> check.graph,
                         closed |-> FALSE, since |-> check.since]
          /\ UNCHANGED bound
       \/ ~Result /\ NotBound /\ UNCHANGED session
    /\ UNCHANGED <<views, last>>

(* validate, before a read and at the entrance of the session's block.     *)
Entered ==
    /\ Decide("enter")
    /\ \/ Result /\ ~Drifted /\ pc' \in {"open", "ready"} /\ UNCHANGED session
       \/ (~Result \/ Drifted) /\ pc' = "ready" /\ Invalidate
    /\ UNCHANGED <<bound, views, last>>

(* SymbolIndex.open_read_only.                                             *)
OpenIndex ==
    /\ pc = "open" /\ pc' = "ready"
    /\ \/ /\ views' = Append(views, [index |-> artifact[Snap.gen].sealed, seen |-> {},
                                     sealed |-> TRUE, raised |-> FALSE])
          /\ UNCHANGED <<world, session>>
       \/ /\ (~artifact[Snap.gen].sealed /\ NoFault) \/ Fault
          /\ Invalidate
          /\ UNCHANGED views
    /\ UNCHANGED <<published, purpose, bound, check, last>>

(* validate, at the end of a read.                                         *)
Left ==
    /\ Decide("leave")
    /\ pc' = "ready"
    /\ views' = Pop
    /\ \/ /\ Result /\ ~Drifted
          /\ last' = IF Top.raised THEN None ELSE Top
          /\ UNCHANGED session
       \/ /\ ~Result \/ Drifted
          /\ last' = None
          /\ Invalidate
    /\ UNCHANGED bound

-----------------------------------------------------------------------------
(* The process that uses the session.                                      *)

Using ==
    /\ pc = "ready" /\ session # None
    /\ UNCHANGED <<published, world>>

(* read or __enter__; of a closed session they raise and change nothing.   *)
Enter ==
    /\ Using /\ Open /\ Len(views) < MaxDepth
    /\ BeginCheck("enter")
    /\ last' = None
    /\ UNCHANGED <<session, views>>

(* bound.workspace gives the files as they are.                            *)
ReadSource ==
    /\ Using /\ Reading
    /\ views' = [views EXCEPT ![Len(views)].seen = @ \cup {source.content}]
    /\ last' = None
    /\ UNCHANGED <<pc, purpose, bound, check, session>>

(* The open file may have been altered in place, or replaced and kept.     *)
ReadIndex ==
    /\ Using /\ Reading
    /\ \E sealed \in {Top.index, artifact[Snap.gen].sealed} :
          views' = [views EXCEPT ![Len(views)].sealed = @ /\ sealed]
    /\ last' = None
    /\ UNCHANGED <<pc, purpose, bound, check, session>>

(* The block of the read ends, by an exception of its own or not.          *)
Leave(raised) ==
    /\ Using /\ Reading /\ Open
    /\ views' = [views EXCEPT ![Len(views)].raised = raised]
    /\ BeginCheck("leave")
    /\ last' = None
    /\ UNCHANGED session

(* A mutant: a session that is closed has nothing left to validate.        *)
LeaveClosedQuietly ==
    /\ Using /\ Reading /\ ~Open
    /\ views' = Pop
    /\ last' = Top
    /\ UNCHANGED <<pc, purpose, bound, check, session>>

(* ... of a session that was closed or invalidated under it: SESSION_CLOSED. *)
LeaveClosed ==
    /\ Using /\ Reading /\ ~Open
    /\ views' = Pop
    /\ last' = None
    /\ UNCHANGED <<pc, purpose, bound, check, session>>

(* close, also in the middle of a read.                                    *)
Close ==
    /\ Using /\ Open
    /\ Invalidate
    /\ last' = None
    /\ UNCHANGED <<pc, purpose, bound, check, views>>

-----------------------------------------------------------------------------
Checking == Observe \/ HashArtifacts \/ Decode \/ Rehash \/ Confirm

Client ==
    \/ \E rev \in Revisions, scope \in Scopes, cfg \in Configs :
          Bind([rev |-> rev, scope |-> scope, cfg |-> cfg])
    \/ Load \/ Checking \/ Bound \/ Entered \/ OpenIndex \/ Left
    \/ Enter \/ ReadSource \/ ReadIndex
    \/ \E raised \in BOOLEAN : Leave(raised)
    \/ LeaveClosed \/ Close

ReaderNext == Environment \/ Client

ReaderSpec == ReaderInit /\ [][ReaderNext]_vars

-----------------------------------------------------------------------------
(* Properties.                                                             *)

(* No result escapes a read unless all that was read belongs to the pinned *)
(* snapshot: every file as it was at its commit, every index row sealed.   *)
(* Reads of one session nest, and the tree or an artifact may change and   *)
(* change back between two checks (SnapshotSession.read, validate).        *)
ReadsOfSnapshot ==
    last # None => last.seen \subseteq {Tree[Snap.rev]} /\ last.sealed

(* The graph a session serves from memory was decoded from sealed bytes,   *)
(* whatever happened to the file between its hashing and its decoding      *)
(* (PrebuiltArtifactReader.observe).                                       *)
GraphIsSealed == session # None => session.graph

(* The snapshot of a session was published, and still is unless a newer    *)
(* one was: a session never serves what nobody announced, nor what a       *)
(* refresh has withdrawn (bind, _load).                                    *)
PinnedIsPublished ==
    session # None =>
        /\ manifest.usable # None
        /\ Snap.gen <= manifest.usable.gen
        /\ Snap.gen = manifest.usable.gen => Snap = manifest.usable

(* A refresh never takes a session away from its reader: since it was      *)
(* bound, only a disturbance of source or artifacts, or a fault, ends it,  *)
(* whatever is announced, published or abandoned meanwhile ("No latest     *)
(* lookup after binding", SnapshotSession).                                *)
ClosedByDisturbanceOnly ==
    [][ Open /\ pc # "ready" /\ session' # session =>
            session.closed' /\ disturbed' > session.since ]_vars
=============================================================================

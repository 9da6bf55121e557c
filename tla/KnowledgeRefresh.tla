--------------------------- MODULE KnowledgeRefresh ---------------------------
(***************************************************************************)
(* KnowledgeRefreshService.refresh (knowledge/refresh.py): one-shot calls, *)
(* each in a process of its own, that rebuild the knowledge store while    *)
(* the source tree and the build configuration change under them.  The     *)
(* calls meet in three kinds of file below the knowledge root: the lease   *)
(* .refresh.lock, manifest.json and the artifacts of each generation.      *)
(*                                                                         *)
(* A step of a call runs from one externally visible effect (a write, or a *)
(* read of something others change) to the next.  Wherever SIGINT, an I/O  *)
(* error or an unforeseen exception can strike, it strikes between steps:  *)
(* an operation it cuts short has either had its effect (os.replace,       *)
(* O_EXCL) or not.                                                         *)
(***************************************************************************)
EXTENDS Knowledge, FiniteSets

CONSTANTS
    Writers,          \* processes that call refresh
    MaxAttempts,      \* bound: build attempts over all calls
    MaxWrites,        \* bound: writes to the source tree
    InterruptPoints,  \* steps before which SIGINT may arrive
    FaultPoints,      \* steps that may fail with an exception the code handles
    EscapePoints,     \* steps that may fail with one it does not
    MayCrash,         \* processes may be killed
    MayDamage         \* published artifacts may be altered on disk

ASSUME BoundsAssumption ==
    /\ MaxAttempts \in Nat
    /\ MaxWrites \in Nat
    /\ MayCrash \in BOOLEAN
    /\ MayDamage \in BOOLEAN

VARIABLES
    source,    \* the Git worktree
    config,    \* what the builder's configuration() would return
    manifest,  \* manifest.json
    artifact,  \* the artifacts of each generation
    lockFile,  \* .refresh.lock exists
    attempts,  \* attempts minted so far
    pc,        \* where each call is
    owned,     \* _WriterLease._owned of each call
    call       \* the locals of each call

env    == <<source, config>>
disk   == <<manifest, artifact, lockFile>>
vars   == <<env, disk, attempts, pc, owned, call>>

-----------------------------------------------------------------------------
(* Steps whose manifest still says what it said when the call loaded it,   *)
(* and steps after the building attempt was announced.                     *)
Preparing == {"inventory", "observe", "configure", "decide", "announce"}
Building  == {"build", "seal", "recheck", "reconfirm", "publish"}

(* Inside the inner try of _refresh_locked.                                *)
Attempting == Preparing \cup Building \cup {"finish"}

(* While the call's lease object owns the lock file.  "failing" and        *)
(* "interrupted" are the first instants of the except clauses, "finally"   *)
(* and "backout" those of the clauses that release the lease: the code has *)
(* not yet installed the handler that defers SIGINT.                       *)
Holding == {"load", "backout", "finally", "failing", "interrupted"} \cup Attempting

Results == {"published", "no_op", "cancelled", "failed", "raised"}

ASSUME NoneIsNoResult == None \notin Results

NoCall == [force |-> FALSE, scope |-> None, base |-> NoManifest, att |-> 0,
           obs |-> None, cfg |-> None, result |-> None]

Call == [force : BOOLEAN, scope : Scopes \cup {None}, base : Manifest,
         att : 0..MaxAttempts, obs : Source \cup {None},
         cfg : Configs \cup {None}, result : Results \cup {None}]

Generations == 1..MaxAttempts

Artifact == [reads : SUBSET Contents, configs : SUBSET Configs, intact : BOOLEAN]

TypeOK ==
    /\ source \in Source
    /\ config \in Configs
    /\ manifest \in Manifest
    /\ artifact \in [Generations -> Artifact]
    /\ lockFile \in BOOLEAN
    /\ attempts \in 0..MaxAttempts
    /\ pc \in [Writers -> Holding \cup {"idle", "acquire"}]
    /\ owned \in [Writers -> BOOLEAN]
    /\ call \in [Writers -> Call]

Init ==
    /\ source \in [rev : Revisions \cup {None}, content : Contents, stamp : {0}]
    /\ config \in Configs
    /\ manifest = NoManifest
    /\ artifact = [g \in Generations |-> [reads |-> {}, configs |-> {}, intact |-> TRUE]]
    /\ lockFile = FALSE
    /\ attempts = 0
    /\ pc = [w \in Writers |-> "idle"]
    /\ owned = [w \in Writers |-> FALSE]
    /\ call = [w \in Writers |-> NoCall]

-----------------------------------------------------------------------------
(* The world outside the service.                                          *)

(* An editor or a checkout of other bytes: the stamp never repeats.        *)
WriteSource(c) ==
    /\ source.stamp < MaxWrites
    /\ source' = [source EXCEPT !.content = c, !.stamp = @ + 1]
    /\ UNCHANGED <<config, disk, attempts, pc, owned, call>>

(* git commit or git reset --soft: HEAD moves, the files stay.             *)
MoveHead(r) ==
    /\ source.rev # r
    /\ source' = [source EXCEPT !.rev = r]
    /\ UNCHANGED <<config, disk, attempts, pc, owned, call>>

(* A tool upgrade, or an edit of an ignored compile_commands.json.         *)
ChangeConfig(c) ==
    /\ config # c
    /\ config' = c
    /\ UNCHANGED <<source, disk, attempts, pc, owned, call>>

DamageArtifact(g) ==
    /\ MayDamage
    /\ manifest.usable # None /\ g = manifest.usable.gen
    /\ artifact[g].intact
    /\ artifact' = [artifact EXCEPT ![g].intact = FALSE]
    /\ UNCHANGED <<env, manifest, lockFile, attempts, pc, owned, call>>

Environment ==
    \/ \E c \in Contents : WriteSource(c)
    \/ \E r \in Revisions : MoveHead(r)
    \/ \E c \in Configs : ChangeConfig(c)
    \/ \E g \in Generations : DamageArtifact(g)

-----------------------------------------------------------------------------
(* Helpers.                                                                *)

Goto(w, step) == pc' = [pc EXCEPT ![w] = step]

(* The frame ends: its locals are gone, its lease object with them.        *)
Return(w) ==
    /\ Goto(w, "idle")
    /\ owned' = [owned EXCEPT ![w] = FALSE]
    /\ call' = [call EXCEPT ![w] = NoCall]

(* Variants named after a mistake are not part of the model: each is what  *)
(* the definition that follows it would be if the code made the mistake,   *)
(* and breaks one of the properties.                                       *)
AttemptOfObservation(w, status) ==
    [id |-> call[w].att, rev |-> call[w].obs, status |-> status]

AttemptOf(w, status) ==
    [id |-> call[w].att,
     rev |-> IF call[w].obs = None THEN None ELSE call[w].obs.rev,
     status |-> status]

SnapshotOfTreeNow(w) ==
    [gen |-> call[w].att, rev |-> source.rev, scope |-> call[w].scope,
     content |-> source.content, cfg |-> call[w].cfg]

SnapshotOf(w) ==
    [gen |-> call[w].att, rev |-> call[w].obs.rev, scope |-> call[w].scope,
     content |-> call[w].obs.content, cfg |-> call[w].cfg]

CanReuseWithoutLooking(w) ==
    /\ ~call[w].force
    /\ call[w].base.usable # None
    /\ CanBind(manifest, call[w].obs.rev, call[w].scope, call[w].cfg, call[w].obs,
               IF manifest.usable # None /\ ~artifact[manifest.usable.gen].intact
               THEN {"artifact_mismatch"} ELSE {})

(* PrebuiltSnapshotReader.inspect.  It observes the source before and      *)
(* after the artifacts and requires equal observations, and only the call  *)
(* itself could write the manifest: it behaves as one read at the first    *)
(* observation.                                                            *)
CanReuse(w) ==
    /\ ~call[w].force
    /\ call[w].base.usable # None
    /\ CanBind(manifest, call[w].obs.rev, call[w].scope, call[w].cfg, source,
               IF manifest.usable # None /\ ~artifact[manifest.usable.gen].intact
               THEN {"artifact_mismatch"} ELSE {})

RejectsOtherBytesOnly(w) ==
    \/ pc[w] = "observe" /\ (source.rev # call[w].obs.rev \/ Dirty(source))
    \/ pc[w] = "recheck" /\ \/ source.rev # call[w].obs.rev
                            \/ source.content # call[w].obs.content
    \/ pc[w] = "reconfirm" /\ config # call[w].cfg

RejectsMovedHeadOnly(w) ==
    \/ pc[w] = "observe" /\ source.rev # call[w].obs.rev
    \/ pc[w] = "recheck" /\ source # call[w].obs
    \/ pc[w] = "reconfirm" /\ config # call[w].cfg

(* The checks of _refresh_locked that raise, by the step they belong to.   *)
Rejects(w) ==
    \/ pc[w] = "observe" /\ (source.rev # call[w].obs.rev \/ Dirty(source))
    \/ pc[w] = "recheck" /\ source # call[w].obs
    \/ pc[w] = "reconfirm" /\ config # call[w].cfg

CommittedOnceAnnounced(w) ==
    /\ manifest.latest # None
    /\ manifest.latest.id = call[w].att

Committed(w) ==
    /\ manifest.latest # None
    /\ manifest.latest.id = call[w].att
    /\ manifest.latest.status = "succeeded"

-----------------------------------------------------------------------------
(* refresh: the lease.                                                     *)

Start(w, force, scope) ==
    /\ pc[w] = "idle"
    /\ attempts + Cardinality({v \in Writers : pc[v] # "idle"}) < MaxAttempts
    /\ Goto(w, "acquire")
    /\ call' = [call EXCEPT ![w].force = force, ![w].scope = scope]
    /\ UNCHANGED <<env, disk, attempts, owned>>

AcquireExisting(w) ==
    /\ pc[w] = "acquire"
    /\ lockFile' = TRUE
    /\ owned' = [owned EXCEPT ![w] = TRUE]
    /\ Goto(w, "load")
    /\ UNCHANGED <<env, manifest, artifact, attempts, call>>

(* SIGINT is deferred while the file is created and raised right after.    *)
Acquire(w) ==
    /\ pc[w] = "acquire" /\ ~lockFile
    /\ lockFile' = TRUE
    /\ owned' = [owned EXCEPT ![w] = TRUE]
    /\ \/ Goto(w, "load")
       \/ "acquire" \in InterruptPoints /\ Goto(w, "backout")
    /\ UNCHANGED <<env, manifest, artifact, attempts, call>>

RefusedRecording(w) ==
    /\ pc[w] = "acquire" /\ lockFile
    /\ manifest' = [manifest EXCEPT !.latest = AttemptOf(w, "failed")]
    /\ Return(w)
    /\ UNCHANGED <<env, artifact, lockFile, attempts>>

(* CONFLICT, for an existing file and for an I/O error alike.              *)
Refused(w) ==
    /\ pc[w] = "acquire"
    /\ lockFile \/ "acquire" \in FaultPoints
    /\ Return(w)
    /\ UNCHANGED <<env, disk, attempts>>

ReleaseForgetting(w) ==
    /\ pc[w] \in {"finally", "backout"}
    /\ Return(w)
    /\ UNCHANGED <<env, disk, attempts>>

Release(w) ==
    /\ pc[w] \in {"finally", "backout"}
    /\ lockFile' = FALSE
    /\ Return(w)
    /\ UNCHANGED <<env, manifest, artifact, attempts>>

(* The unlink fails, or SIGINT raises in the finally clause before the     *)
(* deferral is in place: the call ends, the file stays.                    *)
Leak(w) ==
    /\ pc[w] \in {"finally", "backout"}
    /\ pc[w] \in InterruptPoints \cup FaultPoints
    /\ Return(w)
    /\ UNCHANGED <<env, disk, attempts>>

-----------------------------------------------------------------------------
(* _refresh_locked.                                                        *)

LoadRetargeting(w) ==
    /\ pc[w] = "load" /\ attempts < MaxAttempts
    /\ attempts' = attempts + 1
    /\ call' = [call EXCEPT ![w].base = manifest,
                            ![w].att = IF manifest.usable = None THEN attempts + 1
                                       ELSE manifest.usable.gen]
    /\ Goto(w, "inventory")
    /\ UNCHANGED <<env, disk, owned>>

Load(w) ==
    /\ pc[w] = "load" /\ attempts < MaxAttempts
    /\ attempts' = attempts + 1
    /\ call' = [call EXCEPT ![w].base = manifest, ![w].att = attempts + 1]
    /\ Goto(w, "inventory")
    /\ UNCHANGED <<env, disk, owned>>

(* An unreadable manifest: FAILED without an attempt.                      *)
LoadFails(w) ==
    /\ pc[w] = "load" /\ "load" \in FaultPoints
    /\ call' = [call EXCEPT ![w].result = "failed"]
    /\ Goto(w, "finally")
    /\ UNCHANGED <<env, disk, attempts, owned>>

(* The first observation names the target revision, also of an attempt     *)
(* that is then refused for it.                                            *)
Inventory(w) ==
    /\ pc[w] = "inventory"
    /\ call' = [call EXCEPT ![w].obs = source]
    /\ Goto(w, IF Dirty(source) THEN "failing" ELSE "observe")
    /\ UNCHANGED <<env, disk, attempts, owned>>

Observe(w) ==
    /\ pc[w] = "observe" /\ ~Rejects(w)
    /\ call' = [call EXCEPT ![w].obs = source]
    /\ Goto(w, "configure")
    /\ UNCHANGED <<env, disk, attempts, owned>>

Configure(w) ==
    /\ pc[w] = "configure"
    /\ call' = [call EXCEPT ![w].cfg = config]
    /\ Goto(w, "decide")
    /\ UNCHANGED <<env, disk, attempts, owned>>

Reuse(w) ==
    /\ pc[w] = "decide" /\ CanReuse(w)
    /\ call' = [call EXCEPT ![w].result = "no_op"]
    /\ Goto(w, "finish")
    /\ UNCHANGED <<env, disk, attempts, owned>>

(* inspect reports an unreadable input as unknown, so a fault rebuilds.    *)
Rebuild(w) ==
    /\ pc[w] = "decide"
    /\ ~CanReuse(w) \/ "decide" \in FaultPoints
    /\ Goto(w, "announce")
    /\ UNCHANGED <<env, disk, attempts, owned, call>>

AnnounceDropping(w) ==
    /\ pc[w] = "announce"
    /\ manifest' = [usable |-> None, latest |-> AttemptOf(w, "building")]
    /\ Goto(w, "build")
    /\ UNCHANGED <<env, artifact, lockFile, attempts, owned, call>>

Announce(w) ==
    /\ pc[w] = "announce"
    /\ manifest' = [usable |-> call[w].base.usable, latest |-> AttemptOf(w, "building")]
    /\ Goto(w, "build")
    /\ UNCHANGED <<env, artifact, lockFile, attempts, owned, call>>

(* builder.build reads the tree and the configuration over a long time:    *)
(* any number of reads, each of what is there at that moment.              *)
Build(w) ==
    /\ pc[w] = "build"
    /\ artifact' = [artifact EXCEPT ![call[w].att].reads = @ \cup {source.content},
                                    ![call[w].att].configs = @ \cup {config}]
    /\ \E step \in {"build", "seal"} : Goto(w, step)
    /\ UNCHANGED <<env, manifest, lockFile, attempts, owned, call>>

(* _snapshot hashes the artifacts and the public readers validate them.    *)
Seal(w) ==
    /\ pc[w] = "seal"
    /\ Goto(w, "recheck")
    /\ UNCHANGED <<env, disk, attempts, owned, call>>

Recheck(w) ==
    /\ pc[w] = "recheck" /\ ~Rejects(w)
    /\ Goto(w, "reconfirm")
    /\ UNCHANGED <<env, disk, attempts, owned, call>>

Reconfirm(w) ==
    /\ pc[w] = "reconfirm" /\ ~Rejects(w)
    /\ Goto(w, "publish")
    /\ UNCHANGED <<env, disk, attempts, owned, call>>

Publish(w) ==
    /\ pc[w] = "publish"
    /\ manifest' = [usable |-> SnapshotOf(w), latest |-> AttemptOf(w, "succeeded")]
    /\ call' = [call EXCEPT ![w].result = "published"]
    /\ Goto(w, "finish")
    /\ UNCHANGED <<env, artifact, lockFile, attempts, owned>>

Finish(w) ==
    /\ pc[w] = "finish"
    /\ Goto(w, "finally")
    /\ UNCHANGED <<env, disk, attempts, owned, call>>

-----------------------------------------------------------------------------
(* Failure and cancellation.                                               *)

Fail(w) ==
    /\ pc[w] \in Attempting \ {"finish"}
    /\ Rejects(w) \/ pc[w] \in FaultPoints
    /\ Goto(w, "failing")
    /\ UNCHANGED <<env, disk, attempts, owned, call>>

InterruptUncaught(w) ==
    /\ pc[w] \in Attempting \cap InterruptPoints
    /\ Goto(w, "finally")
    /\ UNCHANGED <<env, disk, attempts, owned, call>>

Interrupt(w) ==
    /\ pc[w] \in Attempting \cap InterruptPoints
    /\ Goto(w, "interrupted")
    /\ UNCHANGED <<env, disk, attempts, owned, call>>

(* An exception no except clause names, or a SIGINT where none applies:    *)
(* before the inner try, or on entry to one of its except clauses.         *)
Escape(w) ==
    /\ \/ pc[w] \in Attempting \cap EscapePoints
       \/ pc[w] \in {"load", "failing", "interrupted"} \cap InterruptPoints
    /\ call' = [call EXCEPT ![w].result = "raised"]
    /\ Goto(w, "finally")
    /\ UNCHANGED <<env, disk, attempts, owned>>

(* _record_failure: latest_attempt over the last_usable loaded at the      *)
(* start, or nothing when that write fails too.                            *)
Record(w, status) ==
    /\ \/ manifest' = [usable |-> call[w].base.usable, latest |-> AttemptOf(w, status)]
       \/ "record" \in FaultPoints /\ UNCHANGED manifest
    /\ call' = [call EXCEPT ![w].result = status]

RecordFailedInReply(w) ==
    /\ pc[w] = "failing"
    /\ call' = [call EXCEPT ![w].result = "failed"]
    /\ Goto(w, "finally")
    /\ UNCHANGED <<env, disk, attempts, owned>>

RecordFailed(w) ==
    /\ pc[w] = "failing"
    /\ Record(w, "failed")
    /\ Goto(w, "finally")
    /\ UNCHANGED <<env, artifact, lockFile, attempts, owned>>

RecordCancelledBlindly(w) ==
    /\ pc[w] = "interrupted"
    /\ Record(w, "cancelled")
    /\ Goto(w, "finally")
    /\ UNCHANGED <<env, artifact, lockFile, attempts, owned>>

(* The interrupted call looks whether its publication was committed; when  *)
(* it cannot read the manifest it falls back on the one it loaded.         *)
RecordCancelled(w) ==
    /\ pc[w] = "interrupted"
    /\ \/ /\ Committed(w)
          /\ call' = [call EXCEPT ![w].result = "published"]
          /\ UNCHANGED manifest
       \/ /\ ~Committed(w) \/ "reload" \in FaultPoints
          /\ Record(w, "cancelled")
    /\ Goto(w, "finally")
    /\ UNCHANGED <<env, artifact, lockFile, attempts, owned>>

Crash(w) ==
    /\ MayCrash /\ pc[w] # "idle"
    /\ Return(w)
    /\ UNCHANGED <<env, disk, attempts>>

-----------------------------------------------------------------------------
(* What a running call does by itself, whatever the outcome.               *)
Step(w) ==
    \/ Acquire(w) \/ Refused(w) \/ Release(w) \/ Leak(w)
    \/ Load(w) \/ LoadFails(w)
    \/ Inventory(w) \/ Observe(w) \/ Configure(w) \/ Reuse(w) \/ Rebuild(w)
    \/ Announce(w) \/ Build(w) \/ Seal(w) \/ Recheck(w) \/ Reconfirm(w)
    \/ Publish(w) \/ Finish(w)
    \/ Fail(w) \/ Interrupt(w) \/ Escape(w)
    \/ RecordFailed(w) \/ RecordCancelled(w)

Next ==
    \/ Environment
    \/ \E w \in Writers :
         \/ \E force \in BOOLEAN, scope \in Scopes : Start(w, force, scope)
         \/ Step(w)
         \/ Crash(w)

Spec == Init /\ [][Next]_vars

(* Every call is a sequence of bounded operations (subprocess and language *)
(* server requests have timeouts), so a started call keeps going.  Nothing *)
(* obliges anybody to start one, or the environment to act.                *)
FairSpec == Spec /\ \A w \in Writers : WF_vars(Step(w))

-----------------------------------------------------------------------------
(* Properties.                                                             *)

(* The lease excludes: two calls are never between acquiring and releasing *)
(* it at once, and neither is inside without the file that shuts others    *)
(* out, whatever leaks, crashes and failed unlinks happened before.        *)
OneWriter ==
    /\ \A w \in Writers : owned[w] <=> pc[w] \in Holding
    /\ \A w \in Writers : owned[w] => lockFile
    /\ \A v, w \in Writers : owned[v] /\ owned[w] => v = w

(* No lost update.  A call writes last_usable from the copy it loaded at   *)
(* its start; until it has published, that copy is still what the manifest *)
(* says, so failing or cancelling never reverts another call's snapshot.   *)
BaseIsCurrent ==
    \A w \in Writers :
        pc[w] \in Preparing \cup Building \cup {"failing"} =>
            manifest.usable = call[w].base.usable

(* Every manifest written passes KnowledgeManifest.validate, so its        *)
(* constructor cannot turn a publication or the record of a failure into   *)
(* an error of its own.                                                    *)
ManifestIsValid == ValidManifest(manifest)

(* The last usable snapshot was built from exactly the bytes its           *)
(* fingerprint declares: nothing the builder read at any time of the build *)
(* differs, also when the tree was changed and changed back meanwhile.     *)
BuiltFromFingerprint ==
    manifest.usable # None =>
        artifact[manifest.usable.gen].reads = {manifest.usable.content}

(* The fingerprint is of a commit: never of a dirty tree.                  *)
UsableIsCommitted ==
    manifest.usable # None => manifest.usable.content = Tree[manifest.usable.rev]

(* What a call reports is what the manifest says while it still holds the  *)
(* lease: published means its generation is the last usable one, anything  *)
(* else that the last usable one is that of its start.                     *)
ResultIsTrue ==
    \A w \in Writers :
        pc[w] = "finally" /\ call[w].result # "raised" =>
            IF call[w].result = "published"
            THEN manifest.usable # None /\ manifest.usable.gen = call[w].att /\ Committed(w)
            ELSE call[w].att # 0 => manifest.usable = call[w].base.usable

(* A building attempt in the manifest is that of a live call, which will   *)
(* write its end.                                                          *)
BuildingHasBuilder ==
    manifest.latest # None /\ manifest.latest.status = "building" =>
        \E w \in Writers :
            /\ pc[w] \in Building \cup {"failing", "interrupted"}
            /\ call[w].att = manifest.latest.id

(* The last usable snapshot only ever advances: it changes when the        *)
(* attempt announced for it succeeds, and never back to an earlier one.    *)
UsableAdvances ==
    [][manifest'.usable # manifest.usable =>
         /\ manifest'.usable # None
         /\ manifest'.latest.status = "succeeded"
         /\ manifest.latest.status = "building"
         /\ manifest.latest.id = manifest'.usable.gen
         /\ manifest.usable # None => manifest.usable.gen < manifest'.usable.gen]_vars

(* A call that reports NO_OP leaves its caller a snapshot built from the   *)
(* tree as it is at that moment, that covers the scope it asked for.       *)
ReuseServesSource ==
    [][\A w \in Writers :
         call'[w].result = "no_op" /\ call[w].result # "no_op" =>
            /\ artifact[manifest.usable.gen].reads = {source.content}
            /\ artifact[manifest.usable.gen].intact
            /\ manifest.usable.rev = source.rev
            /\ call[w].scope \subseteq manifest.usable.scope
            /\ manifest.latest.status = "succeeded"]_vars

(* Only the call holding the lease writes the manifest: a conflicting call *)
(* reads and rewrites nothing.                                             *)
OnlyHolderWrites ==
    [][manifest' # manifest =>
         \E w \in Writers : owned[w] /\ manifest'.latest.id = call[w].att]_vars

(* The lease is always given back.                                         *)
LeaseIsReleased == []<>(~lockFile)

(* A building attempt always comes to an end.                              *)
BuildingEnds ==
    []<>(manifest.latest = None \/ manifest.latest.status # "building")

(* The configuration counterpart of BuiltFromFingerprint.                  *)
BuiltUnderConfiguration ==
    manifest.usable # None =>
        artifact[manifest.usable.gen].configs = {manifest.usable.cfg}

-----------------------------------------------------------------------------
(* The contents from which the snapshot its readers see was built.         *)
BuiltFrom(m, art) == IF m.usable = None THEN {} ELSE art[m.usable.gen].reads

Publication == INSTANCE KnowledgePublication WITH
    Ids <- Generations, built <- BuiltFrom(manifest, artifact)

(* The refresh protocol implements the promise of KnowledgePublication.    *)
ImplementsPublication == Publication!PublicationSpec

(* Whoever finds the lease file finds a live call that owns it.            *)
LeaseHasOwner == lockFile => \E w \in Writers : owned[w]

(* However often SIGINT arrives, the next refresh can mend what it left: an *)
(* attempt that is building and will never end is not shut in behind a     *)
(* lease that nobody will release.                                         *)
InterruptsCanBeMended == BuildingHasBuilder \/ LeaseHasOwner

=============================================================================

----------------------- MODULE KnowledgeRefresh_proofs -----------------------
(***************************************************************************)
(* Theorems about KnowledgeRefresh and their proofs.                       *)
(*                                                                         *)
(* The argument has three layers, each an inductive invariant that uses    *)
(* the ones before: what every variable holds at each step (Typed), that   *)
(* the lease excludes (OneWriter), and, because of it, what the one call   *)
(* inside knows of the files it shares (Protocol).                         *)
(*                                                                         *)
(* From them follows what a step may do to the manifest, and that the      *)
(* module implements KnowledgePublication.  Two of these results need the  *)
(* manifest to be readable after a cancellation: without it the            *)
(* interrupted call writes back the snapshot it loaded at its start.       *)
(***************************************************************************)
EXTENDS KnowledgeRefresh, TLAPS

-----------------------------------------------------------------------------
(* The steps at which a call has observed the source, and at which it has  *)
(* read the configuration.                                                 *)
Observed   == {"observe", "configure", "decide", "announce"} \cup Building
Configured == {"decide", "announce"} \cup Building

(* What the locals hold, by step.                                          *)
LocalsOK(w) ==
    /\ pc[w] # "idle" => call[w].scope \in Scopes
    /\ pc[w] \in Attempting \cup {"failing", "interrupted"} => call[w].att \in Generations
    /\ pc[w] \in Observed =>
         /\ call[w].obs \in Source
         /\ call[w].obs.rev \in Revisions
         /\ call[w].obs.content = Tree[call[w].obs.rev]
    /\ pc[w] \in Configured => call[w].cfg \in Configs

Typed == TypeOK /\ \A w \in Writers : LocalsOK(w)

(* An attempt that a call records is a record of an attempt.                *)
LEMMA AttemptOfType ==
    ASSUME TypeOK, NEW w \in Writers, NEW status \in {"building"} \cup Ended
    PROVE  AttemptOf(w, status) \in BuildAttempt
  BY BoundsAssumption DEF TypeOK, AttemptOf, BuildAttempt, Call, Source

(* What a call publishes is a snapshot: its locals are set by then.         *)
LEMMA SnapshotOfType ==
    ASSUME TypeOK, NEW w \in Writers, LocalsOK(w), pc[w] = "publish"
    PROVE  SnapshotOf(w) \in Snapshot
  BY BoundsAssumption DEF TypeOK, LocalsOK, SnapshotOf, Snapshot, Call, Source,
     Generations, Observed, Configured, Building, Attempting

(* The locals of a process without a call.                                  *)
LEMMA NoCallType == NoCall \in Call
  BY BoundsAssumption DEF NoCall, Call, NoManifest, Manifest

(* What the assignments to locals and artifacts keep.                      *)
LEMMA CallUpdates ==
    ASSUME NEW c \in [Writers -> Call], NEW w \in Writers
    PROVE  /\ \A force \in BOOLEAN, scope \in Scopes :
                [c EXCEPT ![w].force = force, ![w].scope = scope] \in [Writers -> Call]
           /\ \A base \in Manifest, att \in 0..MaxAttempts :
                [c EXCEPT ![w].base = base, ![w].att = att] \in [Writers -> Call]
           /\ \A obs \in Source : [c EXCEPT ![w].obs = obs] \in [Writers -> Call]
           /\ \A cfg \in Configs : [c EXCEPT ![w].cfg = cfg] \in [Writers -> Call]
           /\ \A result \in Results : [c EXCEPT ![w].result = result] \in [Writers -> Call]
<1>1. ASSUME NEW force \in BOOLEAN, NEW scope \in Scopes
      PROVE  [c EXCEPT ![w].force = force, ![w].scope = scope] \in [Writers -> Call]
  BY DEF Call
<1>2. ASSUME NEW base \in Manifest, NEW att \in 0..MaxAttempts
      PROVE  [c EXCEPT ![w].base = base, ![w].att = att] \in [Writers -> Call]
  BY DEF Call
<1>3. ASSUME NEW obs \in Source PROVE [c EXCEPT ![w].obs = obs] \in [Writers -> Call]
  BY DEF Call
<1>4. ASSUME NEW cfg \in Configs PROVE [c EXCEPT ![w].cfg = cfg] \in [Writers -> Call]
  BY DEF Call
<1>5. ASSUME NEW result \in Results
      PROVE  [c EXCEPT ![w].result = result] \in [Writers -> Call]
  BY DEF Call
<1> QED BY <1>1, <1>2, <1>3, <1>4, <1>5

(* Damage and reads keep artifacts what they are.                           *)
LEMMA ArtifactUpdates ==
    ASSUME NEW art \in [Generations -> Artifact], NEW g
    PROVE  /\ [art EXCEPT ![g].intact = FALSE] \in [Generations -> Artifact]
           /\ \A x \in Contents, y \in Configs :
                [art EXCEPT ![g].reads = @ \cup {x}, ![g].configs = @ \cup {y}]
                    \in [Generations -> Artifact]
<1>1. [art EXCEPT ![g].intact = FALSE] \in [Generations -> Artifact]
  <2>1. ASSUME g \in Generations PROVE [art[g] EXCEPT !.intact = FALSE] \in Artifact
    BY <2>1 DEF Artifact
  <2> QED BY <2>1
<1>2. ASSUME NEW x \in Contents, NEW y \in Configs
      PROVE  [art EXCEPT ![g].reads = @ \cup {x}, ![g].configs = @ \cup {y}]
                 \in [Generations -> Artifact]
  <2>1. ASSUME g \in Generations
        PROVE  [art[g] EXCEPT !.reads = @ \cup {x}, !.configs = @ \cup {y}] \in Artifact
    BY <2>1 DEF Artifact
  <2>2. [art EXCEPT ![g].reads = @ \cup {x}, ![g].configs = @ \cup {y}]
          = [art EXCEPT ![g] = [art[g] EXCEPT !.reads = @ \cup {x}, !.configs = @ \cup {y}]]
    OBVIOUS
  <2> QED BY <2>1, <2>2
<1> QED BY <1>1, <1>2

(* A clean tree holds the content of the commit HEAD names.                *)
LEMMA CleanSource ==
    ASSUME NEW src \in Source, ~Dirty(src)
    PROVE  src.rev \in Revisions /\ src.content = Tree[src.rev]
  BY DEF Source, Dirty

(* The types at the start,                                                  *)
LEMMA InitTyped == Init => Typed
<1> SUFFICES ASSUME Init PROVE Typed
  OBVIOUS
<1>1. source \in Source
  BY DEF Init, Source
<1>2. artifact \in [Generations -> Artifact]
  <2>1. [reads |-> {}, configs |-> {}, intact |-> TRUE] \in Artifact
    BY DEF Artifact
  <2> QED BY <2>1 DEF Init
<1>3. manifest \in Manifest
  BY DEF Init, Manifest, NoManifest
<1>4. TypeOK
  <2>1. attempts \in 0..MaxAttempts
    BY BoundsAssumption DEF Init
  <2>2. /\ pc \in [Writers -> Holding \cup {"idle", "acquire"}]
        /\ owned \in [Writers -> BOOLEAN]
        /\ call \in [Writers -> Call]
    BY NoCallType DEF Init
  <2>3. config \in Configs /\ lockFile \in BOOLEAN
    BY DEF Init
  <2> QED BY <1>1, <1>2, <1>3, <2>1, <2>2, <2>3 DEF TypeOK
<1>5. ASSUME NEW w \in Writers PROVE LocalsOK(w)
  BY DEF Init, LocalsOK, Attempting, Preparing, Building, Observed, Configured
<1> QED BY <1>4, <1>5 DEF Typed

(* after every action,                                                      *)
LEMMA NextTypeOK == Typed /\ Next => TypeOK'
<1> SUFFICES ASSUME Typed, Next PROVE TypeOK'
  OBVIOUS
<1> USE DEF env, disk, Goto
<1>1. TypeOK
  BY DEF Typed
<1>2. ASSUME NEW c \in Contents, WriteSource(c) PROVE TypeOK'
  <2>1. source.stamp + 1 \in Nat
    BY <1>1 DEF TypeOK, Source
  <2>2. source' \in Source
    BY <1>1, <1>2, <2>1 DEF TypeOK, WriteSource, Source
  <2> QED BY <1>1, <1>2, <2>2 DEF TypeOK, WriteSource
<1>3. ASSUME NEW r \in Revisions, MoveHead(r) PROVE TypeOK'
  <2>1. source' \in Source
    BY <1>1, <1>3 DEF TypeOK, MoveHead, Source
  <2> QED BY <1>1, <1>3, <2>1 DEF TypeOK, MoveHead
<1>4. ASSUME NEW c \in Configs, ChangeConfig(c) PROVE TypeOK'
  BY <1>1, <1>4 DEF TypeOK, ChangeConfig
<1>5. ASSUME NEW g \in Generations, DamageArtifact(g) PROVE TypeOK'
  <2>1. artifact' \in [Generations -> Artifact]
    BY <1>1, <1>5, ArtifactUpdates DEF TypeOK, DamageArtifact
  <2> QED BY <1>1, <1>5, <2>1 DEF TypeOK, DamageArtifact
<1>6. ASSUME NEW w \in Writers, NEW force \in BOOLEAN, NEW scope \in Scopes,
             Start(w, force, scope)
      PROVE  TypeOK'
  <2>1. call' \in [Writers -> Call]
    BY <1>1, <1>6, CallUpdates DEF TypeOK, Start
  <2> QED BY <1>1, <1>6, <2>1 DEF TypeOK, Start
<1>7. ASSUME NEW w \in Writers, Return(w)
      PROVE  /\ pc' \in [Writers -> Holding \cup {"idle", "acquire"}]
             /\ owned' \in [Writers -> BOOLEAN]
             /\ call' \in [Writers -> Call]
  BY <1>1, <1>7, NoCallType DEF TypeOK, Return
<1>8. ASSUME NEW w \in Writers, NEW status \in {"failed", "cancelled"}, Record(w, status)
      PROVE  manifest' \in Manifest /\ call' \in [Writers -> Call]
  <2>1. AttemptOf(w, status) \in BuildAttempt
    BY <1>1, AttemptOfType DEF Ended
  <2>2. call[w].base.usable \in Snapshot \cup {None}
    BY <1>1 DEF TypeOK, Call, Manifest
  <2>3. manifest' \in Manifest
    BY <1>1, <1>8, <2>1, <2>2 DEF TypeOK, Record, Manifest
  <2>4. call' \in [Writers -> Call]
    BY <1>1, <1>8, CallUpdates DEF TypeOK, Record, Results
  <2> QED BY <2>3, <2>4
<1>9. ASSUME NEW w \in Writers, Step(w) PROVE TypeOK'
  <2> USE DEF Holding, Attempting, Preparing, Building
  <2>1. CASE Acquire(w)    BY <1>1, <2>1 DEF TypeOK, Acquire
  <2>2. CASE Refused(w)    BY <1>1, <2>2, <1>7 DEF TypeOK, Refused
  <2>3. CASE Release(w)    BY <1>1, <2>3, <1>7 DEF TypeOK, Release
  <2>4. CASE Leak(w)       BY <1>1, <2>4, <1>7 DEF TypeOK, Leak
  <2>5. CASE Load(w)
    <3>1. attempts' \in 0..MaxAttempts
      BY <1>1, <2>5, BoundsAssumption DEF TypeOK, Load
    <3>2. call' \in [Writers -> Call]
      BY <1>1, <2>5, <3>1, CallUpdates DEF TypeOK, Load
    <3> QED BY <1>1, <2>5, <3>1, <3>2 DEF TypeOK, Load
  <2>6. CASE LoadFails(w)
    <3>1. call' \in [Writers -> Call]
      BY <1>1, <2>6, CallUpdates DEF TypeOK, LoadFails, Results
    <3> QED BY <1>1, <2>6, <3>1 DEF TypeOK, LoadFails
  <2>7. CASE Inventory(w)
    <3>1. call' \in [Writers -> Call]
      BY <1>1, <2>7, CallUpdates DEF TypeOK, Inventory
    <3> QED BY <1>1, <2>7, <3>1 DEF TypeOK, Inventory
  <2>8. CASE Observe(w)
    <3>1. call' \in [Writers -> Call]
      BY <1>1, <2>8, CallUpdates DEF TypeOK, Observe
    <3> QED BY <1>1, <2>8, <3>1 DEF TypeOK, Observe
  <2>9. CASE Configure(w)
    <3>1. call' \in [Writers -> Call]
      BY <1>1, <2>9, CallUpdates DEF TypeOK, Configure
    <3> QED BY <1>1, <2>9, <3>1 DEF TypeOK, Configure
  <2>10. CASE Reuse(w)
    <3>1. call' \in [Writers -> Call]
      BY <1>1, <2>10, CallUpdates DEF TypeOK, Reuse, Results
    <3> QED BY <1>1, <2>10, <3>1 DEF TypeOK, Reuse
  <2>11. CASE Rebuild(w)   BY <1>1, <2>11 DEF TypeOK, Rebuild
  <2>12. CASE Announce(w)
    <3>1. AttemptOf(w, "building") \in BuildAttempt
      BY <1>1, AttemptOfType
    <3>2. call[w].base.usable \in Snapshot \cup {None}
      BY <1>1 DEF TypeOK, Call, Manifest
    <3>3. manifest' \in Manifest
      BY <2>12, <3>1, <3>2 DEF Announce, Manifest
    <3> QED BY <1>1, <2>12, <3>3 DEF TypeOK, Announce
  <2>13. CASE Build(w)
    <3>1. source.content \in Contents /\ config \in Configs
      BY <1>1 DEF TypeOK, Source
    <3>2. artifact' \in [Generations -> Artifact]
      BY <1>1, <2>13, <3>1, ArtifactUpdates DEF TypeOK, Build
    <3> QED BY <1>1, <2>13, <3>2 DEF TypeOK, Build
  <2>14. CASE Seal(w)      BY <1>1, <2>14 DEF TypeOK, Seal
  <2>15. CASE Recheck(w)   BY <1>1, <2>15 DEF TypeOK, Recheck
  <2>16. CASE Reconfirm(w) BY <1>1, <2>16 DEF TypeOK, Reconfirm
  <2>17. CASE Publish(w)
    <3>1. AttemptOf(w, "succeeded") \in BuildAttempt
      BY <1>1, AttemptOfType DEF Ended
    <3>2. SnapshotOf(w) \in Snapshot
      BY <2>17, SnapshotOfType DEF Publish, Typed
    <3>3. manifest' \in Manifest
      BY <2>17, <3>1, <3>2 DEF Publish, Manifest
    <3>4. call' \in [Writers -> Call]
      BY <1>1, <2>17, CallUpdates DEF TypeOK, Publish, Results
    <3> QED BY <1>1, <2>17, <3>3, <3>4 DEF TypeOK, Publish
  <2>18. CASE Finish(w)    BY <1>1, <2>18 DEF TypeOK, Finish
  <2>19. CASE Fail(w)      BY <1>1, <2>19 DEF TypeOK, Fail
  <2>20. CASE Interrupt(w) BY <1>1, <2>20 DEF TypeOK, Interrupt
  <2>21. CASE Escape(w)
    <3>1. call' \in [Writers -> Call]
      BY <1>1, <2>21, CallUpdates DEF TypeOK, Escape, Results
    <3> QED BY <1>1, <2>21, <3>1 DEF TypeOK, Escape
  <2>22. CASE RecordFailed(w)
    BY <1>1, <2>22, <1>8 DEF TypeOK, RecordFailed
  <2>23. CASE RecordCancelled(w)
    <3>1. CASE Record(w, "cancelled")
      BY <1>1, <2>23, <1>8, <3>1 DEF TypeOK, RecordCancelled
    <3>2. CASE call' = [call EXCEPT ![w].result = "published"] /\ UNCHANGED manifest
      <4>1. call' \in [Writers -> Call]
        BY <1>1, <3>2, CallUpdates DEF TypeOK, Results
      <4> QED BY <1>1, <2>23, <3>2, <4>1 DEF TypeOK, RecordCancelled
    <3> QED BY <2>23, <3>1, <3>2 DEF RecordCancelled
  <2> QED BY <1>9, <2>1, <2>2, <2>3, <2>4, <2>5, <2>6, <2>7, <2>8, <2>9, <2>10,
             <2>11, <2>12, <2>13, <2>14, <2>15, <2>16, <2>17, <2>18, <2>19,
             <2>20, <2>21, <2>22, <2>23 DEF Step
<1>10. ASSUME NEW w \in Writers, Crash(w) PROVE TypeOK'
  BY <1>1, <1>10, <1>7 DEF TypeOK, Crash
<1> QED BY <1>2, <1>3, <1>4, <1>5, <1>6, <1>9, <1>10 DEF Next, Environment
(* A step touches the locals of one writer only.                           *)
LEMMA NextLocals ==
    ASSUME Typed, Next, NEW v \in Writers
    PROVE  LocalsOK(v)'
<1>1. TypeOK /\ LocalsOK(v)
  BY DEF Typed
<1>2. ASSUME UNCHANGED <<pc, call>> PROVE LocalsOK(v)'
  BY <1>1, <1>2 DEF LocalsOK
<1>3. CASE Environment
  BY <1>2, <1>3 DEF Environment, WriteSource, MoveHead, ChangeConfig, DamageArtifact
<1>4. ASSUME NEW w \in Writers, v # w, pc'[v] = pc[v], call'[v] = call[v]
      PROVE  LocalsOK(v)'
  BY <1>1, <1>4 DEF LocalsOK
<1>5. ASSUME NEW w \in Writers, Return(w) PROVE LocalsOK(v)'
  BY <1>1, <1>5 DEF LocalsOK, TypeOK, Return, Goto, Observed, Configured, Attempting,
     Preparing, Building
<1>6. ASSUME NEW force \in BOOLEAN, NEW scope \in Scopes, NEW w \in Writers,
             Start(w, force, scope)
      PROVE  LocalsOK(v)'
  BY <1>1, <1>6 DEF LocalsOK, TypeOK, Start, Goto, Observed, Configured, Attempting,
     Preparing, Building
<1>7. ASSUME NEW w \in Writers, Step(w) PROVE LocalsOK(v)'
  <2> USE <1>1 DEF LocalsOK, TypeOK, Goto, Observed, Configured, Attempting, Preparing,
                   Building
  <2>1. CASE Acquire(w)    BY <2>1 DEF Acquire
  <2>2. CASE Refused(w)    BY <2>2, <1>5 DEF Refused
  <2>3. CASE Release(w)    BY <2>3, <1>5 DEF Release
  <2>4. CASE Leak(w)       BY <2>4, <1>5 DEF Leak
  <2>5. CASE Load(w)
    <3>1. attempts + 1 \in Generations
      BY <2>5, BoundsAssumption DEF Load, Generations
    <3> QED BY <2>5, <3>1 DEF Load
  <2>6. CASE LoadFails(w)  BY <2>6 DEF LoadFails
  <2>7. CASE Inventory(w)
    <3>1. ~Dirty(source) => source.rev \in Revisions /\ source.content = Tree[source.rev]
      BY CleanSource
    <3> QED BY <2>7, <3>1 DEF Inventory
  <2>8. CASE Observe(w)
    <3>1. source.rev \in Revisions /\ source.content = Tree[source.rev]
      BY <2>8, CleanSource DEF Observe, Rejects
    <3> QED BY <2>8, <3>1 DEF Observe
  <2>9. CASE Configure(w)  BY <2>9 DEF Configure
  <2>10. CASE Reuse(w)     BY <2>10 DEF Reuse
  <2>11. CASE Rebuild(w)   BY <2>11 DEF Rebuild
  <2>12. CASE Announce(w)  BY <2>12 DEF Announce
  <2>13. CASE Build(w)     BY <2>13 DEF Build
  <2>14. CASE Seal(w)      BY <2>14 DEF Seal
  <2>15. CASE Recheck(w)   BY <2>15 DEF Recheck
  <2>16. CASE Reconfirm(w) BY <2>16 DEF Reconfirm
  <2>17. CASE Publish(w)   BY <2>17 DEF Publish
  <2>18. CASE Finish(w)    BY <2>18 DEF Finish
  <2>19. CASE Fail(w)      BY <2>19 DEF Fail
  <2>20. CASE Interrupt(w) BY <2>20 DEF Interrupt
  <2>21. CASE Escape(w)    BY <2>21 DEF Escape
  <2>22. CASE RecordFailed(w)
    BY <2>22 DEF RecordFailed, Record
  <2>23. CASE RecordCancelled(w)
    <3>1. /\ pc[w] = "interrupted"
          /\ pc' = [pc EXCEPT ![w] = "finally"]
          /\ \E result \in Results : call' = [call EXCEPT ![w].result = result]
      BY <2>23 DEF RecordCancelled, Record, Results
    <3> HIDE <2>23
    <3> QED BY <3>1
  <2> QED BY <1>7, <2>1, <2>2, <2>3, <2>4, <2>5, <2>6, <2>7, <2>8, <2>9, <2>10,
             <2>11, <2>12, <2>13, <2>14, <2>15, <2>16, <2>17, <2>18, <2>19,
             <2>20, <2>21, <2>22, <2>23 DEF Step
<1>8. ASSUME NEW w \in Writers, Crash(w) PROVE LocalsOK(v)'
  BY <1>8, <1>5 DEF Crash
<1> QED BY <1>3, <1>6, <1>7, <1>8 DEF Next

(* and after every step, with what is set at which program counter.         *)
LEMMA NextTyped == Typed /\ [Next]_vars => Typed'
<1>1. ASSUME Typed, Next PROVE Typed'
  BY <1>1, NextTypeOK, NextLocals DEF Typed
<1>2. ASSUME Typed, UNCHANGED vars PROVE Typed'
  BY <1>2 DEF Typed, TypeOK, LocalsOK, vars, env, disk
<1> QED BY <1>1, <1>2

(* Every variable keeps its type, and every local holds what the step that *)
(* uses it relies on, whatever strikes the calls.                          *)
THEOREM TypeCorrect == Spec => []TypeOK
<1>1. Spec => []Typed
  BY InitTyped, NextTyped, PTL DEF Spec
<1>2. Typed => TypeOK
  BY DEF Typed
<1> QED BY <1>1, <1>2, PTL

-----------------------------------------------------------------------------
(* The lease.                                                              *)

(* No step lets a second call own the lease.                                *)
LEMMA NextOneWriter == TypeOK /\ OneWriter /\ [Next]_vars => OneWriter'
<1> SUFFICES ASSUME TypeOK, OneWriter, [Next]_vars PROVE OneWriter'
  OBVIOUS
<1>1. ASSUME UNCHANGED <<pc, owned, lockFile>> PROVE OneWriter'
  BY <1>1 DEF OneWriter
<1>2. CASE UNCHANGED vars
  BY <1>1, <1>2 DEF vars, disk
<1>3. CASE Environment
  BY <1>1, <1>3 DEF Environment, WriteSource, MoveHead, ChangeConfig, DamageArtifact, disk
(* A call that moves on inside or outside the lease.                       *)
<1>4. ASSUME NEW w \in Writers, NEW step, pc' = [pc EXCEPT ![w] = step],
             UNCHANGED <<owned, lockFile>>, pc[w] \in Holding <=> step \in Holding
      PROVE  OneWriter'
  BY <1>4 DEF OneWriter, TypeOK
(* A call that ends, leaving the file or unlinking its own.                *)
<1>5. ASSUME NEW w \in Writers, Return(w),
             UNCHANGED lockFile \/ owned[w]
      PROVE  OneWriter'
  BY <1>5 DEF OneWriter, TypeOK, Return, Goto, Holding, Attempting, Preparing, Building
<1>6. ASSUME NEW w \in Writers, NEW force \in BOOLEAN, NEW scope \in Scopes,
             Start(w, force, scope)
      PROVE  OneWriter'
  BY <1>4, <1>6 DEF Start, Goto, disk, Holding, Attempting, Preparing, Building
<1>7. ASSUME NEW w \in Writers, Step(w) PROVE OneWriter'
  <2>1. CASE Acquire(w)
    BY <2>1 DEF Acquire, Goto, OneWriter, TypeOK, Holding
  <2>2. CASE Refused(w) \/ Leak(w)
    BY <2>2, <1>5 DEF Refused, Leak, disk
  <2>3. CASE Release(w)
    BY <2>3, <1>5 DEF Release, OneWriter, Holding
  <2>4. CASE ~(Acquire(w) \/ Refused(w) \/ Leak(w) \/ Release(w))
    <3>1. UNCHANGED <<owned, lockFile>>
      BY <1>7, <2>4 DEF Step, Load, LoadFails, Inventory, Observe, Configure, Reuse,
         Rebuild, Announce, Build, Seal, Recheck, Reconfirm, Publish, Finish, Fail,
         Interrupt, Escape, RecordFailed, RecordCancelled, disk
    <3>2. pc[w] \in Holding /\ \E step \in Holding : pc' = [pc EXCEPT ![w] = step]
      BY <1>7, <2>4 DEF Step, Load, LoadFails, Inventory, Observe, Configure, Reuse,
         Rebuild, Announce, Build, Seal, Recheck, Reconfirm, Publish, Finish, Fail,
         Interrupt, Escape, RecordFailed, RecordCancelled, Goto, Holding, Attempting,
         Preparing, Building
    <3> QED BY <3>1, <3>2, <1>4
  <2> QED BY <2>1, <2>2, <2>3, <2>4
<1>8. ASSUME NEW w \in Writers, Crash(w) PROVE OneWriter'
  BY <1>5, <1>8 DEF Crash, disk
<1> QED BY <1>2, <1>3, <1>6, <1>7, <1>8 DEF Next

(* However calls fail, leak or die, no two are inside the lease at once.   *)
THEOREM LeaseExcludes == Spec => []OneWriter
<1>1. Init => OneWriter
  BY DEF Init, OneWriter, Holding, Attempting, Preparing, Building
<1>2. TypeOK /\ OneWriter /\ [Next]_vars => OneWriter'
  BY NextOneWriter
<1> QED BY <1>1, <1>2, TypeCorrect, PTL DEF Spec

-----------------------------------------------------------------------------
(* What the call inside the lease knows of the files.                      *)

Started == Attempting \cup {"failing", "interrupted"}

(* A snapshot built from what it declares, and of a commit.                *)
Good(snapshot) ==
    snapshot # None =>
        /\ artifact[snapshot.gen].reads = {snapshot.content}
        /\ snapshot.content = Tree[snapshot.rev]

(* The manifest does not name the attempt of w yet, says that it is        *)
(* building, or that it succeeded.                                         *)
Unannounced(w) == manifest.latest = None \/ manifest.latest.id < call[w].att
Ongoing(w) ==
    /\ manifest.latest # None
    /\ manifest.latest.id = call[w].att
    /\ manifest.latest.status = "building"
Done(w) ==
    /\ Committed(w)
    /\ manifest.usable # None
    /\ manifest.usable.gen = call[w].att

Unchanged(w) == manifest.usable = call[w].base.usable

(* The manifest, by step.                                                  *)
ManifestStage(w) ==
    /\ pc[w] \in Started =>
         /\ call[w].att = attempts
         /\ Good(call[w].base.usable)
         /\ call[w].base.usable # None => call[w].base.usable.gen \in 1..(call[w].att - 1)
    /\ pc[w] \in Preparing => Unchanged(w) /\ Unannounced(w)
    /\ pc[w] \in Building => Unchanged(w) /\ Ongoing(w)
    /\ pc[w] = "failing" => Unchanged(w) /\ (Unannounced(w) \/ Ongoing(w))
    /\ pc[w] = "interrupted" =>
         Done(w) \/ (Unchanged(w) /\ (Unannounced(w) \/ Ongoing(w)))
    /\ pc[w] = "finish" =>
         \/ call[w].result = "published" /\ Done(w)
         \/ call[w].result = "no_op" /\ Unchanged(w) /\ Unannounced(w)
    /\ pc[w] \in {"idle", "acquire", "load", "backout"} => call[w].att = 0
    /\ pc[w] = "finally" /\ call[w].result = "published" => Done(w)
    /\ /\ pc[w] = "finally" /\ call[w].result \notin {"published", "raised"}
       /\ call[w].att # 0
       /\ "reload" \notin FaultPoints
       => Unchanged(w)

Reads(w) == artifact[call[w].att].reads

(* The source and the artifacts, by step.  A stamp never returns, so while *)
(* the source still has the observed stamp it has had it all along.        *)
SourceStage(w) ==
    /\ pc[w] \in {"configure", "decide", "announce"} \cup Building =>
         /\ call[w].obs.stamp <= source.stamp
         /\ call[w].obs.stamp = source.stamp => call[w].obs.content = source.content
    /\ pc[w] \in Preparing => Reads(w) = {}
    /\ pc[w] \in {"build", "seal", "recheck"} /\ call[w].obs.stamp = source.stamp =>
         Reads(w) \subseteq {call[w].obs.content}
    /\ pc[w] \in {"seal", "recheck"} => Reads(w) # {}
    /\ pc[w] \in {"reconfirm", "publish"} => Reads(w) = {call[w].obs.content}

Store ==
    /\ ValidManifest(manifest)
    /\ manifest.usable # None => manifest.latest # None
    /\ manifest.usable # None => manifest.usable.gen \in 1..attempts
    /\ manifest.latest # None => manifest.latest.id \in 1..attempts
    /\ Good(manifest.usable)
    /\ \A g \in Generations : g > attempts => artifact[g].reads = {}

Protocol ==
    /\ Store
    /\ \A w \in Writers : ManifestStage(w) /\ SourceStage(w)

Invariant == Typed /\ OneWriter /\ Protocol

(* Only the locals of w change.                                            *)
OnlyOf(w) ==
    \A v \in Writers \ {w} : pc'[v] = pc[v] /\ call'[v] = call[v]

(* A step of w that leaves the files and the source alone.                 *)
LEMMA QuietStep ==
    ASSUME Protocol, NEW w \in Writers, OnlyOf(w),
           UNCHANGED <<source, manifest, artifact, attempts>>,
           ManifestStage(w)', SourceStage(w)'
    PROVE  Protocol'
<1>1. Store'
  BY DEF Protocol, Store, Good
<1>2. ASSUME NEW v \in Writers, v # w PROVE ManifestStage(v)' /\ SourceStage(v)'
  <2>1. ManifestStage(v)'
    BY <1>2 DEF Protocol, OnlyOf, ManifestStage, Good, Unchanged, Unannounced, Ongoing,
       Done, Committed
  <2>2. SourceStage(v)'
    BY <1>2 DEF Protocol, OnlyOf, SourceStage, Reads
  <2> QED BY <2>1, <2>2
<1> QED BY <1>1, <1>2 DEF Protocol

(* A step of w inside the lease: all others are outside, where they know   *)
(* nothing.                                                                *)
LEMMA HolderStep ==
    ASSUME Typed, OneWriter, Protocol, NEW w \in Writers, pc[w] \in Holding, OnlyOf(w),
           Store', ManifestStage(w)', SourceStage(w)'
    PROVE  Protocol'
<1>1. ASSUME NEW v \in Writers, v # w PROVE ManifestStage(v)' /\ SourceStage(v)'
  <2>1. pc[v] \in {"idle", "acquire"}
    BY <1>1 DEF Typed, TypeOK, OneWriter
  <2>2. pc'[v] \in {"idle", "acquire"} /\ call'[v].att = 0
    BY <1>1, <2>1 DEF OnlyOf, Protocol, ManifestStage
  <2> QED BY <2>2 DEF ManifestStage, SourceStage, Started, Attempting, Preparing, Building
<1> QED BY <1>1 DEF Protocol

(* The world writes new stamps only, so it cannot make a stage untrue.      *)
LEMMA EnvironmentProtocol == Typed /\ Protocol /\ Environment => Protocol'
<1> SUFFICES ASSUME Typed, Protocol, Environment PROVE Protocol'
  OBVIOUS
<1>1. UNCHANGED <<manifest, attempts, pc, call>>
  BY DEF Environment, WriteSource, MoveHead, ChangeConfig, DamageArtifact, disk
<1>2. \A g \in Generations : artifact'[g].reads = artifact[g].reads
  <2>1. ASSUME NEW g \in Generations, DamageArtifact(g)
        PROVE  \A h \in Generations : artifact'[h].reads = artifact[h].reads
    <3>1. artifact \in [Generations -> Artifact]
      BY DEF Typed, TypeOK
    <3> QED BY <2>1, <3>1 DEF DamageArtifact, Artifact
  <2> QED BY <2>1 DEF Environment, WriteSource, MoveHead, ChangeConfig, disk
<1>3. /\ source.stamp \in Nat /\ source'.stamp \in Nat /\ source.stamp <= source'.stamp
      /\ source'.stamp = source.stamp => source'.content = source.content
  <2>1. source \in Source
    BY DEF Typed, TypeOK
  <2>2. ASSUME NEW c \in Contents, WriteSource(c)
        PROVE  source'.stamp = source.stamp + 1
    BY <2>1, <2>2 DEF WriteSource, Source
  <2>3. ASSUME NEW r \in Revisions, MoveHead(r)
        PROVE  source'.stamp = source.stamp /\ source'.content = source.content
    BY <2>1, <2>3 DEF MoveHead, Source
  <2>4. source.stamp \in Nat
    BY <2>1 DEF Source
  <2> QED BY <2>2, <2>3, <2>4 DEF Environment, ChangeConfig, DamageArtifact, env
<1>4. 1..attempts \subseteq Generations
  BY BoundsAssumption DEF Typed, TypeOK, Generations
<1>5. Store'
  BY <1>1, <1>2, <1>4 DEF Protocol, Store, Good
<1>6. ASSUME NEW w \in Writers PROVE ManifestStage(w)'
  <2>1. ASSUME pc[w] \in Started, call[w].base.usable # None
        PROVE  call[w].base.usable.gen \in Generations
    BY <1>4, <2>1, BoundsAssumption DEF Protocol, ManifestStage, Typed, TypeOK, Generations
  <2>2. pc[w] \in Started => Good(call[w].base.usable)'
    BY <1>1, <1>2, <2>1 DEF Protocol, ManifestStage, Good
  <2> QED BY <1>1, <2>2 DEF Protocol, ManifestStage, Unchanged, Unannounced, Ongoing,
             Done, Committed
<1>7. ASSUME NEW w \in Writers PROVE SourceStage(w)'
  <2>1. pc[w] \in Started => Reads(w)' = Reads(w)
    BY <1>1, <1>2 DEF Typed, LocalsOK, Started, Reads
  <2>2. pc[w] \in Observed => call[w].obs.stamp \in Nat
    BY DEF Typed, LocalsOK, Source
  <2> QED BY <1>1, <1>3, <2>1, <2>2 DEF Protocol, SourceStage, Started, Attempting,
             Preparing, Building, Observed
<1> QED BY <1>5, <1>6, <1>7 DEF Protocol

(* A call that returns knows nothing any more.                              *)
LEMMA ReturnStage ==
    ASSUME TypeOK, NEW w \in Writers, Return(w)
    PROVE  OnlyOf(w) /\ ManifestStage(w)' /\ SourceStage(w)'
<1>1. pc'[w] = "idle" /\ call'[w].att = 0
  BY DEF TypeOK, Return, Goto, NoCall
<1>2. OnlyOf(w)
  BY DEF TypeOK, Return, Goto, OnlyOf
<1> QED BY <1>1, <1>2 DEF ManifestStage, SourceStage, Started, Attempting, Preparing, Building

(* Steps that neither write a file the manifest depends on nor look at the *)
(* source: the lease, the checks passed, the exceptions raised.            *)
LEMMA QuietProtocol ==
    ASSUME Typed, Protocol, NEW w \in Writers,
           \/ \E force \in BOOLEAN, scope \in Scopes : Start(w, force, scope)
           \/ Acquire(w) \/ Refused(w) \/ Release(w) \/ Leak(w) \/ Crash(w)
           \/ LoadFails(w) \/ Inventory(w) \/ Observe(w) \/ Configure(w)
           \/ Reuse(w) \/ Rebuild(w) \/ Seal(w) \/ Recheck(w) \/ Reconfirm(w)
           \/ Finish(w) \/ Fail(w) \/ Interrupt(w) \/ Escape(w)
    PROVE  Protocol'
<1>1. UNCHANGED <<source, manifest, artifact, attempts>>
  BY DEF Start, Acquire, Refused, Release, Leak, Crash, LoadFails, Inventory, Observe,
     Configure, Reuse, Rebuild, Seal, Recheck, Reconfirm, Finish, Fail, Interrupt, Escape,
     env, disk
<1>2. TypeOK /\ ManifestStage(w) /\ SourceStage(w)
  BY DEF Typed, Protocol
<1>3. CASE Refused(w) \/ Release(w) \/ Leak(w) \/ Crash(w)
  BY <1>1, <1>2, <1>3, ReturnStage, QuietStep DEF Refused, Release, Leak, Crash
<1> USE <1>1, <1>2 DEF TypeOK, Goto, ManifestStage, SourceStage, Started, Attempting,
                      Preparing, Building, Good, Unchanged, Unannounced, Ongoing, Done,
                      Committed, Reads, OnlyOf
<1>4. ASSUME NEW force \in BOOLEAN, NEW scope \in Scopes, Start(w, force, scope)
      PROVE  Protocol'
  <2>1. pc[w] = "idle" /\ pc' = [pc EXCEPT ![w] = "acquire"]
    BY <1>4 DEF Start
  <2>2. call'[w].att = call[w].att /\ OnlyOf(w)
    <3> HIDE DEF Goto, ManifestStage, SourceStage
    <3>1. call \in [Writers -> Call]
      OBVIOUS
    <3>2. call' = [call EXCEPT ![w] = [call[w] EXCEPT !.force = force, !.scope = scope]]
      BY <1>4, <3>1 DEF Start
    <3>3. [call[w] EXCEPT !.force = force, !.scope = scope].att = call[w].att
      BY <3>1 DEF Call
    <3> QED BY <2>1, <3>1, <3>2, <3>3
  <2> QED BY <2>1, <2>2, QuietStep
<1>5. CASE Acquire(w)   BY <1>5, QuietStep DEF Acquire
<1>6. CASE LoadFails(w) BY <1>6, QuietStep DEF LoadFails
<1>7. CASE Inventory(w) BY <1>7, QuietStep DEF Inventory
<1>8. CASE Observe(w)
  <2>1. source.stamp <= source.stamp
    BY DEF Source
  <2> QED BY <1>8, <2>1, QuietStep DEF Observe
<1>9. CASE Configure(w) BY <1>9, QuietStep DEF Configure
<1>10. CASE Reuse(w)    BY <1>10, QuietStep DEF Reuse
<1>11. CASE Rebuild(w)  BY <1>11, QuietStep DEF Rebuild
<1>12. CASE Seal(w)     BY <1>12, QuietStep DEF Seal
<1>13. CASE Recheck(w)
  <2>1. source = call[w].obs
    BY <1>13 DEF Recheck, Rejects
  <2>2. Reads(w) = {call[w].obs.content}
    BY <1>13, <2>1 DEF Recheck
  <2> QED BY <1>13, <2>2, QuietStep DEF Recheck
<1>14. CASE Reconfirm(w) BY <1>14, QuietStep DEF Reconfirm
<1>15. CASE Finish(w)    BY <1>15, QuietStep DEF Finish
<1>16. CASE Fail(w)      BY <1>16, QuietStep DEF Fail
<1>17. CASE Interrupt(w) BY <1>17, QuietStep DEF Interrupt
<1>18. CASE Escape(w)    BY <1>18, QuietStep DEF Escape
<1> HIDE DEF TypeOK, Goto, ManifestStage, SourceStage, Started, Attempting, Preparing,
            Building, Good, Unchanged, Unannounced, Ongoing, Done, Committed, Reads, OnlyOf
<1> QED BY <1>3, <1>4, <1>5, <1>6, <1>7, <1>8, <1>9, <1>10, <1>11, <1>12, <1>13, <1>14,
           <1>15, <1>16, <1>17, <1>18

(* Steps that write the manifest or the artifacts, or mint an attempt: all *)
(* inside the lease.                                                       *)
LEMMA HolderProtocol ==
    ASSUME Typed, OneWriter, Protocol, NEW w \in Writers,
           \/ Load(w) \/ Announce(w) \/ Build(w) \/ Publish(w)
           \/ RecordFailed(w) \/ RecordCancelled(w)
    PROVE  Protocol'
<1>1. TypeOK /\ LocalsOK(w) /\ Store /\ ManifestStage(w) /\ SourceStage(w)
  BY DEF Typed, Protocol
<1>2. pc[w] \in Holding /\ OnlyOf(w) /\ UNCHANGED source
  BY <1>1 DEF TypeOK, OnlyOf, Load, Announce, Build, Publish, RecordFailed,
     RecordCancelled, Record, Goto, Holding, Attempting, Preparing, Building, env
<1>3. SUFFICES Store' /\ ManifestStage(w)' /\ SourceStage(w)'
  BY <1>2, HolderStep
<1>4. attempts \in Nat /\ 1..attempts \subseteq Generations
  BY <1>1, BoundsAssumption DEF TypeOK, Generations
<1>5. CASE Load(w)
  <2>1. /\ pc[w] = "load" /\ pc' = [pc EXCEPT ![w] = "inventory"]
        /\ UNCHANGED <<source, manifest, artifact>>
        /\ attempts' = attempts + 1
    BY <1>5 DEF Load, Goto, env, disk
  <2>2. call'[w].base = manifest /\ call'[w].att = attempts + 1
    <3>1. call \in [Writers -> Call]
      BY <1>1 DEF TypeOK
    <3>2. call' = [call EXCEPT ![w] = [call[w] EXCEPT !.base = manifest, !.att = attempts + 1]]
      BY <1>5, <3>1 DEF Load
    <3>3. /\ [call[w] EXCEPT !.base = manifest, !.att = attempts + 1].base = manifest
          /\ [call[w] EXCEPT !.base = manifest, !.att = attempts + 1].att = attempts + 1
      BY <3>1 DEF Call
    <3> QED BY <3>1, <3>2, <3>3
  <2>3. attempts + 1 \in Generations
    BY <1>5, <1>1, BoundsAssumption DEF Load, TypeOK, Generations
  <2>4. pc'[w] = "inventory"
    BY <1>1, <2>1 DEF TypeOK
  <2>5. Store'
    BY <1>1, <1>4, <2>1 DEF Store, Good, Generations
  <2>6. ManifestStage(w)'
    BY <1>1, <1>4, <2>1, <2>2, <2>4 DEF Store, ManifestStage, Good, Started, Attempting,
       Preparing, Building, Unchanged, Unannounced
  <2>7. SourceStage(w)'
    BY <1>1, <1>4, <2>1, <2>2, <2>3, <2>4 DEF Store, SourceStage, Preparing, Building, Reads
  <2> QED BY <2>5, <2>6, <2>7
(* The attempt of a started call is the newest one.                        *)
<1>6. ASSUME pc[w] \in Started
      PROVE  /\ call[w].att = attempts /\ call[w].att \in 1..attempts
             /\ \A status : AttemptOf(w, status).id = call[w].att
                            /\ AttemptOf(w, status).status = status
             /\ \A status \in {"building"} \cup Ended : AttemptOf(w, status) # None
             /\ Good(call[w].base.usable)
             /\ call[w].base.usable # None => call[w].base.usable.gen \in 1..(attempts - 1)
  <2>1. call[w].att = attempts /\ call[w].att \in Generations
    BY <1>1, <1>6 DEF ManifestStage, LocalsOK, Started
  <2>2. \A status : AttemptOf(w, status).id = call[w].att /\ AttemptOf(w, status).status = status
    BY DEF AttemptOf
  <2>3. \A status \in {"building"} \cup Ended : AttemptOf(w, status) # None
    BY <1>1, AttemptOfType, NoneIsNoRecord
  <2> QED BY <1>1, <1>4, <1>6, <2>1, <2>2, <2>3, BoundsAssumption DEF ManifestStage, Generations
<1>7. CASE Announce(w)
  <2>1. /\ pc[w] = "announce" /\ pc'[w] = "build"
        /\ UNCHANGED <<source, artifact, attempts, call>>
        /\ manifest' = [usable |-> call[w].base.usable, latest |-> AttemptOf(w, "building")]
    BY <1>1, <1>7 DEF Announce, Goto, env, TypeOK
  <2>2. pc[w] \in Started /\ pc[w] \in Preparing
    BY <2>1 DEF Started, Attempting, Preparing
  <2>3. Store'
    BY <1>1, <1>4, <1>6, <2>1, <2>2 DEF Store, ValidManifest, Good
  <2>4. ManifestStage(w)'
    BY <1>1, <1>6, <2>1, <2>2 DEF ManifestStage, Good, Started, Attempting, Preparing,
       Building, Unchanged, Ongoing
  <2>5. SourceStage(w)'
    BY <1>1, <2>1, <2>2 DEF SourceStage, Preparing, Building, Reads
  <2> QED BY <2>3, <2>4, <2>5
<1>8. CASE Build(w)
  <2>1. /\ pc[w] = "build" /\ pc'[w] \in {"build", "seal"}
        /\ UNCHANGED <<source, manifest, attempts, call>>
    BY <1>1, <1>8 DEF Build, Goto, env, TypeOK
  <2>2. pc[w] \in Started /\ pc[w] \in Building /\ pc'[w] \in Building
    BY <2>1 DEF Started, Attempting, Building
  <2>3. /\ \A g \in Generations \ {call[w].att} : artifact'[g].reads = artifact[g].reads
        /\ artifact'[call[w].att].reads = artifact[call[w].att].reads \cup {source.content}
    <3>1. artifact \in [Generations -> Artifact] /\ call[w].att \in Generations
      BY <1>1, <1>4, <1>6, <2>2 DEF TypeOK
    <3>2. artifact' = [artifact EXCEPT ![call[w].att] =
             [artifact[call[w].att] EXCEPT !.reads = @ \cup {source.content},
                                           !.configs = @ \cup {config}]]
      BY <1>8, <3>1 DEF Build
    <3>3. [artifact[call[w].att] EXCEPT !.reads = @ \cup {source.content},
                                        !.configs = @ \cup {config}].reads
            = artifact[call[w].att].reads \cup {source.content}
      BY <3>1 DEF Artifact
    <3> QED BY <3>1, <3>2, <3>3
  <2>4. manifest.usable # None => manifest.usable.gen \in 1..(attempts - 1)
    BY <1>1, <1>6, <2>2 DEF ManifestStage, Unchanged
  <2>5. Store'
    BY <1>1, <1>4, <1>6, <2>1, <2>2, <2>3, <2>4 DEF Store, Good, Generations
  <2>6. Good(call[w].base.usable)'
    BY <1>1, <1>4, <1>6, <2>1, <2>2, <2>3 DEF Good, Generations
  <2>7. ManifestStage(w)'
    BY <1>1, <1>6, <2>1, <2>2, <2>6 DEF ManifestStage, Started, Attempting, Preparing,
       Building, Unchanged, Ongoing
  <2>8. SourceStage(w)'
    BY <1>1, <2>1, <2>2, <2>3 DEF SourceStage, Preparing, Building, Reads
  <2> QED BY <2>5, <2>7, <2>8
<1>9. CASE Publish(w)
  <2>1. /\ pc[w] = "publish" /\ pc'[w] = "finish"
        /\ UNCHANGED <<source, artifact, attempts>>
        /\ manifest' = [usable |-> SnapshotOf(w), latest |-> AttemptOf(w, "succeeded")]
    BY <1>1, <1>9 DEF Publish, Goto, env, TypeOK
  <2>2. /\ call'[w].result = "published" /\ call'[w].att = call[w].att
        /\ call'[w].base = call[w].base
    BY <1>1, <1>9 DEF Publish, TypeOK, Call
  <2>3. pc[w] \in Started /\ pc[w] \in Observed
    BY <2>1 DEF Started, Attempting, Building, Observed
  <2>4. /\ SnapshotOf(w).gen = call[w].att
        /\ SnapshotOf(w).rev = AttemptOf(w, "succeeded").rev
        /\ Reads(w) = {SnapshotOf(w).content}
        /\ SnapshotOf(w).content = Tree[SnapshotOf(w).rev]
    BY <1>1, <2>1, <2>3, NoneIsNoRecord DEF SnapshotOf, AttemptOf, SourceStage, LocalsOK
  <2>5. SnapshotOf(w) # None
    BY <1>1, <2>1, SnapshotOfType, NoneIsNoRecord
  <2>6. "succeeded" \in Ended
    BY DEF Ended
  <2>7. Store'
    BY <1>1, <1>4, <1>6, <2>1, <2>3, <2>4, <2>5, <2>6 DEF Store, ValidManifest, Good, Reads
  <2>8. Good(call[w].base.usable)'
    BY <1>6, <2>1, <2>2, <2>3 DEF Good
  <2>9. ManifestStage(w)'
    BY <1>1, <1>6, <2>1, <2>2, <2>3, <2>4, <2>5, <2>6, <2>8 DEF ManifestStage, Started,
       Attempting, Preparing, Building, Done, Committed
  <2>10. SourceStage(w)'
    BY <2>1 DEF SourceStage, Preparing, Building
  <2> QED BY <2>7, <2>9, <2>10
<1>10. ASSUME NEW status \in {"failed", "cancelled"}, Record(w, status),
              pc[w] \in {"failing", "interrupted"}, pc'[w] = "finally",
              pc[w] = "failing" \/ ~Committed(w) \/ "reload" \in FaultPoints,
              UNCHANGED <<source, artifact, attempts>>
       PROVE  Store' /\ ManifestStage(w)' /\ SourceStage(w)'
  <2>1. pc[w] \in Started
    BY <1>10 DEF Started
  <2>2. /\ call'[w].result = status /\ call'[w].att = call[w].att
        /\ call'[w].base = call[w].base
    BY <1>1, <1>10 DEF Record, TypeOK, Call
  <2>3. status \in Ended
    BY DEF Ended
  <2>4. CASE UNCHANGED manifest
    <3>1. Store'
      BY <1>1, <1>10, <2>4 DEF Store, Good
    <3>2. "reload" \notin FaultPoints => Unchanged(w)
      BY <1>1, <1>10 DEF ManifestStage, Done
    <3>3. ManifestStage(w)'
      BY <1>10, <2>2, <2>4, <3>2 DEF ManifestStage, Started, Attempting, Preparing,
         Building, Unchanged
    <3> QED BY <1>10, <3>1, <3>3 DEF SourceStage, Preparing, Building
  <2>5. CASE manifest' = [usable |-> call[w].base.usable, latest |-> AttemptOf(w, status)]
    <3>1. Store'
      BY <1>1, <1>4, <1>6, <1>10, <2>1, <2>3, <2>5 DEF Store, ValidManifest, Good
    <3>2. ManifestStage(w)'
      BY <1>10, <2>2, <2>5 DEF ManifestStage, Started, Attempting, Preparing, Building,
         Unchanged
    <3> QED BY <1>10, <3>1, <3>2 DEF SourceStage, Preparing, Building
  <2> QED BY <1>10, <2>4, <2>5 DEF Record
<1>11. CASE RecordFailed(w)
  <2>1. /\ pc[w] = "failing" /\ pc'[w] = "finally" /\ Record(w, "failed")
        /\ UNCHANGED <<source, artifact, attempts>>
    BY <1>1, <1>11 DEF RecordFailed, Goto, env, TypeOK
  <2> QED BY <1>10, <2>1
<1>12. CASE RecordCancelled(w)
  <2>1. /\ pc[w] = "interrupted" /\ pc'[w] = "finally"
        /\ UNCHANGED <<source, artifact, attempts>>
    BY <1>1, <1>12 DEF RecordCancelled, Goto, env, TypeOK
  <2>2. CASE Record(w, "cancelled") /\ (~Committed(w) \/ "reload" \in FaultPoints)
    BY <1>10, <2>1, <2>2
  <2>3. CASE /\ Committed(w) /\ call' = [call EXCEPT ![w].result = "published"]
             /\ UNCHANGED manifest
    <3>1. call'[w].result = "published" /\ call'[w].att = call[w].att
      BY <1>1, <2>3 DEF TypeOK, Call
    <3>2. Done(w)
      BY <1>1, <1>6, <2>1, <2>3 DEF ManifestStage, Committed, Unannounced, Ongoing, Started
    <3>3. Store'
      BY <1>1, <2>1, <2>3 DEF Store, Good
    <3>4. ManifestStage(w)'
      BY <2>1, <2>3, <3>1, <3>2 DEF ManifestStage, Started, Attempting, Preparing, Building,
         Done, Committed
    <3> QED BY <2>1, <3>3, <3>4 DEF SourceStage, Preparing, Building
  <2> QED BY <1>12, <2>2, <2>3 DEF RecordCancelled
<1> QED BY <1>5, <1>7, <1>8, <1>9, <1>11, <1>12

(* The protocol holds of an empty store,                                    *)
LEMMA InitProtocol == Init => Protocol
<1> SUFFICES ASSUME Init PROVE Protocol
  OBVIOUS
<1>1. Store
  BY NoneIsNoRecord DEF Init, Store, ValidManifest, NoManifest, Good
<1>2. ASSUME NEW w \in Writers PROVE ManifestStage(w) /\ SourceStage(w)
  BY DEF Init, NoCall, ManifestStage, SourceStage, Started, Attempting, Preparing, Building
<1> QED BY <1>1, <1>2 DEF Protocol

(* and every step keeps it.                                                 *)
LEMMA NextProtocol == Typed /\ OneWriter /\ Protocol /\ [Next]_vars => Protocol'
<1>1. ASSUME Typed, OneWriter, Protocol, Next PROVE Protocol'
  BY <1>1, EnvironmentProtocol, QuietProtocol, HolderProtocol DEF Next, Step
<1>2. ASSUME Protocol, UNCHANGED vars PROVE Protocol'
  BY <1>2 DEF Protocol, Store, Good, ManifestStage, SourceStage, Unchanged, Unannounced,
     Ongoing, Done, Committed, Reads, vars, env, disk
<1> QED BY <1>1, <1>2

(* The invariant holds in every state.                                      *)
LEMMA InvariantHolds == Spec => []Invariant
<1>1. Init => Invariant
  BY InitTyped, InitProtocol DEF Invariant, Init, OneWriter, Holding, Attempting, Preparing,
     Building
<1>2. Invariant /\ [Next]_vars => Invariant'
  BY NextTyped, NextOneWriter, NextProtocol DEF Invariant, Typed
<1> QED BY <1>1, <1>2, PTL DEF Spec

-----------------------------------------------------------------------------
(* No call overwrites what another one published: the last_usable each     *)
(* writer carries from its start is still the one of the manifest whenever *)
(* it may write it back.                                                   *)
THEOREM NoLostUpdate == Spec => []BaseIsCurrent
<1>1. Invariant => BaseIsCurrent
  BY DEF Invariant, Protocol, BaseIsCurrent, ManifestStage, Unchanged
<1> QED BY <1>1, InvariantHolds, PTL

(* The validation in KnowledgeManifest's constructor never fails for a     *)
(* manifest the service writes.                                            *)
THEOREM ManifestAlwaysValid == Spec => []ManifestIsValid
<1>1. Invariant => ManifestIsValid
  BY DEF Invariant, Protocol, Store, ManifestIsValid
<1> QED BY <1>1, InvariantHolds, PTL

(* What is usable was built from exactly the bytes of its fingerprint,     *)
(* however often and in whatever order the tree changed meanwhile.         *)
THEOREM BuiltFromFingerprintAlways == Spec => []BuiltFromFingerprint
<1>1. Invariant => BuiltFromFingerprint
  BY DEF Invariant, Protocol, Store, Good, BuiltFromFingerprint
<1> QED BY <1>1, InvariantHolds, PTL

(* What is usable is the tree of the commit it names.                      *)
THEOREM UsableAlwaysCommitted == Spec => []UsableIsCommitted
<1>1. Invariant => UsableIsCommitted
  BY DEF Invariant, Protocol, Store, Good, UsableIsCommitted
<1> QED BY <1>1, InvariantHolds, PTL

(* A call never misreports, as long as the manifest can be read back after *)
(* a cancellation.                                                         *)
THEOREM ResultAlwaysTrue ==
    ASSUME "reload" \notin FaultPoints
    PROVE  Spec => []ResultIsTrue
<1>1. Invariant => ResultIsTrue
  BY DEF Invariant, Protocol, ManifestStage, ResultIsTrue, Done, Unchanged
<1> QED BY <1>1, InvariantHolds, PTL

-----------------------------------------------------------------------------
(* What interrupts, faults and crashes can leave behind: the two theorems  *)
(* name the only points at which a lease or an attempt is orphaned.        *)

(* Without a kill, a signal or an error in the clauses that release the     *)
(* lease, it never outlives its call.                                       *)
LEMMA NextLeaseHasOwner ==
    ASSUME ~MayCrash, {"finally", "backout"} \cap (InterruptPoints \cup FaultPoints) = {},
           TypeOK, OneWriter, LeaseHasOwner, [Next]_vars
    PROVE  LeaseHasOwner'
<1>1. CASE UNCHANGED vars
  BY <1>1 DEF LeaseHasOwner, vars, disk
<1>2. CASE Environment
  BY <1>2 DEF Environment, WriteSource, MoveHead, ChangeConfig, DamageArtifact, LeaseHasOwner, disk
<1>3. ASSUME NEW w \in Writers, NEW force \in BOOLEAN, NEW scope \in Scopes,
             Start(w, force, scope)
      PROVE  LeaseHasOwner'
  BY <1>3 DEF Start, LeaseHasOwner, disk
<1>4. ASSUME NEW w \in Writers, Step(w) PROVE LeaseHasOwner'
  <2>1. CASE Acquire(w)
    <3>1. owned'[w]
      BY <2>1 DEF Acquire, TypeOK
    <3> QED BY <3>1 DEF LeaseHasOwner
  <2>2. CASE Refused(w)
    <3>1. ~owned[w] /\ UNCHANGED lockFile
      BY <2>2 DEF Refused, OneWriter, Holding, Attempting, Preparing, Building, disk
    <3>2. \A v \in Writers : owned[v] => owned'[v]
      BY <2>2, <3>1 DEF Refused, Return, TypeOK
    <3> QED BY <3>1, <3>2 DEF LeaseHasOwner
  <2>3. CASE Release(w)
    BY <2>3 DEF Release, LeaseHasOwner
  <2>4. CASE Leak(w)
    BY <2>4 DEF Leak
  <2>5. CASE ~(Acquire(w) \/ Refused(w) \/ Leak(w) \/ Release(w))
    <3>1. UNCHANGED <<owned, lockFile>>
      BY <1>4, <2>5 DEF Step, Load, LoadFails, Inventory, Observe, Configure, Reuse,
         Rebuild, Announce, Build, Seal, Recheck, Reconfirm, Publish, Finish, Fail,
         Interrupt, Escape, RecordFailed, RecordCancelled, disk
    <3> QED BY <3>1 DEF LeaseHasOwner
  <2> QED BY <2>1, <2>2, <2>3, <2>4, <2>5
<1>5. ASSUME NEW w \in Writers, Crash(w) PROVE FALSE
  BY <1>5 DEF Crash
<1> QED BY <1>1, <1>2, <1>3, <1>4, <1>5 DEF Next

(* The lease file outlives its owner only by a kill, or by an interrupt or *)
(* a failed unlink in the clauses that release it, before the deferral is  *)
(* installed: nothing else a call goes through leaks it.                   *)
THEOREM LeaseAlwaysOwned ==
    ASSUME ~MayCrash, {"finally", "backout"} \cap (InterruptPoints \cup FaultPoints) = {}
    PROVE  Spec => []LeaseHasOwner
<1>1. Init => LeaseHasOwner
  BY DEF Init, LeaseHasOwner
<1>2. TypeOK /\ OneWriter /\ LeaseHasOwner /\ [Next]_vars => LeaseHasOwner'
  BY NextLeaseHasOwner
<1> QED BY <1>1, <1>2, TypeCorrect, LeaseExcludes, PTL DEF Spec

(* Without a kill, a failing record or a signal on entry to the handlers,   *)
(* no attempt is left in the state building.                                *)
LEMMA NextBuildingHasBuilder ==
    ASSUME ~MayCrash, "record" \notin FaultPoints, EscapePoints \cap Building = {},
           InterruptPoints \cap {"failing", "interrupted"} = {},
           TypeOK, OneWriter, BuildingHasBuilder, [Next]_vars
    PROVE  BuildingHasBuilder'
<1>1. SUFFICES ASSUME manifest'.latest # None, manifest'.latest.status = "building"
               PROVE  \E w \in Writers :
                        /\ pc'[w] \in Building \cup {"failing", "interrupted"}
                        /\ call'[w].att = manifest'.latest.id
  BY DEF BuildingHasBuilder
<1>2. CASE UNCHANGED <<manifest, pc, call>>
  BY <1>1, <1>2 DEF BuildingHasBuilder
(* A call whose step leaves the manifest as it is.                         *)
<1>3. ASSUME NEW w \in Writers, UNCHANGED manifest,
             \A v \in Writers \ {w} : pc'[v] = pc[v] /\ call'[v] = call[v],
             pc[w] \in Building \cup {"failing", "interrupted"} =>
                 /\ pc'[w] \in Building \cup {"failing", "interrupted"}
                 /\ call'[w].att = call[w].att
      PROVE  \E v \in Writers :
               /\ pc'[v] \in Building \cup {"failing", "interrupted"}
               /\ call'[v].att = manifest'.latest.id
  <2>1. PICK v \in Writers : /\ pc[v] \in Building \cup {"failing", "interrupted"}
                             /\ call[v].att = manifest.latest.id
    BY <1>1, <1>3 DEF BuildingHasBuilder
  <2> QED BY <1>3, <2>1
<1>4. CASE Environment \/ UNCHANGED vars
  BY <1>2, <1>4 DEF Environment, WriteSource, MoveHead, ChangeConfig, DamageArtifact, disk, vars
<1>5. ASSUME NEW w \in Writers, NEW force \in BOOLEAN, NEW scope \in Scopes,
             Start(w, force, scope)
      PROVE  \E v \in Writers :
               /\ pc'[v] \in Building \cup {"failing", "interrupted"}
               /\ call'[v].att = manifest'.latest.id
  BY <1>3, <1>5 DEF Start, Goto, disk, TypeOK, Building
<1>6. ASSUME NEW w \in Writers, Step(w)
      PROVE  \E v \in Writers :
               /\ pc'[v] \in Building \cup {"failing", "interrupted"}
               /\ call'[v].att = manifest'.latest.id
  <2>1. CASE Announce(w)
    <3>1. pc'[w] \in Building /\ call'[w].att = manifest'.latest.id
      BY <2>1 DEF Announce, Goto, TypeOK, Building, AttemptOf
    <3> QED BY <3>1
  <2>2. CASE Publish(w)
    BY <1>1, <2>2 DEF Publish, AttemptOf
  <2>3. CASE RecordFailed(w)
    BY <1>1, <2>3 DEF RecordFailed, Record, AttemptOf
  <2>4. CASE RecordCancelled(w)
    <3>1. CASE Committed(w) /\ UNCHANGED manifest
      BY <1>1, <3>1 DEF Committed
    <3>2. CASE Record(w, "cancelled")
      BY <1>1, <3>2 DEF Record, AttemptOf
    <3> QED BY <2>4, <3>1, <3>2 DEF RecordCancelled
  <2>5. CASE Release(w) \/ Leak(w) \/ Refused(w) \/ Acquire(w)
    BY <1>3, <2>5 DEF Release, Leak, Refused, Acquire, Return, Goto, TypeOK, Building, disk
  <2>6. CASE Load(w) \/ LoadFails(w) \/ Inventory(w) \/ Observe(w) \/ Configure(w) \/ Reuse(w)
    BY <1>3, <2>6 DEF Load, LoadFails, Inventory, Observe, Configure, Reuse, Goto, TypeOK, Building, disk
  <2>7. CASE Rebuild(w) \/ Build(w) \/ Seal(w) \/ Recheck(w) \/ Reconfirm(w) \/ Finish(w)
    BY <1>3, <2>7 DEF Rebuild, Build, Seal, Recheck, Reconfirm, Finish, Goto, TypeOK, Building, disk
  <2>8. CASE Fail(w) \/ Interrupt(w)
    BY <1>3, <2>8 DEF Fail, Interrupt, Goto, TypeOK, disk
  <2>9. CASE Escape(w)
    <3>1. pc[w] \notin Building \cup {"failing", "interrupted"}
      BY <2>9 DEF Escape, Attempting, Preparing, Building
    <3> QED BY <1>3, <2>9, <3>1 DEF Escape, Goto, TypeOK, disk
  <2> QED BY <1>6, <2>1, <2>2, <2>3, <2>4, <2>5, <2>6, <2>7, <2>8, <2>9 DEF Step
<1>7. ASSUME NEW w \in Writers, Crash(w) PROVE FALSE
  BY <1>7 DEF Crash
<1> QED BY <1>4, <1>5, <1>6, <1>7 DEF Next

(* A building attempt is orphaned only by a kill, by a failed write of its *)
(* end, by an exception no except clause of the build names, or by an      *)
(* interrupt on entry to one of them: nothing else a call goes through,    *)
(* and no other call, leaves one behind.                                   *)
THEOREM BuildingAlwaysHasBuilder ==
    ASSUME ~MayCrash, "record" \notin FaultPoints, EscapePoints \cap Building = {},
           InterruptPoints \cap {"failing", "interrupted"} = {}
    PROVE  Spec => []BuildingHasBuilder
<1>1. Init => BuildingHasBuilder
  BY DEF Init, BuildingHasBuilder, NoManifest
<1>2. TypeOK /\ OneWriter /\ BuildingHasBuilder /\ [Next]_vars => BuildingHasBuilder'
  BY NextBuildingHasBuilder
<1> QED BY <1>1, <1>2, TypeCorrect, LeaseExcludes, PTL DEF Spec

-----------------------------------------------------------------------------
(* The steps that write the manifest, and what they leave alone.           *)
LEMMA ManifestWriters ==
    ASSUME Next
    PROVE  \/ UNCHANGED manifest
           \/ \E w \in Writers :
                /\ Announce(w) \/ Publish(w) \/ RecordFailed(w) \/ RecordCancelled(w)
                /\ UNCHANGED artifact
  BY DEF Next, Environment, WriteSource, MoveHead, ChangeConfig, DamageArtifact, Start, Step,
     Crash, Acquire, Refused, Release, Leak, Load, LoadFails, Inventory, Observe, Configure,
     Reuse, Rebuild, Announce, Build, Seal, Recheck, Reconfirm, Publish, Finish, Fail,
     Interrupt, Escape, RecordFailed, RecordCancelled, disk

(* Recording an end keeps the last usable snapshot and names the attempt   *)
(* of the call, which was in progress or is new.                           *)
LEMMA RecordedEnd ==
    ASSUME Invariant, NEW w \in Writers, NEW status \in {"failed", "cancelled"},
           Unchanged(w), Unannounced(w) \/ Ongoing(w), Record(w, status), manifest' # manifest
    PROVE  /\ manifest'.usable = manifest.usable
           /\ manifest'.latest = AttemptOf(w, status)
  BY DEF Record, Unchanged

(* The end of an attempt, as the interrupted or failed call records it.    *)
LEMMA EndStep ==
    ASSUME Invariant, "reload" \notin FaultPoints, NEW w \in Writers,
           RecordFailed(w) \/ RecordCancelled(w), manifest' # manifest
    PROVE  /\ Unchanged(w) /\ (Unannounced(w) \/ Ongoing(w))
           /\ manifest'.usable = manifest.usable
           /\ \E status \in {"failed", "cancelled"} : manifest'.latest = AttemptOf(w, status)
<1>1. CASE RecordFailed(w)
  <2>1. Unchanged(w) /\ (Unannounced(w) \/ Ongoing(w))
    BY <1>1 DEF RecordFailed, Invariant, Protocol, ManifestStage
  <2> QED BY <1>1, <2>1, RecordedEnd DEF RecordFailed
<1>2. CASE RecordCancelled(w)
  <2>1. ~Committed(w) /\ Record(w, "cancelled")
    BY <1>2 DEF RecordCancelled
  <2>2. Unchanged(w) /\ (Unannounced(w) \/ Ongoing(w))
    BY <1>2, <2>1 DEF RecordCancelled, Invariant, Protocol, ManifestStage, Done
  <2> QED BY <2>1, <2>2, RecordedEnd
<1> QED BY <1>1, <1>2

-----------------------------------------------------------------------------
(* A call that does not hold the lease never writes the manifest.          *)
THEOREM OnlyHolderEverWrites == Spec => OnlyHolderWrites
<1>1. ASSUME Invariant, Next, manifest' # manifest
      PROVE  \E w \in Writers : owned[w] /\ manifest'.latest.id = call[w].att
  <2>1. PICK w \in Writers :
          Announce(w) \/ Publish(w) \/ RecordFailed(w) \/ RecordCancelled(w)
    BY <1>1, ManifestWriters
  <2>2. manifest'.latest.id = call[w].att
    BY <1>1, <2>1 DEF Announce, Publish, RecordFailed, RecordCancelled, Record, AttemptOf
  <2>3. pc[w] \in Holding
    BY <2>1 DEF Announce, Publish, RecordFailed, RecordCancelled, Holding, Attempting,
       Preparing, Building
  <2>4. owned[w]
    BY <1>1, <2>3 DEF Invariant, OneWriter
  <2> QED BY <2>2, <2>4
<1>2. Invariant /\ [Next]_vars =>
        [manifest' # manifest =>
           \E w \in Writers : owned[w] /\ manifest'.latest.id = call[w].att]_vars
  BY <1>1 DEF vars, disk
<1> QED BY <1>2, InvariantHolds, PTL DEF Spec, OnlyHolderWrites

(* The last usable snapshot is never lost or replaced by an earlier one.   *)
THEOREM UsableAlwaysAdvances ==
    ASSUME "reload" \notin FaultPoints
    PROVE  Spec => UsableAdvances
<1> DEFINE Advance ==
      /\ manifest'.usable # None
      /\ manifest'.latest.status = "succeeded"
      /\ manifest.latest.status = "building"
      /\ manifest.latest.id = manifest'.usable.gen
      /\ manifest.usable # None => manifest.usable.gen < manifest'.usable.gen
<1>1. ASSUME Invariant, Next, manifest'.usable # manifest.usable PROVE Advance
  <2>1. PICK w \in Writers :
          Announce(w) \/ Publish(w) \/ RecordFailed(w) \/ RecordCancelled(w)
    BY <1>1, ManifestWriters
  <2>2. ~Announce(w)
    BY <1>1 DEF Announce, Invariant, Protocol, ManifestStage, Unchanged, Preparing
  <2>3. Publish(w)
    BY <1>1, <2>1, <2>2, EndStep
  <2>4. manifest' = [usable |-> SnapshotOf(w), latest |-> AttemptOf(w, "succeeded")]
    BY <2>3 DEF Publish
  <2>5. SnapshotOf(w) # None
    BY <1>1, <2>3, SnapshotOfType, NoneIsNoRecord DEF Publish, Invariant, Typed
  <2>6. Unchanged(w) /\ Ongoing(w)
    BY <1>1, <2>3 DEF Publish, Building, Invariant, Protocol, ManifestStage
  <2>7. manifest.usable # None => manifest.usable.gen < call[w].att
    <3>1. call[w].att \in Nat
      BY <1>1, BoundsAssumption DEF Invariant, Typed, TypeOK, Call
    <3>2. pc[w] \in Started
      BY <2>3 DEF Publish, Started, Attempting, Building
    <3> QED BY <1>1, <2>6, <3>1, <3>2 DEF Invariant, Protocol, ManifestStage, Unchanged
  <2> QED BY <2>4, <2>5, <2>6, <2>7 DEF SnapshotOf, AttemptOf, Ongoing
<1>2. Invariant /\ [Next]_vars => [manifest'.usable # manifest.usable => Advance]_vars
  BY <1>1 DEF vars, disk
<1> QED BY <1>2, InvariantHolds, PTL DEF Spec, UsableAdvances

(* A NO_OP is only reported for a snapshot of the tree as it is.           *)
THEOREM ReuseAlwaysServesSource == Spec => ReuseServesSource
<1> DEFINE Served(w) ==
      call'[w].result = "no_op" /\ call[w].result # "no_op" =>
        /\ artifact[manifest.usable.gen].reads = {source.content}
        /\ artifact[manifest.usable.gen].intact
        /\ manifest.usable.rev = source.rev
        /\ call[w].scope \subseteq manifest.usable.scope
        /\ manifest.latest.status = "succeeded"
<1>1. ASSUME Invariant, NEW w \in Writers, Reuse(w) PROVE Served(w)
  <2>1. manifest.usable # None /\ Good(manifest.usable) /\ manifest.latest # None
    BY <1>1 DEF Reuse, CanReuse, CanBind, Freshness, SnapshotState, Unknown, Invariant, Protocol,
       Store
  <2>2. manifest.latest.status \in {"building"} \cup Ended
    BY <1>1, <2>1 DEF Invariant, Typed, TypeOK, Manifest, BuildAttempt
  <2> DEFINE issues == IF ~artifact[manifest.usable.gen].intact
                       THEN {"artifact_mismatch"} ELSE {}
  <2>3. CanBind(manifest, call[w].obs.rev, call[w].scope, call[w].cfg, source, issues)
    BY <1>1, <2>1 DEF Reuse, CanReuse
  <2> HIDE DEF issues
  <2>4. /\ manifest.latest.status = "succeeded"
        /\ ~Unknown(manifest, call[w].obs.rev, source, issues)
        /\ ~Stale(manifest, call[w].obs.rev, call[w].cfg, source)
        /\ call[w].scope \subseteq manifest.usable.scope
    BY <2>1, <2>2, <2>3 DEF CanBind, Freshness, SnapshotState, Covers, Ended
  <2>5. issues = {} /\ source # None
    BY <2>4 DEF Unknown
  <2>6. manifest.usable.rev = source.rev /\ manifest.usable.content = source.content
    BY <2>4, <2>5 DEF Stale
  <2>7. artifact[manifest.usable.gen].intact
    BY <2>5 DEF issues
  <2> QED BY <2>1, <2>4, <2>6, <2>7 DEF Good
<1>2. ASSUME Invariant, Next, NEW w \in Writers, ~Reuse(w) PROVE Served(w)
  <2>1. call \in [Writers -> Call]
    BY <1>2 DEF Invariant, Typed, TypeOK
  <2>2. ASSUME call'[w].result # call[w].result PROVE call'[w].result # "no_op"
    <3>1. PICK v \in Writers :
            \/ \E force \in BOOLEAN, scope \in Scopes : Start(v, force, scope)
            \/ Step(v) \/ Crash(v)
      BY <1>2, <2>2 DEF Next, Environment, WriteSource, MoveHead, ChangeConfig, DamageArtifact
    <3>2. v = w
      BY <2>1, <2>2, <3>1 DEF Start, Step, Crash, Return, Acquire, Refused, Release, Leak, Load,
         LoadFails, Inventory, Observe, Configure, Reuse, Rebuild, Announce, Build, Seal,
         Recheck, Reconfirm, Publish, Finish, Fail, Interrupt, Escape, Record, RecordFailed,
         RecordCancelled
    <3>3. CASE Return(w)
      BY <2>1, <3>3, NoneIsNoResult DEF Return, NoCall, Results
    <3>4. CASE Load(w) \/ Inventory(w) \/ Observe(w) \/ Configure(w)
                \/ \E force \in BOOLEAN, scope \in Scopes : Start(w, force, scope)
      BY <2>1, <2>2, <3>4 DEF Start, Load, Inventory, Observe, Configure, Call
    <3>5. CASE LoadFails(w) \/ Publish(w) \/ Escape(w) \/ RecordFailed(w) \/ RecordCancelled(w)
      BY <2>1, <3>5 DEF LoadFails, Publish, Escape, Record, RecordFailed, RecordCancelled, Call
    <3>6. CASE UNCHANGED call
      BY <2>2, <3>6
    <3> QED BY <1>2, <3>1, <3>2, <3>3, <3>4, <3>5, <3>6 DEF Step, Crash, Acquire, Refused,
          Release, Leak, Rebuild, Announce, Build, Seal, Recheck, Reconfirm, Finish, Fail,
          Interrupt
  <2> QED BY <2>2
<1>3. Invariant /\ [Next]_vars => [\A w \in Writers : Served(w)]_vars
  BY <1>1, <1>2
<1> QED BY <1>3, InvariantHolds, PTL DEF Spec, ReuseServesSource

-----------------------------------------------------------------------------
(* The artifacts of the last usable snapshot are read-only: a build in     *)
(* progress writes under a generation of its own.                          *)
LEMMA UsableReadsKept ==
    ASSUME Invariant, Next, manifest.usable # None
    PROVE  artifact'[manifest.usable.gen].reads = artifact[manifest.usable.gen].reads
<1>1. artifact \in [Generations -> Artifact] /\ manifest.usable.gen \in Generations
  BY BoundsAssumption DEF Invariant, Typed, TypeOK, Protocol, Store, Generations
<1>2. ASSUME NEW g \in Generations, DamageArtifact(g)
      PROVE  artifact'[manifest.usable.gen].reads = artifact[manifest.usable.gen].reads
  BY <1>1, <1>2 DEF DamageArtifact, Artifact
<1>3. ASSUME NEW w \in Writers, Build(w)
      PROVE  artifact'[manifest.usable.gen].reads = artifact[manifest.usable.gen].reads
  <2>1. pc[w] \in Building /\ pc[w] \in Started
    BY <1>3 DEF Build, Building, Started, Attempting
  <2>2. manifest.usable.gen \in 1..(call[w].att - 1)
    BY <2>1 DEF Invariant, Protocol, ManifestStage, Unchanged
  <2>3. manifest.usable.gen # call[w].att
    BY <2>2 DEF Invariant, Typed, TypeOK, Call
  <2> QED BY <1>1, <1>3, <2>3 DEF Build
<1>4. ASSUME ~(\E g \in Generations : DamageArtifact(g)), ~(\E w \in Writers : Build(w))
      PROVE  UNCHANGED artifact
  BY <1>4 DEF Next, Environment, WriteSource, MoveHead, ChangeConfig, Start, Step, Crash,
     Acquire, Refused, Release, Leak, Load, LoadFails, Inventory, Observe, Configure, Reuse,
     Rebuild, Announce, Seal, Recheck, Reconfirm, Publish, Finish, Fail, Interrupt, Escape,
     RecordFailed, RecordCancelled, disk
<1> QED BY <1>2, <1>3, <1>4

(* The initial states are initial states of the promise,                    *)
LEMMA PublicationInit == Init => Publication!Unpublished
  BY DEF Init, NoManifest, Publication!Unpublished, Publication!NoManifest, BuiltFrom

(* and every step is one of its steps or a stutter.                         *)
LEMMA PublicationStep ==
    ASSUME "reload" \notin FaultPoints, Invariant, Next
    PROVE  \/ Publication!Publishing
           \/ UNCHANGED <<manifest, BuiltFrom(manifest, artifact)>>
<1> DEFINE now == BuiltFrom(manifest, artifact)
           next == BuiltFrom(manifest', artifact')
<1>1. manifest'.usable = manifest.usable => next = now
  BY UsableReadsKept DEF BuiltFrom
<1>2. CASE UNCHANGED manifest
  BY <1>1, <1>2
<1>3. manifest \in Manifest
  BY DEF Invariant, Typed, TypeOK
<1>4. ASSUME NEW w \in Writers, NEW status
      PROVE  /\ AttemptOf(w, status).rev \in Revisions \cup {None}
             /\ AttemptOf(w, status) =
                  [id |-> call[w].att, rev |-> AttemptOf(w, status).rev, status |-> status]
  BY DEF Invariant, Typed, TypeOK, Call, Source, AttemptOf
<1>5. ASSUME NEW w \in Writers, Announce(w) PROVE Publication!Publishing
  <2>1. call[w].att \in Generations /\ Unchanged(w) /\ Unannounced(w)
    BY <1>5 DEF Announce, Invariant, Typed, LocalsOK, Protocol, ManifestStage, Attempting,
       Preparing
  <2>2. manifest' = [usable |-> call[w].base.usable, latest |-> AttemptOf(w, "building")]
    BY <1>5 DEF Announce
  <2>3. next = now /\ manifest' = [manifest EXCEPT !.latest = AttemptOf(w, "building")]
    BY <1>1, <1>3, <2>1, <2>2 DEF Unchanged, Manifest
  <2>4. Publication!Announce(call[w].att, AttemptOf(w, "building").rev)
    BY <1>4, <2>1, <2>3 DEF Publication!Announce, Publication!Newer, Unannounced
  <2> QED BY <1>4, <2>1, <2>4 DEF Publication!Publishing
<1>6. ASSUME NEW w \in Writers, Publish(w) PROVE Publication!Publishing
  <2>1. call[w].att \in Generations /\ Ongoing(w)
    BY <1>6 DEF Publish, Invariant, Typed, LocalsOK, Protocol, ManifestStage, Attempting,
       Building
  <2>2. /\ call[w].obs.rev \in Revisions
        /\ call[w].obs # None
        /\ call[w].obs.content = Tree[call[w].obs.rev]
        /\ call[w].scope \in Scopes
        /\ call[w].cfg \in Configs
    BY <1>6, NoneIsNoRecord DEF Publish, Invariant, Typed, LocalsOK, Observed, Configured, Building
  <2>3. artifact'[call[w].att].reads = {Tree[call[w].obs.rev]}
    BY <1>6, <2>2 DEF Publish, Invariant, Protocol, SourceStage, Reads
  <2>4. manifest' = [usable |-> SnapshotOf(w), latest |-> AttemptOf(w, "succeeded")]
    BY <1>6 DEF Publish
  <2>5. SnapshotOf(w) # None
    BY <1>6, SnapshotOfType, NoneIsNoRecord DEF Publish, Invariant, Typed
  <2>6. next = {Tree[call[w].obs.rev]}
    BY <2>3, <2>4, <2>5 DEF BuiltFrom, SnapshotOf
  <2>7. Publication!Succeed(call[w].att, call[w].obs.rev, call[w].scope, call[w].cfg)
    BY <2>1, <2>2, <2>4, <2>6 DEF Publication!Succeed, Publication!InProgress, Ongoing,
       SnapshotOf, AttemptOf
  <2> QED BY <2>1, <2>2, <2>7, NoneAssumption DEF Publication!Publishing
<1>7. ASSUME NEW w \in Writers, RecordFailed(w) \/ RecordCancelled(w), manifest' # manifest
      PROVE  Publication!Publishing
  <2>1. /\ Unannounced(w) \/ Ongoing(w)
        /\ manifest'.usable = manifest.usable
    BY <1>7, EndStep
  <2>2. PICK status \in {"failed", "cancelled"} : manifest'.latest = AttemptOf(w, status)
    BY <1>7, EndStep
  <2>3. call[w].att \in Generations
    BY <1>7 DEF RecordFailed, RecordCancelled, Invariant, Typed, LocalsOK
  <2>4. manifest' \in Manifest
    BY NextTypeOK DEF Invariant, TypeOK
  <2>5. next = now /\ manifest' = [manifest EXCEPT !.latest = AttemptOf(w, status)]
    BY <1>1, <1>3, <2>1, <2>2, <2>4 DEF Manifest
  <2>6. Publication!Abandon(call[w].att, AttemptOf(w, status).rev, status)
    BY <1>4, <2>1, <2>5 DEF Publication!Abandon, Publication!Newer, Publication!InProgress,
       Unannounced, Ongoing
  <2> QED BY <1>4, <2>2, <2>3, <2>6 DEF Publication!Publishing
<1> QED BY <1>2, <1>5, <1>6, <1>7, ManifestWriters

(* The store its readers see behaves as KnowledgePublication promises,     *)
(* whatever calls, errors, interrupts, kills and edits there are.          *)
THEOREM RefreshImplementsPublication ==
    ASSUME "reload" \notin FaultPoints
    PROVE  Spec => ImplementsPublication
<1>1. Init => Publication!Unpublished
  BY PublicationInit
<1>2. Invariant /\ [Next]_vars =>
        [Publication!Publishing]_<<manifest, BuiltFrom(manifest, artifact)>>
  <2>1. ASSUME UNCHANGED vars
        PROVE  UNCHANGED <<manifest, BuiltFrom(manifest, artifact)>>
    BY <2>1 DEF vars, disk, BuiltFrom
  <2> QED BY <2>1, PublicationStep
<1> QED BY <1>1, <1>2, InvariantHolds, PTL
      DEF Spec, ImplementsPublication, Publication!PublicationSpec, Publication!published
=============================================================================

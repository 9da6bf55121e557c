------------------------ MODULE SnapshotReader_proofs ------------------------
(***************************************************************************)
(* Theorems about SnapshotReader and their proofs.                         *)
(*                                                                         *)
(* A check looks at the source and at the artifacts at four different      *)
(* moments.  What ties them together are the stamps: a stamp never comes   *)
(* back, so what bears now the stamp it bore at an earlier moment has not  *)
(* been altered in between.  The inductive invariant says this of the      *)
(* check in progress, of the session and of its reads.                     *)
(***************************************************************************)
EXTENDS SnapshotReader, SequenceTheorems, TLAPS

-----------------------------------------------------------------------------
(* Attempts are announced in the order of their numbers, and the one being *)
(* built is newer than the last usable snapshot.                           *)
PublishedInOrder ==
    manifest.usable # None =>
        /\ manifest.latest # None
        /\ manifest.usable.gen \in Ids
        /\ manifest.usable.gen <= manifest.latest.id
        /\ manifest.latest.status = "building" => manifest.usable.gen < manifest.latest.id

PinnedInOrder ==
    Snap # None =>
        /\ Snap.gen \in Ids
        /\ manifest.usable # None
        /\ Snap.gen <= manifest.usable.gen
        /\ Snap.gen = manifest.usable.gen => Snap = manifest.usable

(* Where the check stands, and for whom.                                   *)
ControlOK ==
    /\ pc \in Steps \ {"load"} => Snap # None
    /\ pc = "load" => purpose = "bind"
    /\ pc = "open" => purpose = "enter"
    /\ pc # "ready" /\ purpose = "bind" => session = None /\ views = <<>> /\ last = None
    /\ pc # "ready" /\ purpose # "bind" => session # None
    /\ pc # "ready" /\ purpose = "leave" => views # <<>>
    /\ pc # "ready" /\ purpose = "enter" => Len(views) < MaxDepth
    /\ session # None => Snap # None
    /\ views # <<>> => session # None

(* No stamp is ahead of the clock.                                         *)
StampsOK ==
    /\ source.stamp <= disturbed
    /\ \A id \in Ids : artifact[id].stamp <= disturbed

(* src was the source once: with its stamp it has its content.             *)
WasSource(src) ==
    /\ src.stamp <= source.stamp
    /\ src.stamp = source.stamp => src.content = source.content

(* The pinned artifacts were sealed when they bore this stamp.             *)
WasSealed(stamp) ==
    /\ stamp <= artifact[Snap.gen].stamp
    /\ stamp = artifact[Snap.gen].stamp => artifact[Snap.gen].sealed

IsSealed(stamp) == artifact[Snap.gen] = [sealed |-> TRUE, stamp |-> stamp]

(* The steps after the source was observed, and after the artifacts were.  *)
Hashed   == {"decode", "rehash", "confirm", "decide"}
Observed == Hashed \cup {"hash"}

Sound == "artifact" \notin check.issues

(* What a check knows of the world, however often it was disturbed since.  *)
CheckOK ==
    /\ check.since <= disturbed
    /\ pc = "observe" => check = NoCheck
    /\ pc \in Observed /\ check.src # None => WasSource(check.src)
    /\ pc \in Hashed /\ Sound => WasSealed(check.stamp)
    /\ pc = "rehash" /\ Sound /\ check.stamp = artifact[Snap.gen].stamp => check.graph
    /\ pc \in {"confirm", "decide"} /\ Sound => check.graph
    /\ pc \in Observed /\ check.src # None /\ check.since = disturbed =>
         /\ check.src = source
         /\ pc \in Hashed /\ Sound => IsSealed(check.stamp)

(* What a session knows; undisturbed since it was bound, it is as bound,   *)
(* and the check in progress has found nothing else.                       *)
SessionOK ==
    session # None =>
        /\ WasSource(session.src) /\ WasSealed(session.stamp)
        /\ session.graph
        /\ CanBind(pinned, required.rev, required.scope, required.cfg, session.src, {})
        /\ session.since <= disturbed
        /\ session.since = disturbed =>
             /\ session.src = source /\ IsSealed(session.stamp)
             /\ pc \in Observed => check.src = session.src /\ check.issues = {}
             /\ pc \in Hashed => check.stamp = session.stamp

(* All that the open reads have seen is of the snapshot, unless the source *)
(* or the artifacts bear another stamp: now, or when the check looked.     *)
SeenContent == \A i \in 1..Len(views) : views[i].seen \subseteq {session.src.content}
SeenSealed  == \A i \in 1..Len(views) : views[i].index /\ views[i].sealed

ViewsOK ==
    session # None =>
        /\ session.src.stamp = source.stamp => SeenContent
        /\ session.stamp = artifact[Snap.gen].stamp => SeenSealed
        /\ pc \in Observed /\ check.src # None /\ check.src.stamp = session.src.stamp => SeenContent
        /\ pc \in Hashed /\ Sound /\ check.stamp = session.stamp => SeenSealed

ReaderInv ==
    /\ ReaderTypeOK /\ PublishedInOrder /\ PinnedInOrder /\ ControlOK /\ StampsOK
    /\ CheckOK /\ SessionOK /\ ViewsOK /\ ReadsOfSnapshot

-----------------------------------------------------------------------------
(* Types.                                                                  *)

(* The pinned snapshot names a generation with artifacts.                   *)
LEMMA GenerationOfPinned ==
    ASSUME ReaderTypeOK, PinnedInOrder, Snap # None
    PROVE  /\ Snap \in Snapshot /\ Snap.gen \in Ids /\ Snap.gen \in Nat
           /\ artifact[Snap.gen] \in [sealed : BOOLEAN, stamp : Nat]
  BY IdsAssumption DEF ReaderTypeOK, PinnedInOrder, Snap, Manifest

(* The store's steps keep its types.                                        *)
LEMMA PublishingTypes ==
    ASSUME manifest \in Manifest, Publishing
    PROVE  manifest' \in Manifest
<1> SUFFICES ASSUME NEW id \in Ids, NEW rev \in Revisions \cup {None},
                    \/ Announce(id, rev)
                    \/ \E scope \in Scopes, cfg \in Configs : rev # None /\ Succeed(id, rev, scope, cfg)
                    \/ \E status \in {"failed", "cancelled"} : Abandon(id, rev, status)
             PROVE  manifest' \in Manifest
  BY DEF Publishing
<1>1. CASE Announce(id, rev)
  BY <1>1, IdsAssumption DEF Announce, Manifest, BuildAttempt
<1>2. ASSUME NEW scope \in Scopes, NEW cfg \in Configs, rev # None, Succeed(id, rev, scope, cfg)
      PROVE  manifest' \in Manifest
  BY <1>2, IdsAssumption, TreeAssumption DEF Succeed, Manifest, BuildAttempt, Snapshot, Ended
<1>3. ASSUME NEW status \in {"failed", "cancelled"}, Abandon(id, rev, status)
      PROVE  manifest' \in Manifest
  BY <1>3, IdsAssumption DEF Abandon, Manifest, BuildAttempt, Ended
<1> QED BY <1>1, <1>2, <1>3

(* Pushing, popping and replacing the last view of the stack.               *)
LEMMA ViewUpdates ==
    ASSUME NEW s \in Seq(View)
    PROVE  /\ \A v \in View : /\ Append(s, v) \in Seq(View)
                               /\ Len(Append(s, v)) = Len(s) + 1
                               /\ \A i \in 1..(Len(s) + 1) :
                                     Append(s, v)[i] = IF i <= Len(s) THEN s[i] ELSE v
           /\ s # <<>> => /\ Len(s) \in 1..Len(s)
                          /\ SubSeq(s, 1, Len(s) - 1) \in Seq(View)
                          /\ Len(SubSeq(s, 1, Len(s) - 1)) = Len(s) - 1
                          /\ \A i \in 1..(Len(s) - 1) : SubSeq(s, 1, Len(s) - 1)[i] = s[i]
           /\ \A i \in 1..Len(s) : s[i] \in View
<1>1. ASSUME NEW v \in View
      PROVE  /\ Append(s, v) \in Seq(View) /\ Len(Append(s, v)) = Len(s) + 1
             /\ \A i \in 1..(Len(s) + 1) : Append(s, v)[i] = IF i <= Len(s) THEN s[i] ELSE v
  OBVIOUS
<1>2. ASSUME s # <<>>
      PROVE  /\ Len(s) \in 1..Len(s)
             /\ SubSeq(s, 1, Len(s) - 1) \in Seq(View)
             /\ Len(SubSeq(s, 1, Len(s) - 1)) = Len(s) - 1
             /\ \A i \in 1..(Len(s) - 1) : SubSeq(s, 1, Len(s) - 1)[i] = s[i]
  <2> DEFINE n == Len(s) - 1
  <2>1. n \in Nat /\ Len(s) = n + 1
    BY <1>2, EmptySeq
  <2>2. \A i \in 1..n : s[i] \in View
    BY <2>1
  <2> HIDE DEF n
  <2>3. /\ SubSeq(s, 1, n) \in Seq(View)
        /\ Len(SubSeq(s, 1, n)) = n
        /\ \A i \in 1..n : SubSeq(s, 1, n)[i] = s[i]
    BY <2>1, <2>2, SubSeqProperties
  <2>4. Len(s) - 1 = n
    BY <2>1
  <2>5. Len(s) \in 1..Len(s)
    BY <2>1
  <2> QED BY <2>3, <2>4, <2>5, Zenon
<1>3. \A i \in 1..Len(s) : s[i] \in View
  OBVIOUS
<1> QED BY <1>1, <1>2, <1>3

(* Nothing is bound, read or in check at the start.                         *)
LEMMA ReaderBegins == ReaderInit => ReaderInv
<1> SUFFICES ASSUME ReaderInit
             PROVE  ReaderInv
  OBVIOUS
<1> USE DEF ReaderInit, Unpublished, NoManifest, NoCheck
<1>1. ReaderTypeOK
  BY ReaderBounds DEF ReaderTypeOK, Manifest, Source, Check
<1>2. PublishedInOrder /\ PinnedInOrder /\ ControlOK /\ StampsOK
  BY DEF PublishedInOrder, PinnedInOrder, ControlOK, StampsOK, Snap, Steps
<1>3. CheckOK /\ SessionOK /\ ViewsOK /\ ReadsOfSnapshot
  BY DEF CheckOK, SessionOK, ViewsOK, ReadsOfSnapshot, Observed, Hashed
<1> QED BY <1>1, <1>2, <1>3 DEF ReaderInv

-----------------------------------------------------------------------------
(* Every step keeps the types.                                             *)
LEMMA DisturbTypes ==
    ASSUME ReaderTypeOK
    PROVE  /\ Disturb => disturbed' \in 0..MaxDisturbances /\ disturbed + 1 \in Nat
           /\ NoFault \/ Fault => /\ disturbed' \in 0..MaxDisturbances
                                 /\ UNCHANGED <<source, artifact>>
  BY ReaderBounds DEF ReaderTypeOK, Disturb, NoFault, Fault, world

(* What each step of a check does to the check keeps it one.                *)
LEMMA CheckUpdates ==
    ASSUME ReaderTypeOK
    PROVE  /\ NoCheck \in Check /\ NoManifest \in Manifest
           /\ [check EXCEPT !.src = source, !.since = disturbed] \in Check
           /\ \A i \in {"source", "artifact", "drift"} : Issue(i) => check' \in Check
           /\ \A stamp \in Nat : [check EXCEPT !.stamp = stamp] \in Check
           /\ \A graph \in BOOLEAN : [check EXCEPT !.graph = graph] \in Check
<1>1. check \in Check /\ source \in Source /\ disturbed \in Nat
  BY ReaderBounds DEF ReaderTypeOK
<1>2. NoCheck \in Check /\ NoManifest \in Manifest
  BY DEF NoCheck, Check, NoManifest, Manifest
<1>3. [check EXCEPT !.src = source, !.since = disturbed] \in Check
  BY <1>1 DEF Check
<1>4. ASSUME NEW i \in {"source", "artifact", "drift"}, Issue(i)
      PROVE  check' \in Check
  BY <1>1, <1>4 DEF Check, Issue
<1>5. ASSUME NEW stamp \in Nat PROVE [check EXCEPT !.stamp = stamp] \in Check
  BY <1>1 DEF Check
<1>6. ASSUME NEW graph \in BOOLEAN PROVE [check EXCEPT !.graph = graph] \in Check
  BY <1>1 DEF Check
<1> QED BY <1>2, <1>3, <1>4, <1>5, <1>6

(* Closing and binding keep a session a session.                            *)
LEMMA SessionUpdates ==
    ASSUME ReaderTypeOK
    PROVE  /\ session # None /\ Invalidate => session' \in Session /\ session' # None
           /\ Result => /\ check.src \in Source
                        /\ [src |-> check.src, stamp |-> check.stamp, graph |-> check.graph,
                            closed |-> FALSE, since |-> check.since] \in Session
<1>1. check \in Check /\ session \in Session \cup {None}
  BY DEF ReaderTypeOK
<1>2. session # None /\ Invalidate => session' \in Session /\ session' # None
  BY <1>1, NoneIsNoSession DEF Invalidate, Session
<1>3. Result => check.src # None
  BY DEF Result, CanBind, Freshness, SnapshotState, Unknown
<1>4. Result => check.src \in Source
  BY <1>1, <1>3 DEF Check
<1> QED BY <1>1, <1>2, <1>4 DEF Check, Session

(* What a read and its end do to the innermost view.                       *)
TopBecomes(v) ==
    /\ v \in View
    /\ views' \in Seq(View) /\ Len(views') = Len(views)
    /\ \A i \in 1..Len(views) : views'[i] = IF i = Len(views) THEN v ELSE views[i]

(* What the steps inside a read do to the innermost view.                   *)
LEMMA TopUpdates ==
    ASSUME ReaderTypeOK, PinnedInOrder, ControlOK, Reading
    PROVE  /\ Len(views) \in 1..Len(views) /\ Top \in View
           /\ ReadSource => TopBecomes([Top EXCEPT !.seen = @ \cup {source.content}])
           /\ ReadIndex => \E sealed \in {Top.index, artifact[Snap.gen].sealed} :
                             TopBecomes([Top EXCEPT !.sealed = @ /\ sealed])
           /\ \A raised \in BOOLEAN : Leave(raised) => TopBecomes([Top EXCEPT !.raised = raised])
<1> DEFINE n == Len(views)
<1>1. views \in Seq(View)
  BY DEF ReaderTypeOK
<1>2. n \in 1..n /\ Top \in View
  BY <1>1, ViewUpdates DEF Reading, Top
<1>3. ASSUME NEW v \in View, views' = [views EXCEPT ![n] = v]
      PROVE  TopBecomes(v)
  BY <1>1, <1>2, <1>3, ExceptSeq DEF TopBecomes
<1>4. ASSUME ReadSource
      PROVE  TopBecomes([Top EXCEPT !.seen = @ \cup {source.content}])
  <2>1. [Top EXCEPT !.seen = @ \cup {source.content}] \in View
    BY <1>2 DEF View, ReaderTypeOK, Source
  <2>2. views' = [views EXCEPT ![n] = [Top EXCEPT !.seen = @ \cup {source.content}]]
    BY <1>4 DEF ReadSource, Top
  <2> QED BY <1>3, <2>1, <2>2
<1>5. ASSUME ReadIndex
      PROVE  \E sealed \in {Top.index, artifact[Snap.gen].sealed} :
                TopBecomes([Top EXCEPT !.sealed = @ /\ sealed])
  <2>1. PICK sealed \in {Top.index, artifact[Snap.gen].sealed} :
               views' = [views EXCEPT ![n].sealed = @ /\ sealed]
    BY <1>5 DEF ReadIndex
  <2>2. sealed \in BOOLEAN
    BY <1>2, <1>5, GenerationOfPinned DEF ReadIndex, Using, ControlOK, View
  <2>3. [Top EXCEPT !.sealed = @ /\ sealed] \in View
    BY <1>2, <2>2 DEF View
  <2>4. views' = [views EXCEPT ![n] = [Top EXCEPT !.sealed = @ /\ sealed]]
    BY <2>1 DEF Top
  <2>5. TopBecomes([Top EXCEPT !.sealed = @ /\ sealed])
    BY <1>3, <2>3, <2>4
  <2> QED BY <2>5
<1>6. ASSUME NEW raised \in BOOLEAN, Leave(raised)
      PROVE  TopBecomes([Top EXCEPT !.raised = raised])
  <2>1. [Top EXCEPT !.raised = raised] \in View
    BY <1>2 DEF View
  <2>2. views' = [views EXCEPT ![n] = [Top EXCEPT !.raised = raised]]
    BY <1>6 DEF Leave, Top
  <2> QED BY <1>3, <2>1, <2>2
<1> QED BY <1>2, <1>4, <1>5, <1>6

(* The types under a step of the world,                                     *)
LEMMA WorldTypes ==
    ASSUME ReaderTypeOK, Environment
    PROVE  ReaderTypeOK'
<1>1. CASE Publishing /\ UNCHANGED world
  BY <1>1, PublishingTypes DEF world, ReaderTypeOK, Environment, bound
<1> USE DEF ReaderTypeOK, Environment, bound, published
<1>2. ASSUME NEW c \in Contents, WriteSource(c), UNCHANGED published
      PROVE  ReaderTypeOK'
  <2>1. disturbed' \in 0..MaxDisturbances /\ disturbed + 1 \in Nat
    BY <1>2, DisturbTypes DEF WriteSource
  <2>2. source' \in Source
    BY <1>2, <2>1 DEF WriteSource, Source
  <2> QED BY <1>2, <2>1, <2>2 DEF WriteSource
<1>3. ASSUME NEW r \in Revisions, MoveHead(r), UNCHANGED published
      PROVE  ReaderTypeOK'
  <2>1. disturbed' \in 0..MaxDisturbances
    BY <1>3, DisturbTypes DEF MoveHead
  <2>2. source' \in Source
    BY <1>3 DEF MoveHead, Source
  <2> QED BY <1>3, <2>1, <2>2 DEF MoveHead
<1>4. ASSUME NEW id \in Ids, NEW sealed \in BOOLEAN, RewriteArtifact(id, sealed), UNCHANGED published
      PROVE  ReaderTypeOK'
  <2>1. disturbed' \in 0..MaxDisturbances /\ disturbed + 1 \in Nat
    BY <1>4, DisturbTypes DEF RewriteArtifact
  <2> QED BY <1>4, <2>1 DEF RewriteArtifact
<1> QED BY <1>1, <1>2, <1>3, <1>4 DEF Environment

(* of a check,                                                              *)
LEMMA CheckTypes ==
    ASSUME ReaderTypeOK, PinnedInOrder, ControlOK, Checking
    PROVE  ReaderTypeOK'
<1>1. Snap # None
  BY DEF Checking, Observe, HashArtifacts, Decode, Rehash, Confirm, CheckStep, ControlOK, Steps
<1>2. artifact[Snap.gen].stamp \in Nat /\ artifact[Snap.gen].sealed \in BOOLEAN
  BY <1>1, GenerationOfPinned
<1>3. check' \in Check
  <2>1. check \in Check
    BY DEF ReaderTypeOK
  <2> QED BY <1>2, <2>1, CheckUpdates
          DEF Checking, Observe, HashArtifacts, Decode, Rehash, Confirm
<1>4. disturbed' \in 0..MaxDisturbances /\ UNCHANGED <<source, artifact>>
  BY DisturbTypes DEF Checking, Observe, HashArtifacts, Decode, Rehash, Confirm, NoFault
<1>5. /\ pc' \in Steps
      /\ UNCHANGED <<published, purpose, bound, session, views, last>>
  BY DEF Checking, Observe, HashArtifacts, Decode, Rehash, Confirm, CheckStep, Steps
<1> QED BY <1>3, <1>4, <1>5 DEF ReaderTypeOK, bound, published

(* and of the client.                                                       *)
LEMMA ClientTypes ==
    ASSUME ReaderTypeOK, PinnedInOrder, ControlOK, Client
    PROVE  ReaderTypeOK'
<1> USE DEF bound, world, published
<1>1. ASSUME NEW rev \in Revisions, NEW scope \in Scopes, NEW cfg \in Configs,
             Bind([rev |-> rev, scope |-> scope, cfg |-> cfg])
      PROVE  ReaderTypeOK'
  BY <1>1 DEF Bind, Requirement, Steps, ReaderTypeOK
<1>2. CASE Load
  BY <1>2, CheckUpdates DEF Load, BeginCheck, NotBound, Steps, ReaderTypeOK
<1>3. CASE Checking
  BY <1>3, CheckTypes
<1>4. CASE Bound
  BY <1>4, CheckUpdates, SessionUpdates DEF Bound, Decide, NotBound, ReaderTypeOK
<1>5. CASE Entered
  BY <1>5, CheckUpdates, SessionUpdates DEF Entered, Decide, Steps, ControlOK, ReaderTypeOK
<1>6. CASE OpenIndex
  <2> DEFINE opened == [index |-> artifact[Snap.gen].sealed, seen |-> {}, sealed |-> TRUE, raised |-> FALSE]
  <2>1. opened \in View
    BY <1>6, GenerationOfPinned DEF OpenIndex, ControlOK, Steps, View
  <2>2. Append(views, opened) \in Seq(View) /\ Len(Append(views, opened)) <= MaxDepth
    BY <1>6, <2>1, ReaderBounds, ViewUpdates DEF OpenIndex, ControlOK, ReaderTypeOK
  <2>3. disturbed' \in 0..MaxDisturbances /\ UNCHANGED <<source, artifact>>
    BY <1>6, DisturbTypes DEF OpenIndex, NoFault
  <2>4. session' \in Session \cup {None}
    BY <1>6, SessionUpdates DEF OpenIndex, ControlOK, ReaderTypeOK
  <2> QED BY <1>6, <2>2, <2>3, <2>4 DEF OpenIndex, ReaderTypeOK
<1>7. CASE Left
  <2>1. views' \in Seq(View) /\ Len(views') <= MaxDepth /\ Top \in View
    BY <1>7, ReaderBounds, ViewUpdates DEF Left, Decide, ControlOK, Pop, Top, ReaderTypeOK
  <2> QED BY <1>7, <2>1, CheckUpdates, SessionUpdates DEF Left, Decide, ControlOK, ReaderTypeOK
<1>8. CASE Enter
  BY <1>8, CheckUpdates DEF Enter, Using, BeginCheck, Steps, ReaderTypeOK
<1>9. CASE ReadSource
  <2>1. views' \in Seq(View) /\ Len(views') = Len(views)
    BY <1>9, TopUpdates DEF ReadSource, TopBecomes
  <2> QED BY <1>9, <2>1 DEF ReadSource, Using, ReaderTypeOK
<1>10. CASE ReadIndex
  <2>1. views' \in Seq(View) /\ Len(views') = Len(views)
    BY <1>10, TopUpdates DEF ReadIndex, TopBecomes
  <2> QED BY <1>10, <2>1 DEF ReadIndex, Using, ReaderTypeOK
<1>11. ASSUME NEW raised \in BOOLEAN, Leave(raised)
       PROVE  ReaderTypeOK'
  <2>1. views' \in Seq(View) /\ Len(views') = Len(views)
    BY <1>11, TopUpdates DEF Leave, TopBecomes
  <2> QED BY <1>11, <2>1, CheckUpdates DEF Leave, Using, BeginCheck, Steps, ReaderTypeOK
<1>12. CASE LeaveClosed
  <2>1. views' \in Seq(View) /\ Len(views') <= MaxDepth
    BY <1>12, ReaderBounds, ViewUpdates DEF LeaveClosed, Reading, Pop, ReaderTypeOK
  <2> QED BY <1>12, <2>1 DEF LeaveClosed, Using, ReaderTypeOK
<1>13. CASE Close
  BY <1>13, SessionUpdates DEF Close, Using, Open, ReaderTypeOK
<1> QED BY <1>1, <1>2, <1>3, <1>4, <1>5, <1>6, <1>7, <1>8, <1>9, <1>10, <1>11, <1>12, <1>13 DEF Client

-----------------------------------------------------------------------------
(* Every step keeps the order of publication, and the pinned snapshot in   *)
(* it; and the check keeps its place.                                      *)
LEMMA PublishingOrdered ==
    ASSUME manifest \in Manifest, PublishedInOrder, Publishing
    PROVE  /\ PublishedInOrder'
           /\ manifest.usable # None =>
                /\ manifest'.usable # None
                /\ \/ manifest'.usable = manifest.usable
                   \/ manifest'.usable.gen > manifest.usable.gen
<1> DEFINE Ordered ==
             /\ PublishedInOrder'
             /\ manifest.usable # None =>
                  /\ manifest'.usable # None
                  /\ \/ manifest'.usable = manifest.usable
                     \/ manifest'.usable.gen > manifest.usable.gen
<1> SUFFICES ASSUME NEW id \in Ids, NEW rev \in Revisions \cup {None},
                    \/ Announce(id, rev)
                    \/ \E scope \in Scopes, cfg \in Configs : rev # None /\ Succeed(id, rev, scope, cfg)
                    \/ \E status \in {"failed", "cancelled"} : Abandon(id, rev, status)
             PROVE  Ordered
  BY DEF Publishing
<1>1. /\ id \in Nat
      /\ manifest.usable # None => manifest.usable.gen \in Nat
      /\ manifest.latest # None => manifest.latest.id \in Nat
  BY IdsAssumption DEF Manifest, Snapshot, BuildAttempt
<1>2. None \notin BuildAttempt /\ None \notin Snapshot
  BY NoneIsNoRecord
<1>3. CASE Announce(id, rev)
  <2>1. [id |-> id, rev |-> rev, status |-> "building"] # None
    BY <1>1, <1>2 DEF BuildAttempt
  <2> QED BY <1>1, <1>3, <2>1 DEF Announce, Newer, Manifest, PublishedInOrder
<1>4. ASSUME NEW scope \in Scopes, NEW cfg \in Configs, rev # None, Succeed(id, rev, scope, cfg)
      PROVE  Ordered
  <2>1. /\ [id |-> id, rev |-> rev, status |-> "succeeded"] # None
        /\ [gen |-> id, rev |-> rev, scope |-> scope, content |-> Tree[rev], cfg |-> cfg] # None
    BY <1>1, <1>2, <1>4, TreeAssumption DEF BuildAttempt, Snapshot, Ended
  <2> QED BY <1>1, <1>4, <2>1 DEF Succeed, InProgress, Manifest, PublishedInOrder
<1>5. ASSUME NEW status \in {"failed", "cancelled"}, Abandon(id, rev, status)
      PROVE  Ordered
  <2>1. [id |-> id, rev |-> rev, status |-> status] # None
    BY <1>1, <1>2 DEF BuildAttempt, Ended
  <2> QED BY <1>1, <1>5, <2>1 DEF Abandon, InProgress, Newer, Manifest, PublishedInOrder
<1> QED BY <1>3, <1>4, <1>5

(* No step publishes a generation older than one that was pinned.           *)
LEMMA OrderKept ==
    ASSUME ReaderTypeOK, PublishedInOrder, PinnedInOrder, ReaderNext
    PROVE  PublishedInOrder' /\ PinnedInOrder'
<1>1. CASE Environment /\ Publishing
  <2>1. /\ manifest \in Manifest /\ manifest' \in Manifest /\ pinned \in Manifest /\ pinned' = pinned
    BY <1>1, PublishingTypes DEF ReaderTypeOK, Environment, bound
  <2>2. \A m \in Manifest : m.usable # None => m.usable.gen \in Nat
    BY DEF Manifest, Snapshot
  <2> QED BY <1>1, <2>1, <2>2, PublishingOrdered DEF PinnedInOrder, Snap
<1>2. CASE UNCHANGED <<manifest, pinned>>
  BY <1>2 DEF PublishedInOrder, PinnedInOrder, Snap
<1>3. ASSUME NEW req, Bind(req)
      PROVE  PublishedInOrder' /\ PinnedInOrder'
  <2>1. manifest' = manifest /\ pinned' = manifest
    BY <1>3 DEF Bind, published
  <2>2. manifest.usable # None => manifest.usable.gen \in Nat
    BY DEF ReaderTypeOK, Manifest, Snapshot
  <2> QED BY <2>1, <2>2 DEF PublishedInOrder, PinnedInOrder, Snap
<1>4. CASE manifest' = manifest /\ NotBound
  BY <1>4 DEF NotBound, NoManifest, PublishedInOrder, PinnedInOrder, Snap
<1>5. CASE Client
  <2>1. CASE Load
    BY <1>2, <1>4, <2>1 DEF Load, BeginCheck, bound, published
  <2>2. CASE Bound
    BY <1>2, <1>4, <2>2 DEF Bound, Decide, bound, published
  <2>3. CASE Checking
    BY <1>2, <2>3 DEF Checking, Observe, HashArtifacts, Decode, Rehash, Confirm, CheckStep, bound, published
  <2>4. CASE Entered \/ OpenIndex \/ Left \/ Enter \/ ReadSource \/ ReadIndex \/ LeaveClosed \/ Close
    BY <1>2, <2>4 DEF Entered, OpenIndex, Left, Decide, Enter, ReadSource, ReadIndex, LeaveClosed, Close,
                      Using, BeginCheck, bound, published
  <2>5. CASE \E raised \in BOOLEAN : Leave(raised)
    BY <1>2, <2>5 DEF Leave, Using, BeginCheck, bound, published
  <2> QED BY <1>3, <1>5, <2>1, <2>2, <2>3, <2>4, <2>5 DEF Client
<1>6. CASE Environment /\ UNCHANGED published
  BY <1>2, <1>6 DEF Environment, bound, published
<1> QED BY <1>1, <1>5, <1>6 DEF ReaderNext, Environment

(* Every step keeps what the program counter says of session and views.     *)
LEMMA ControlKept ==
    ASSUME ReaderTypeOK, PinnedInOrder, ControlOK, ReaderNext
    PROVE  ControlOK'
<1> USE DEF Steps, bound
<1>1. CASE Environment
  BY <1>1 DEF Environment, ControlOK, Snap
<1>2. ASSUME NEW req, Bind(req)
      PROVE  ControlOK'
  BY <1>2 DEF Bind, Reading, ControlOK, Snap
<1>3. CASE Load
  BY <1>3 DEF Load, BeginCheck, NotBound, NoManifest, ControlOK, Snap
<1>4. CASE Checking
  BY <1>4 DEF Checking, Observe, HashArtifacts, Decode, Rehash, Confirm, CheckStep, ControlOK, Snap
<1>5. CASE Bound
  BY <1>5 DEF Bound, Decide, NotBound, ControlOK, Snap
<1>6. CASE Entered
  BY <1>6, SessionUpdates DEF Entered, Decide, ControlOK, Snap
<1>7. CASE OpenIndex
  <2>1. session' # None
    BY <1>7, SessionUpdates DEF OpenIndex, ControlOK
  <2> QED BY <1>7, <2>1 DEF OpenIndex, ControlOK, Snap
<1>8. CASE Left
  <2>1. session' # None
    BY <1>8, SessionUpdates DEF Left, Decide, ControlOK
  <2> QED BY <1>8, <2>1 DEF Left, Decide, ControlOK, Snap
<1>9. CASE Enter
  BY <1>9 DEF Enter, Using, BeginCheck, ControlOK, Snap
<1>10. CASE ReadSource \/ ReadIndex \/ LeaveClosed
  BY <1>10 DEF ReadSource, ReadIndex, LeaveClosed, Using, ControlOK, Snap
<1>11. ASSUME NEW raised \in BOOLEAN, Leave(raised)
       PROVE  ControlOK'
  <2>1. views' # <<>>
    BY <1>11, TopUpdates, EmptySeq DEF Leave, Reading, TopBecomes
  <2> QED BY <1>11, <2>1 DEF Leave, Using, BeginCheck, ControlOK, Snap
<1>12. CASE Close
  BY <1>12, SessionUpdates DEF Close, Open, Using, ControlOK, Snap
<1> QED BY <1>1, <1>2, <1>3, <1>4, <1>5, <1>6, <1>7, <1>8, <1>9, <1>10, <1>11, <1>12 DEF ReaderNext, Client

-----------------------------------------------------------------------------
(* Every step keeps what the check knows.                                  *)

(* The types the arguments about stamps need.                              *)
LEMMA StampTypes ==
    ASSUME ReaderTypeOK
    PROVE  /\ disturbed \in Nat /\ source \in Source /\ source.stamp \in Nat
           /\ check \in Check /\ check.stamp \in Nat /\ check.since \in Nat
           /\ check.src # None => check.src \in Source /\ check.src.stamp \in Nat
           /\ artifact \in [Ids -> [sealed : BOOLEAN, stamp : Nat]]
           /\ session # None =>
                /\ session \in Session /\ session.src \in Source /\ session.src.stamp \in Nat
                /\ session.stamp \in Nat /\ session.since \in Nat
  BY ReaderBounds DEF ReaderTypeOK, Source, Check, Session

(* Stamps only grow: whatever was seen has one not newer than what is       *)
(* there.                                                                   *)
LEMMA StampsKept ==
    ASSUME ReaderTypeOK, StampsOK, ReaderNext
    PROVE  StampsOK'
<1>1. CASE UNCHANGED <<source, artifact>> /\ disturbed' \in {disturbed, disturbed + 1}
  BY <1>1, StampTypes DEF StampsOK
<1>2. CASE Environment
  <2>1. ASSUME NEW c \in Contents, WriteSource(c) PROVE StampsOK'
    BY <2>1, StampTypes DEF WriteSource, Disturb, StampsOK
  <2>2. ASSUME NEW r \in Revisions, MoveHead(r) PROVE StampsOK'
    BY <2>2, StampTypes DEF MoveHead, Disturb, StampsOK, Source
  <2>3. ASSUME NEW id \in Ids, NEW sealed \in BOOLEAN, RewriteArtifact(id, sealed) PROVE StampsOK'
    BY <2>3, StampTypes DEF RewriteArtifact, Disturb, StampsOK
  <2> QED BY <1>1, <1>2, <2>1, <2>2, <2>3 DEF Environment, world
<1>3. CASE Client
  <2>1. NoFault \/ Fault => UNCHANGED <<source, artifact>> /\ disturbed' \in {disturbed, disturbed + 1}
    BY DEF NoFault, Fault, Disturb, world
  <2>2. CASE Checking
    BY <1>1, <2>1, <2>2 DEF Checking, Observe, HashArtifacts, Decode, Rehash, Confirm, NoFault
  <2>3. CASE OpenIndex
    BY <1>1, <2>1, <2>3 DEF OpenIndex, NoFault
  <2>4. CASE UNCHANGED world
    BY <1>1, <2>4 DEF world
  <2> QED BY <1>3, <2>2, <2>3, <2>4
          DEF Client, Bind, Load, Bound, Entered, Left, Decide, Enter, ReadSource, ReadIndex, Leave,
              LeaveClosed, Close, Using
<1> QED BY <1>2, <1>3 DEF ReaderNext

(* What the world does to what has been seen of it: what is altered gets a *)
(* stamp of its own.                                                       *)
LEMMA WorldMoves ==
    ASSUME ReaderTypeOK, PinnedInOrder, StampsOK, Environment
    PROVE  /\ UNCHANGED <<pc, purpose, bound, check, session, views, last>>
           /\ \/ UNCHANGED world
              \/ disturbed' = disturbed + 1
           /\ source'.stamp \in Nat
           /\ \/ source'.stamp = source.stamp /\ source'.content = source.content
              \/ source'.stamp = disturbed + 1
           /\ Snap # None => \/ artifact'[Snap.gen] = artifact[Snap.gen]
                             \/ artifact'[Snap.gen].stamp = disturbed + 1
<1>1. UNCHANGED <<pc, purpose, bound, check, session, views, last>>
  BY DEF Environment
<1>2. CASE UNCHANGED world
  BY <1>1, <1>2, StampTypes DEF world
<1>3. ASSUME NEW c \in Contents, WriteSource(c)
      PROVE  /\ disturbed' = disturbed + 1 /\ artifact' = artifact
             /\ source'.stamp = disturbed + 1
  BY <1>3, StampTypes DEF WriteSource, Disturb, Source
<1>4. ASSUME NEW r \in Revisions, MoveHead(r)
      PROVE  /\ disturbed' = disturbed + 1 /\ artifact' = artifact
             /\ source'.stamp = source.stamp /\ source'.content = source.content
  BY <1>4, StampTypes DEF MoveHead, Disturb, Source
<1>5. ASSUME NEW id \in Ids, NEW sealed \in BOOLEAN, RewriteArtifact(id, sealed)
      PROVE  /\ disturbed' = disturbed + 1 /\ source' = source
             /\ Snap # None => \/ artifact'[Snap.gen] = artifact[Snap.gen]
                               \/ artifact'[Snap.gen].stamp = disturbed + 1
  <2>1. /\ disturbed' = disturbed + 1 /\ source' = source
        /\ artifact' = [artifact EXCEPT ![id] = [sealed |-> sealed, stamp |-> disturbed + 1]]
    BY <1>5 DEF RewriteArtifact, Disturb
  <2>2. CASE Snap # None
    BY <2>1, <2>2, StampTypes, GenerationOfPinned
  <2> QED BY <2>1, <2>2
<1> QED BY <1>1, <1>2, <1>3, <1>4, <1>5, StampTypes DEF Environment

(* What bears a stamp it once had has not been altered, and never was.     *)
LEMMA WorldRemembers ==
    ASSUME ReaderTypeOK, PinnedInOrder, StampsOK, Environment
    PROVE  /\ \A src : src.stamp \in Nat /\ WasSource(src) =>
                WasSource(src)' /\ (src.stamp = source'.stamp => src.stamp = source.stamp)
           /\ \A stamp \in Nat : Snap # None /\ WasSealed(stamp) =>
                /\ WasSealed(stamp)'
                /\ stamp = artifact'[Snap.gen].stamp => stamp = artifact[Snap.gen].stamp
<1>1. disturbed \in Nat /\ source.stamp \in Nat /\ source.stamp <= disturbed
  BY StampTypes DEF StampsOK
<1>2. ASSUME NEW src, src.stamp \in Nat, WasSource(src)
      PROVE  WasSource(src)' /\ (src.stamp = source'.stamp => src.stamp = source.stamp)
  BY <1>1, <1>2, WorldMoves DEF WasSource
<1>3. ASSUME NEW stamp \in Nat, Snap # None, WasSealed(stamp)
      PROVE  /\ WasSealed(stamp)'
             /\ stamp = artifact'[Snap.gen].stamp => stamp = artifact[Snap.gen].stamp
  <2>1. artifact[Snap.gen].stamp \in Nat /\ artifact[Snap.gen].stamp <= disturbed
    BY <1>3, GenerationOfPinned DEF StampsOK
  <2>2. Snap' = Snap
    BY WorldMoves DEF Snap, bound
  <2> QED BY <1>1, <1>3, <2>1, <2>2, WorldMoves DEF WasSealed
<1> QED BY <1>2, <1>3

(* A step of a check leaves all but the check alone; a fault may be hit.   *)
LEMMA CheckMoves ==
    ASSUME ReaderInv, Checking
    PROVE  /\ Snap # None /\ Snap' = Snap /\ Snap.gen \in Ids
           /\ artifact[Snap.gen] \in [sealed : BOOLEAN, stamp : Nat]
           /\ UNCHANGED <<source, artifact, purpose, bound, session, views, last>>
           /\ disturbed' \in {disturbed, disturbed + 1}
<1>1. /\ pc \in Steps \ {"load"}
      /\ UNCHANGED <<purpose, bound, session, views, last>>
  BY DEF Checking, Observe, HashArtifacts, Decode, Rehash, Confirm, CheckStep, Steps
<1>2. Snap # None /\ Snap' = Snap
  BY <1>1 DEF ReaderInv, ControlOK, Snap, bound
<1>3. NoFault \/ Fault => UNCHANGED <<source, artifact>> /\ disturbed' \in {disturbed, disturbed + 1}
  BY DEF NoFault, Fault, Disturb, world
<1>4. NoFault \/ Fault
  BY DEF Checking, Observe, HashArtifacts, Decode, Rehash, Confirm, NoFault
<1> QED BY <1>1, <1>2, <1>3, <1>4, GenerationOfPinned DEF ReaderInv

(* An observation leaves the source or no source, and no more.             *)
LEMMA ObserveMoves ==
    ASSUME ReaderInv, Observe
    PROVE  /\ pc = "observe" /\ pc' = "hash"
           /\ \/ /\ check'.src = source /\ check'.since = disturbed /\ check'.issues = {}
                 /\ disturbed' = disturbed
              \/ /\ check'.src = None /\ check'.since = 0
                 /\ disturbed' = disturbed + 1
<1>1. pc = "observe" /\ pc' = "hash"
  BY DEF Observe, CheckStep
<1>2. check = NoCheck
  BY <1>1 DEF ReaderInv, CheckOK
<1>3. CASE NoFault /\ check' = [check EXCEPT !.src = source, !.since = disturbed]
  <2>1. check' = [NoCheck EXCEPT !.src = source, !.since = disturbed]
    BY <1>2, <1>3
  <2>2. check'.src = source /\ check'.since = disturbed /\ check'.issues = {}
    BY <2>1 DEF NoCheck
  <2> QED BY <1>1, <1>3, <2>2 DEF NoFault, world
<1>4. CASE Fault /\ Issue("source")
  <2>1. check' = [NoCheck EXCEPT !.issues = @ \cup {"source"}]
    BY <1>2, <1>4 DEF Issue
  <2>2. check'.src = None /\ check'.since = 0
    BY <2>1 DEF NoCheck
  <2> QED BY <1>1, <1>4, <2>2 DEF Fault, Disturb
<1> QED BY <1>3, <1>4 DEF Observe

(* A later step of the check keeps the source it observed; it has found    *)
(* what it looked for, or it notes an issue, or it hits a fault.           *)
LEMMA HashMoves ==
    ASSUME ReaderInv, HashArtifacts \/ Decode \/ Rehash \/ Confirm
    PROVE  /\ check'.src = check.src /\ check'.since = check.since
           /\ check.issues \subseteq check'.issues
           /\ \/ disturbed' = disturbed
              \/ disturbed' = disturbed + 1 /\ check'.issues # {}
           /\ \/ /\ pc = "hash" /\ pc' = "decode" /\ check'.graph = check.graph
                 /\ IsSealed(check'.stamp) /\ check'.issues = check.issues
              \/ /\ pc = "hash" /\ pc' = "confirm" /\ "artifact" \in check'.issues
                 /\ ~artifact[Snap.gen].sealed \/ disturbed' = disturbed + 1
              \/ /\ pc = "decode" /\ pc' = "rehash" /\ check'.stamp = check.stamp
                 /\ check'.graph = artifact[Snap.gen].sealed /\ check'.issues = check.issues
              \/ /\ pc = "decode" /\ pc' = "confirm" /\ "artifact" \in check'.issues
                 /\ ~artifact[Snap.gen].sealed \/ disturbed' = disturbed + 1
              \/ /\ pc = "rehash" /\ pc' = "confirm" /\ check' = check /\ IsSealed(check.stamp)
              \/ /\ pc = "rehash" /\ pc' = "confirm" /\ "artifact" \in check'.issues
                 /\ ~IsSealed(check.stamp) \/ disturbed' = disturbed + 1
              \/ /\ pc = "confirm" /\ pc' = "decide" /\ check'.graph = check.graph
                 /\ check'.stamp = check.stamp
                 /\ "artifact" \in check'.issues => "artifact" \in check.issues
                 /\ \/ check'.issues = check.issues
                    \/ check.src \notin {None, source}
                    \/ disturbed' = disturbed + 1
<1>1. check \in Check /\ check' \in Check
  <2>1. ReaderTypeOK'
    BY CheckTypes DEF Checking, ReaderInv
  <2> QED BY <2>1 DEF ReaderTypeOK, ReaderInv
<1>2. artifact[Snap.gen] \in [sealed : BOOLEAN, stamp : Nat]
  BY CheckMoves DEF Checking
<1>3. ASSUME NEW i \in {"source", "artifact", "drift"}, Issue(i)
      PROVE  /\ check'.src = check.src /\ check'.since = check.since /\ check'.stamp = check.stamp
             /\ check'.graph = check.graph /\ check'.issues = check.issues \cup {i}
  BY <1>1, <1>3 DEF Issue, Check
<1>4. CASE HashArtifacts
  <2>1. CASE artifact[Snap.gen].sealed /\ check' = [check EXCEPT !.stamp = artifact[Snap.gen].stamp]
    <3>1. /\ check'.src = check.src /\ check'.since = check.since /\ check'.graph = check.graph
          /\ check'.issues = check.issues /\ IsSealed(check'.stamp)
      BY <1>1, <1>2, <2>1 DEF Check, IsSealed
    <3> QED BY <1>3, <1>4, <3>1 DEF HashArtifacts, CheckStep, NoFault, Fault, Disturb, world
  <2> QED BY <1>3, <1>4, <2>1 DEF HashArtifacts, CheckStep, NoFault, Fault, Disturb, world
<1>5. CASE Decode
  <2>1. CASE check' = [check EXCEPT !.graph = artifact[Snap.gen].sealed]
    <3>1. /\ check'.src = check.src /\ check'.since = check.since /\ check'.stamp = check.stamp
          /\ check'.issues = check.issues /\ check'.graph = artifact[Snap.gen].sealed
      BY <1>1, <1>2, <2>1 DEF Check
    <3> QED BY <1>3, <1>5, <3>1 DEF Decode, CheckStep, NoFault, Fault, Disturb, world
  <2> QED BY <1>3, <1>5, <2>1 DEF Decode, CheckStep, NoFault, Fault, Disturb, world
<1>6. CASE Rehash
  BY <1>3, <1>6 DEF Rehash, CheckStep, NoFault, Fault, Disturb, world, IsSealed
<1>7. CASE Confirm
  BY <1>3, <1>7 DEF Confirm, CheckStep, NoFault, Fault, Disturb, world
<1> QED BY <1>4, <1>5, <1>6, <1>7

(* Every step keeps what a check under way knows of the source and the      *)
(* artifacts.                                                               *)
LEMMA CheckKept ==
    ASSUME ReaderInv, ReaderNext
    PROVE  CheckOK'
<1>1. /\ disturbed \in Nat /\ source \in Source /\ source.stamp \in Nat
      /\ check.stamp \in Nat /\ check.since \in Nat
      /\ check.src # None => check.src.stamp \in Nat
  BY StampTypes DEF ReaderInv
<1>2. CASE Environment
  <2>1. pc' = pc /\ check' = check /\ Snap' = Snap
    BY <1>2, WorldMoves DEF ReaderInv, bound, Snap
  <2>2. CASE UNCHANGED world
    BY <2>1, <2>2 DEF world, ReaderInv, CheckOK, WasSource, WasSealed, IsSealed, Sound
  <2>3. CASE disturbed' = disturbed + 1
    <3>1. check.since <= disturbed
      BY DEF ReaderInv, CheckOK
    <3>2. /\ check'.since <= disturbed' /\ check'.since # disturbed'
          /\ pc' = "observe" => check' = NoCheck
      BY <1>1, <2>1, <2>3, <3>1 DEF ReaderInv, CheckOK
    <3>3. pc \in Observed /\ check.src # None => WasSource(check.src)'
      BY <1>1, <1>2, <2>1, WorldRemembers DEF ReaderInv, CheckOK
    <3>4. CASE pc \in Hashed
      <4>1. Snap # None /\ (Sound => WasSealed(check.stamp))
        BY <3>4 DEF ReaderInv, ControlOK, CheckOK, Hashed, Steps
      <4>2. Sound => /\ WasSealed(check.stamp)'
                     /\ check.stamp = artifact'[Snap.gen].stamp => check.stamp = artifact[Snap.gen].stamp
        BY <1>1, <1>2, <2>1, <4>1, WorldRemembers DEF ReaderInv, WasSealed
      <4>3. Sound' = Sound
        BY <2>1 DEF Sound
      <4> QED BY <2>1, <3>2, <3>3, <4>2, <4>3 DEF ReaderInv, CheckOK
    <3> QED BY <2>1, <3>2, <3>3, <3>4 DEF CheckOK, Hashed
  <2> QED BY <1>2, <2>2, <2>3, WorldMoves DEF ReaderInv
<1>3. CASE pc' \notin {"observe"} \cup Observed /\ check' \in {check, NoCheck} /\ disturbed' >= disturbed
           /\ disturbed' \in Nat
  BY <1>1, <1>3 DEF ReaderInv, CheckOK, Sound, Hashed, Observed, NoCheck
<1>4. CASE pc' = "observe" /\ check' = NoCheck /\ disturbed' = disturbed
  BY <1>1, <1>4 DEF CheckOK, Sound, Hashed, Observed, NoCheck
<1>5. CASE Observe
  <2>1. source' = source
    BY <1>5, CheckMoves DEF Checking
  <2> QED BY <1>1, <1>5, <2>1, ObserveMoves DEF CheckOK, WasSource, Sound, Hashed, Observed
<1>6. CASE HashArtifacts \/ Decode \/ Rehash \/ Confirm
  <2>1. /\ source' = source /\ artifact' = artifact /\ Snap' = Snap
        /\ artifact[Snap.gen] \in [sealed : BOOLEAN, stamp : Nat]
    BY <1>6, CheckMoves DEF Checking
  <2>2. /\ check'.src = check.src /\ check'.since = check.since
        /\ check.issues \subseteq check'.issues
        /\ \/ disturbed' = disturbed
           \/ disturbed' = disturbed + 1 /\ check'.issues # {}
        /\ pc \in Observed /\ pc' \in Hashed
    BY <1>6, HashMoves DEF Hashed, Observed
  <2>3. check'.since <= disturbed' /\ (check'.since = disturbed' => disturbed' = disturbed)
    BY <1>1, <2>2 DEF ReaderInv, CheckOK
  <2>4. check'.src # None => WasSource(check.src)'
    BY <2>1, <2>2 DEF ReaderInv, CheckOK, WasSource
  <2>5. Sound' => WasSealed(check.stamp)'
    <3>1. Sound' => \/ check'.stamp = check.stamp /\ Sound /\ pc \in Hashed
                    \/ IsSealed(check'.stamp)
      BY <1>6, <2>2, HashMoves DEF Sound, Hashed
    <3>2. \A stamp \in Nat : IsSealed(stamp) => WasSealed(stamp)
      BY <2>1 DEF IsSealed, WasSealed
    <3>3. check'.stamp \in Nat
      <4>1. ReaderTypeOK'
        BY <1>6, CheckTypes DEF Checking, ReaderInv
      <4> QED BY <4>1 DEF ReaderTypeOK, Check
    <3>4. Sound' => WasSealed(check'.stamp)
      BY <3>1, <3>2, <3>3 DEF ReaderInv, CheckOK
    <3> QED BY <2>1, <3>4 DEF WasSealed
  <2>6. /\ pc' = "rehash" /\ Sound' /\ check'.stamp = artifact'[Snap'.gen].stamp => check'.graph
        /\ pc' \in {"confirm", "decide"} /\ Sound' => check'.graph
    <3>1. pc = "decode" /\ pc' = "rehash" /\ Sound' /\ check'.stamp = artifact[Snap.gen].stamp => check'.graph
      BY <1>6, <2>5, <2>1, HashMoves DEF WasSealed
    <3>2. pc = "rehash" /\ pc' = "confirm" /\ Sound' => check'.graph
      BY <1>6, HashMoves DEF ReaderInv, CheckOK, Sound, IsSealed
    <3>3. pc = "confirm" /\ pc' = "decide" /\ Sound' => check'.graph
      BY <1>6, HashMoves DEF ReaderInv, CheckOK, Sound
    <3> QED BY <1>6, <2>1, <3>1, <3>2, <3>3, HashMoves DEF Sound
  <2>7. check'.src # None /\ check'.since = disturbed' =>
          /\ check'.src = source'
          /\ Sound' => IsSealed(check.stamp)'
    <3> SUFFICES ASSUME check'.src # None, check'.since = disturbed'
                 PROVE  check.src = source /\ (Sound' => IsSealed(check'.stamp))
      BY <2>1, <2>2 DEF IsSealed
    <3>1. check.since = disturbed /\ disturbed' = disturbed
      BY <2>2, <2>3
    <3>2. check.src = source /\ (pc \in Hashed /\ Sound => IsSealed(check.stamp))
      BY <2>2, <3>1 DEF ReaderInv, CheckOK
    <3>3. Sound' => \/ check'.stamp = check.stamp /\ Sound /\ pc \in Hashed
                    \/ IsSealed(check'.stamp)
      BY <1>6, <2>2, HashMoves DEF Sound, Hashed
    <3> QED BY <3>2, <3>3
  <2>8. pc' # "observe"
    BY <2>2 DEF Hashed
  <2> QED BY <2>1, <2>2, <2>3, <2>4, <2>5, <2>6, <2>7, <2>8, Zenon DEF CheckOK
<1>7. CASE Client /\ ~Checking
  BY <1>1, <1>3, <1>4, <1>7 DEF Client, Bind, Load, Bound, Entered, OpenIndex, Left, Decide, NoFault, Fault, Disturb,
        Enter, ReadSource, ReadIndex, Leave, LeaveClosed, Close, Using, BeginCheck, world, Hashed, Observed
<1> QED BY <1>2, <1>5, <1>6, <1>7 DEF ReaderNext, Client, Checking

-----------------------------------------------------------------------------
(* Every step keeps what the session knows.                                *)

(* A session that stays, open or closed, keeps what it was bound to.       *)
LEMMA SessionStays ==
    ASSUME ReaderTypeOK, session # None, session' = session \/ Invalidate
    PROVE  /\ session' # None
           /\ session'.src = session.src /\ session'.stamp = session.stamp
           /\ session'.graph = session.graph /\ session'.since = session.since
<1>1. session \in Session
  BY DEF ReaderTypeOK
<1> QED BY <1>1, SessionUpdates DEF Invalidate, Session

(* Every step keeps what a bound session knows of them.                     *)
LEMMA SessionKept ==
    ASSUME ReaderInv, ReaderNext
    PROVE  SessionOK'
<1> SUFFICES ASSUME session' # None
             PROVE  SessionOK'
  BY DEF SessionOK
<1>1. /\ disturbed \in Nat /\ source \in Source /\ check.since \in Nat
      /\ session # None => session.src.stamp \in Nat /\ session.stamp \in Nat /\ session.since \in Nat
  BY StampTypes DEF ReaderInv
<1>2. session # None => Snap # None
  BY DEF ReaderInv, ControlOK
<1>3. CASE Environment
  <2>1. /\ pc' = pc /\ check' = check /\ pinned' = pinned /\ required' = required /\ session' = session
        /\ Snap' = Snap
    BY <1>3, WorldMoves DEF ReaderInv, bound, Snap
  <2>2. CASE UNCHANGED world
    BY <2>1, <2>2 DEF world, ReaderInv, SessionOK, WasSource, WasSealed, IsSealed
  <2>3. CASE disturbed' = disturbed + 1
    <3>1. WasSource(session.src) /\ WasSealed(session.stamp) /\ session.since <= disturbed
      BY <2>1 DEF ReaderInv, SessionOK
    <3>2. WasSource(session.src)' /\ WasSealed(session.stamp)'
      <4>1. \A src : src = session.src => WasSource(src)' = WasSource(session.src)'
        BY <2>1 DEF WasSource
      <4>2. \A stamp : stamp = session.stamp => WasSealed(stamp)' = WasSealed(session.stamp)'
        BY <2>1 DEF WasSealed
      <4> QED BY <1>1, <1>2, <1>3, <2>1, <3>1, <4>1, <4>2, WorldRemembers DEF ReaderInv
    <3>3. session'.since <= disturbed' /\ session'.since # disturbed'
      BY <1>1, <2>1, <2>3, <3>1
    <3> QED BY <2>1, <3>2, <3>3 DEF ReaderInv, SessionOK
  <2> QED BY <1>3, <2>2, <2>3, WorldMoves DEF ReaderInv
<1>4. CASE Checking
  <2>1. /\ source' = source /\ artifact' = artifact /\ session' = session /\ Snap' = Snap
        /\ pinned' = pinned /\ required' = required /\ disturbed' \in {disturbed, disturbed + 1}
        /\ artifact[Snap.gen] \in [sealed : BOOLEAN, stamp : Nat]
    BY <1>4, CheckMoves DEF bound
  <2>2. /\ WasSource(session.src)' /\ WasSealed(session.stamp)' /\ session'.graph
        /\ CanBind(pinned, required.rev, required.scope, required.cfg, session.src, {})'
        /\ session'.since <= disturbed'
        /\ session'.since = disturbed' => disturbed' = disturbed
    BY <1>1, <2>1 DEF ReaderInv, SessionOK, WasSource, WasSealed
  <2>3. ASSUME session.since = disturbed, disturbed' = disturbed
        PROVE  /\ session.src = source /\ IsSealed(session.stamp)
               /\ pc' \in Observed => check'.src = session.src /\ check'.issues = {}
               /\ pc' \in Hashed => check'.stamp = session.stamp
    <3>1. /\ session.src = source /\ IsSealed(session.stamp)
          /\ pc \in Observed => check.src = session.src /\ check.issues = {}
          /\ pc \in Hashed => check.stamp = session.stamp
      BY <2>1, <2>3 DEF ReaderInv, SessionOK
    <3>2. CASE Observe
      BY <1>1, <2>3, <3>1, <3>2, ObserveMoves DEF Hashed
    <3>3. CASE HashArtifacts \/ Decode \/ Rehash \/ Confirm
      <4>1. artifact[Snap.gen].sealed /\ (IsSealed(check'.stamp) => check'.stamp = session.stamp)
        BY <3>1 DEF IsSealed
      <4>2. pc \in Observed /\ check.src = session.src /\ check.src \in {None, source}
        BY <3>1, <3>3, HashMoves DEF Observed, Hashed
      <4>3. pc \in Hashed => check.stamp = session.stamp /\ IsSealed(check.stamp)
        BY <3>1
      <4>4. disturbed' # disturbed + 1
        BY <1>1, <2>3
      <4>5. check'.src = session.src /\ check'.issues = {}
        BY <3>1, <3>3, <4>1, <4>2, <4>3, <4>4, HashMoves DEF Hashed
      <4>6. pc' \in Hashed => check'.stamp = session.stamp
        BY <3>3, <4>1, <4>3, <4>5, HashMoves DEF Hashed
      <4> QED BY <3>1, <4>5, <4>6
    <3> QED BY <1>4, <3>2, <3>3 DEF Checking
  <2> QED BY <2>1, <2>2, <2>3 DEF SessionOK, IsSealed
<1>5. CASE Bound
  <2>1. pc = "decide" /\ session = None
    BY <1>5 DEF Bound, Decide, ReaderInv, ControlOK
  <2>2. /\ Result
        /\ session' = [src |-> check.src, stamp |-> check.stamp, graph |-> check.graph,
                       closed |-> FALSE, since |-> check.since]
        /\ UNCHANGED <<world, bound>> /\ pc' = "ready"
    BY <1>5, <2>1 DEF Bound, Decide
  <2>3. check.src # None /\ check.issues = {}
    BY <2>2 DEF Result, CanBind, Freshness, SnapshotState, Unknown
  <2>4. /\ WasSource(check.src) /\ WasSealed(check.stamp) /\ check.graph /\ check.since <= disturbed
        /\ check.since = disturbed => check.src = source /\ IsSealed(check.stamp)
    BY <2>1, <2>3 DEF ReaderInv, CheckOK, Sound, Hashed, Observed
  <2>5. CanBind(pinned, required.rev, required.scope, required.cfg, check.src, {})
    BY <2>2, <2>3 DEF Result
  <2>6. Snap' = Snap
    BY <2>2 DEF bound, Snap
  <2> QED BY <2>2, <2>4, <2>5, <2>6
          DEF SessionOK, WasSource, WasSealed, IsSealed, bound, world, Observed, Hashed
<1>6. CASE /\ session # None /\ (session' = session \/ Invalidate)
           /\ UNCHANGED <<source, artifact, bound>>
           /\ disturbed' \in {disturbed, disturbed + 1} /\ pc' \notin Observed
  <2>1. /\ session'.src = session.src /\ session'.stamp = session.stamp
        /\ session'.graph = session.graph /\ session'.since = session.since
    BY <1>6, SessionStays DEF ReaderInv
  <2>2. Snap' = Snap /\ pc' \notin Hashed
    BY <1>6 DEF bound, Snap, Observed
  <2> QED BY <1>1, <1>6, <2>1, <2>2 DEF ReaderInv, SessionOK, WasSource, WasSealed, IsSealed, bound
<1>7. CASE Entered \/ Left
  <2>1. session # None /\ (session' = session \/ Invalidate) /\ UNCHANGED <<world, bound>>
    BY <1>7 DEF Entered, Left, Decide, ReaderInv, ControlOK
  <2> QED BY <1>6, <1>7, <2>1 DEF Entered, Left, world, Hashed, Observed
<1>8. CASE OpenIndex
  <2>1. session # None /\ (session' = session \/ Invalidate) /\ UNCHANGED bound
    BY <1>8 DEF OpenIndex, ReaderInv, ControlOK
  <2>2. UNCHANGED <<source, artifact>> /\ disturbed' \in {disturbed, disturbed + 1}
    BY <1>8 DEF OpenIndex, NoFault, Fault, Disturb, world
  <2> QED BY <1>6, <1>8, <2>1, <2>2 DEF OpenIndex, Hashed, Observed
<1>9. CASE Enter \/ ReadSource \/ ReadIndex \/ LeaveClosed \/ Close \/ \E raised \in BOOLEAN : Leave(raised)
  <2>1. session # None /\ (session' = session \/ Invalidate) /\ UNCHANGED <<world, bound>>
    BY <1>9 DEF Enter, ReadSource, ReadIndex, LeaveClosed, Close, Leave, Using, Open, BeginCheck
  <2>2. pc' \notin Observed
    BY <1>9 DEF Enter, ReadSource, ReadIndex, LeaveClosed, Close, Leave, Using, BeginCheck, Observed, Hashed
  <2> QED BY <1>6, <2>1, <2>2 DEF world
<1>10. ASSUME NEW req, Bind(req) PROVE FALSE
  BY <1>10 DEF Bind
<1>11. CASE Load
  BY <1>11 DEF Load, ReaderInv, ControlOK
<1> QED BY <1>3, <1>4, <1>5, <1>7, <1>8, <1>9, <1>10, <1>11 DEF ReaderNext, Client

-----------------------------------------------------------------------------
(* Every step keeps what the open reads have seen.                         *)

(* A view that is popped takes nothing away from what is left.             *)
LEMMA PopKeeps ==
    ASSUME ReaderTypeOK, Reading, views' = Pop
    PROVE  /\ Len(views') = Len(views) - 1 /\ Len(views) \in Nat
           /\ \A i \in 1..Len(views') : i \in 1..Len(views) /\ views'[i] = views[i]
<1>1. views \in Seq(View)
  BY DEF ReaderTypeOK
<1>2. Len(views) \in Nat /\ Len(views') = Len(views) - 1
  BY <1>1, ViewUpdates DEF Reading, Pop
<1>3. ASSUME NEW i \in 1..Len(views')
      PROVE  i \in 1..Len(views) /\ views'[i] = views[i]
  <2>1. i \in 1..(Len(views) - 1) /\ i \in 1..Len(views)
    BY <1>2, <1>3
  <2> QED BY <1>1, <2>1, ViewUpdates DEF Reading, Pop
<1> QED BY <1>2, <1>3

(* Every step keeps what the reads in progress have seen: while the         *)
(* stamps are those of the binding, pinned content only.                    *)
LEMMA ViewsKept ==
    ASSUME ReaderInv, ReaderNext
    PROVE  ViewsOK'
<1> SUFFICES ASSUME session' # None
             PROVE  ViewsOK'
  BY DEF ViewsOK
<1>1. /\ disturbed \in Nat /\ source \in Source /\ views \in Seq(View)
      /\ session # None => session.src.stamp \in Nat /\ session.stamp \in Nat /\ session.src \in Source
  BY StampTypes DEF ReaderInv, ReaderTypeOK
<1>2. session # None => /\ Snap # None /\ artifact[Snap.gen] \in [sealed : BOOLEAN, stamp : Nat]
                        /\ WasSource(session.src) /\ WasSealed(session.stamp)
                        /\ session.src.stamp = source.stamp => SeenContent
                        /\ session.stamp = artifact[Snap.gen].stamp => SeenSealed
  BY GenerationOfPinned DEF ReaderInv, ControlOK, SessionOK, ViewsOK
<1>3. CASE Environment
  <2>1. /\ pc' = pc /\ check' = check /\ session' = session /\ views' = views /\ Snap' = Snap
    BY <1>3, WorldMoves DEF ReaderInv, bound, Snap
  <2>2. /\ session.src.stamp = source'.stamp => session.src.stamp = source.stamp
        /\ session.stamp = artifact'[Snap.gen].stamp => session.stamp = artifact[Snap.gen].stamp
    BY <1>1, <1>2, <1>3, <2>1, WorldRemembers DEF ReaderInv
  <2>3. SeenContent' = SeenContent /\ SeenSealed' = SeenSealed /\ Sound' = Sound
    BY <2>1 DEF SeenContent, SeenSealed, Sound
  <2> QED BY <1>2, <2>1, <2>2, <2>3 DEF ReaderInv, ViewsOK
<1>4. CASE Checking
  <2>1. /\ source' = source /\ artifact' = artifact /\ session' = session /\ views' = views /\ Snap' = Snap
    BY <1>4, CheckMoves
  <2>2. SeenContent' = SeenContent /\ SeenSealed' = SeenSealed
    BY <2>1 DEF SeenContent, SeenSealed
  <2>3. /\ pc' \in Observed /\ check'.src # None /\ check'.src.stamp = session.src.stamp => SeenContent
        /\ pc' \in Hashed /\ Sound' /\ check'.stamp = session.stamp => SeenSealed
    <3>1. CASE Observe
      BY <1>2, <2>1, <3>1, ObserveMoves DEF Hashed
    <3>2. CASE HashArtifacts \/ Decode \/ Rehash \/ Confirm
      <4>1. check'.src = check.src /\ pc \in Observed /\ pc' \in Hashed
        BY <3>2, HashMoves DEF Observed, Hashed
      <4>2. check'.src # None /\ check'.src.stamp = session.src.stamp => SeenContent
        BY <2>1, <4>1 DEF ReaderInv, ViewsOK
      <4>3. Sound' => \/ check'.stamp = check.stamp /\ Sound /\ pc \in Hashed
                      \/ IsSealed(check'.stamp)
        BY <3>2, HashMoves DEF Sound, Hashed
      <4>4. Sound' /\ check'.stamp = session.stamp => SeenSealed
        BY <1>2, <2>1, <4>3 DEF IsSealed, ReaderInv, ViewsOK
      <4> QED BY <4>1, <4>2, <4>4
    <3> QED BY <1>4, <3>1, <3>2 DEF Checking
  <2> QED BY <1>2, <2>1, <2>2, <2>3 DEF ViewsOK
<1>5. CASE views' = <<>>
  BY <1>5 DEF ViewsOK, SeenContent, SeenSealed
(* The session stays, and what its reads saw only grows by what is there.  *)
<1>6. ASSUME session # None, session' = session \/ Invalidate,
             UNCHANGED <<source, artifact, pinned>>, pc' \notin Observed,
             session.src.stamp = source.stamp => SeenContent',
             session.stamp = artifact[Snap.gen].stamp => SeenSealed'
      PROVE  ViewsOK'
  <2>1. session'.src = session.src /\ session'.stamp = session.stamp
    BY <1>6, SessionStays DEF ReaderInv
  <2>2. Snap' = Snap /\ pc' \notin Hashed
    BY <1>6 DEF Snap, Observed
  <2> QED BY <1>6, <2>1, <2>2 DEF ViewsOK
<1>7. ASSUME session # None, session' = session \/ Invalidate,
             UNCHANGED <<source, artifact, pinned>>, pc' \notin Observed,
             \A i \in 1..Len(views') : i \in 1..Len(views) /\ views'[i] = views[i]
      PROVE  ViewsOK'
  <2>1. session'.src = session.src
    BY <1>7, SessionStays DEF ReaderInv
  <2>2. (SeenContent => SeenContent') /\ (SeenSealed => SeenSealed')
    BY <1>7, <2>1 DEF SeenContent, SeenSealed
  <2> QED BY <1>2, <1>6, <1>7, <2>2
<1>8. ASSUME NEW req, Bind(req) PROVE FALSE
  BY <1>8 DEF Bind
<1>9. CASE Load \/ Bound
  BY <1>5, <1>9 DEF Load, Bound, Decide, ReaderInv, ControlOK
<1>10. CASE Entered \/ Enter \/ Close
  <2>1. /\ session # None /\ (session' = session \/ Invalidate)
        /\ UNCHANGED <<world, bound, views>>
    BY <1>10 DEF Entered, Enter, Close, Decide, Using, Open, BeginCheck, ReaderInv, ControlOK
  <2>2. pc' \notin Observed
    BY <1>10 DEF Entered, Enter, Close, Using, BeginCheck, Observed, Hashed
  <2> QED BY <1>7, <2>1, <2>2 DEF world, bound
<1>11. CASE Left
  <2>1. /\ session # None /\ (session' = session \/ Invalidate) /\ Reading
        /\ UNCHANGED <<world, bound>> /\ views' = Pop /\ pc' \notin Observed
    BY <1>11 DEF Left, Decide, Reading, ReaderInv, ControlOK, Observed, Hashed
  <2> QED BY <1>7, <2>1, PopKeeps DEF world, bound, ReaderInv
<1>12. CASE LeaveClosed
  <2>1. /\ session # None /\ session' = session /\ Reading
        /\ UNCHANGED <<world, bound>> /\ views' = Pop /\ pc' \notin Observed
    BY <1>12 DEF LeaveClosed, Using, Observed, Hashed
  <2> QED BY <1>7, <2>1, PopKeeps DEF world, bound, ReaderInv
<1>13. CASE OpenIndex
  <2>1. /\ session # None /\ (session' = session \/ Invalidate)
        /\ UNCHANGED <<source, artifact, pinned>> /\ pc' \notin Observed
    BY <1>13 DEF OpenIndex, NoFault, Fault, world, bound, ReaderInv, ControlOK, Observed, Hashed
  <2>2. CASE UNCHANGED views
    BY <1>7, <2>1, <2>2
  <2> DEFINE opened == [index |-> artifact[Snap.gen].sealed, seen |-> {}, sealed |-> TRUE, raised |-> FALSE]
  <2>3. CASE views' = Append(views, opened)
    <3>1. opened \in View
      BY <1>2, <2>1 DEF View
    <3>2. Len(views') = Len(views) + 1 /\ Len(views) \in Nat
          /\ \A i \in 1..Len(views') : views'[i] = IF i <= Len(views) THEN views[i] ELSE opened
      BY <1>1, <2>3, <3>1, ViewUpdates
    <3>3. opened.index = artifact[Snap.gen].sealed /\ opened.seen = {} /\ opened.sealed
      OBVIOUS
    <3> HIDE DEF opened
    <3>4. session'.src = session.src
      BY <2>1, SessionStays DEF ReaderInv
    <3>5. SeenContent => SeenContent'
      BY <3>2, <3>3, <3>4 DEF SeenContent
    <3>6. SeenSealed /\ artifact[Snap.gen].sealed => SeenSealed'
      <4> SUFFICES ASSUME SeenSealed, artifact[Snap.gen].sealed, NEW i \in 1..Len(views')
                   PROVE  views'[i].index /\ views'[i].sealed
        BY DEF SeenSealed
      <4>1. CASE i \in 1..Len(views)
        <5>1. views'[i] = views[i]
          BY <3>2, <4>1
        <5> QED BY <4>1, <5>1 DEF SeenSealed
      <4>2. CASE i \notin 1..Len(views)
        <5>1. views'[i] = opened
          BY <3>2, <4>2
        <5> QED BY <3>3, <5>1, Zenon
      <4> QED BY <4>1, <4>2
    <3>7. session.stamp = artifact[Snap.gen].stamp => artifact[Snap.gen].sealed
      BY <1>2, <2>1 DEF WasSealed
    <3> QED BY <1>2, <1>6, <2>1, <3>5, <3>6, <3>7
  <2> QED BY <1>13, <2>2, <2>3 DEF OpenIndex
<1>14. CASE ReadSource
  <2>1. /\ session # None /\ session' = session /\ Reading
        /\ UNCHANGED <<source, artifact, pinned>> /\ pc' \notin Observed
    BY <1>14 DEF ReadSource, Using, world, bound, Observed, Hashed
  <2> DEFINE top == [Top EXCEPT !.seen = @ \cup {source.content}]
  <2>2. TopBecomes(top) /\ Top \in View /\ Len(views) \in 1..Len(views) /\ Top = views[Len(views)]
    BY <1>14, <2>1, TopUpdates DEF ReaderInv, Top
  <2>3. top.seen = Top.seen \cup {source.content} /\ top.index = Top.index /\ top.sealed = Top.sealed
    BY <2>2 DEF View
  <2> HIDE DEF top
  <2>4. SeenSealed => SeenSealed'
    BY <2>2, <2>3 DEF TopBecomes, SeenSealed
  <2>5. SeenContent /\ source.content = session.src.content => SeenContent'
    BY <2>1, <2>2, <2>3 DEF TopBecomes, SeenContent
  <2>6. session.src.stamp = source.stamp => source.content = session.src.content
    BY <1>2, <2>1 DEF WasSource
  <2> QED BY <1>2, <1>6, <2>1, <2>4, <2>5, <2>6
<1>15. CASE ReadIndex
  <2>1. /\ session # None /\ session' = session /\ Reading
        /\ UNCHANGED <<source, artifact, pinned>> /\ pc' \notin Observed
    BY <1>15 DEF ReadIndex, Using, world, bound, Observed, Hashed
  <2>2. PICK sealed \in {Top.index, artifact[Snap.gen].sealed} :
               TopBecomes([Top EXCEPT !.sealed = @ /\ sealed])
    BY <1>15, <2>1, TopUpdates DEF ReaderInv
  <2> DEFINE top == [Top EXCEPT !.sealed = @ /\ sealed]
  <2>3. TopBecomes(top) /\ Top \in View /\ Len(views) \in 1..Len(views) /\ Top = views[Len(views)]
    BY <2>1, <2>2, TopUpdates DEF ReaderInv, Top
  <2>4. top.seen = Top.seen /\ top.index = Top.index /\ top.sealed = (Top.sealed /\ sealed)
    BY <2>3 DEF View
  <2> HIDE DEF top
  <2>5. SeenContent => SeenContent'
    BY <2>1, <2>3, <2>4 DEF TopBecomes, SeenContent
  <2>6. SeenSealed /\ artifact[Snap.gen].sealed => SeenSealed'
    BY <2>2, <2>3, <2>4 DEF TopBecomes, SeenSealed
  <2>7. session.stamp = artifact[Snap.gen].stamp => artifact[Snap.gen].sealed
    BY <1>2, <2>1 DEF WasSealed
  <2> QED BY <1>2, <1>6, <2>1, <2>5, <2>6, <2>7
<1>16. ASSUME NEW raised \in BOOLEAN, Leave(raised)
       PROVE  ViewsOK'
  <2>1. /\ session # None /\ session' = session /\ Reading
        /\ UNCHANGED <<source, artifact, pinned>> /\ pc' \notin Observed
    BY <1>16 DEF Leave, Using, BeginCheck, world, bound, Observed, Hashed
  <2> DEFINE top == [Top EXCEPT !.raised = raised]
  <2>2. TopBecomes(top) /\ Top \in View /\ Len(views) \in 1..Len(views) /\ Top = views[Len(views)]
    BY <1>16, <2>1, TopUpdates DEF ReaderInv, Top
  <2>3. top.seen = Top.seen /\ top.index = Top.index /\ top.sealed = Top.sealed
    BY <2>2 DEF View
  <2> HIDE DEF top
  <2>4. (SeenSealed => SeenSealed') /\ (SeenContent => SeenContent')
    BY <2>1, <2>2, <2>3 DEF TopBecomes, SeenSealed, SeenContent
  <2> QED BY <1>2, <1>6, <2>1, <2>4
<1> QED BY <1>3, <1>4, <1>8, <1>9, <1>10, <1>11, <1>12, <1>13, <1>14, <1>15, <1>16 DEF ReaderNext, Client

-----------------------------------------------------------------------------
(* What the reads give, and the theorems.                                  *)

(* What can be bound is of an observed, clean checkout of the snapshot.    *)
LEMMA OfTheSnapshot ==
    ASSUME NEW m, NEW rev, NEW scope, NEW cfg, NEW src, NEW issues,
           CanBind(m, rev, scope, cfg, src, issues)
    PROVE  issues = {} /\ src # None /\ src.content = Tree[m.usable.rev]
<1>1. SnapshotState(m, rev, cfg, src, issues) = "fresh"
  BY DEF CanBind, Freshness
<1>2. ~Unknown(m, rev, src, issues) /\ ~Stale(m, rev, cfg, src)
  BY <1>1 DEF SnapshotState
<1> QED BY <1>2 DEF Unknown, Stale, Dirty

(* So the results that escape are of the pinned snapshot.                   *)
LEMMA ReadsKept ==
    ASSUME ReaderInv, ReaderNext
    PROVE  ReadsOfSnapshot'
<1>1. CASE last' = None
  BY <1>1 DEF ReadsOfSnapshot
<1>2. CASE last' = last /\ (last # None => Snap' = Snap)
  BY <1>2 DEF ReaderInv, ReadsOfSnapshot
<1>3. CASE Environment
  BY <1>2, <1>3 DEF Environment, bound, Snap
<1>4. CASE Checking
  BY <1>2, <1>4, CheckMoves
<1>5. CASE Load \/ Bound
  BY <1>1, <1>5 DEF Load, Bound, Decide, ReaderInv, ControlOK
<1>6. CASE Entered \/ OpenIndex
  BY <1>2, <1>6 DEF Entered, OpenIndex, Decide, bound, Snap
<1>7. CASE Left /\ last' # None
  <2>1. /\ Result /\ ~Drifted /\ last' = Top /\ Snap' = Snap
        /\ pc = "decide" /\ session # None /\ Reading
    BY <1>7 DEF Left, Decide, Reading, ReaderInv, ControlOK, bound, Snap
  <2>2. check.src = session.src /\ check.stamp = session.stamp
    BY <2>1 DEF Drifted
  <2>3. check.issues = {} /\ check.src # None /\ check.src.content = Tree[Snap.rev]
    BY <2>1, OfTheSnapshot DEF Result, Snap
  <2>4. SeenContent /\ SeenSealed
    BY <2>1, <2>2, <2>3 DEF ReaderInv, ViewsOK, Sound, Observed, Hashed
  <2>5. Len(views) \in 1..Len(views)
    BY <2>1, TopUpdates DEF ReaderInv
  <2>6. Top.seen \subseteq {Tree[Snap.rev]} /\ Top.sealed
    BY <2>2, <2>3, <2>4, <2>5 DEF SeenContent, SeenSealed, Top
  <2> QED BY <2>1, <2>6 DEF ReadsOfSnapshot
<1>8. CASE Enter \/ ReadSource \/ ReadIndex \/ LeaveClosed \/ Close \/ \E raised \in BOOLEAN : Leave(raised)
  BY <1>1, <1>8 DEF Enter, ReadSource, ReadIndex, LeaveClosed, Close, Leave
<1>9. ASSUME NEW req, Bind(req) PROVE ReadsOfSnapshot'
  BY <1>1, <1>9 DEF Bind
<1> QED BY <1>1, <1>3, <1>4, <1>5, <1>6, <1>7, <1>8, <1>9 DEF ReaderNext, Client

(* The inductive invariant of the reader.                                  *)
THEOREM ReaderInductive == ReaderSpec => []ReaderInv
<1>1. ReaderInit => ReaderInv
  BY ReaderBegins
<1>2. ReaderInv /\ [ReaderNext]_vars => ReaderInv'
  <2>1. CASE UNCHANGED vars
    BY <2>1 DEF vars, world, bound, published, ReaderInv, ReaderTypeOK, PublishedInOrder, PinnedInOrder,
                ControlOK, StampsOK, CheckOK, SessionOK, ViewsOK, ReadsOfSnapshot, WasSource, WasSealed,
                IsSealed, Sound, SeenContent, SeenSealed, Snap
  <2>2. ASSUME ReaderInv, ReaderNext PROVE ReaderInv'
    <3>1. ReaderTypeOK /\ PublishedInOrder /\ PinnedInOrder /\ ControlOK /\ StampsOK
      BY <2>2 DEF ReaderInv
    <3>2. ReaderTypeOK'
      BY <2>2, <3>1, WorldTypes, ClientTypes DEF ReaderNext
    <3>3. PublishedInOrder' /\ PinnedInOrder' /\ ControlOK' /\ StampsOK'
      BY <2>2, <3>1, OrderKept, ControlKept, StampsKept
    <3>4. CheckOK' /\ SessionOK' /\ ViewsOK' /\ ReadsOfSnapshot'
      BY <2>2, CheckKept, SessionKept, ViewsKept, ReadsKept
    <3> QED BY <3>2, <3>3, <3>4 DEF ReaderInv
  <2> QED BY <2>1, <2>2
<1> QED BY <1>1, <1>2, PTL DEF ReaderSpec

(* The state of the reader has its types.                                  *)
THEOREM ReaderTypesHold == ReaderSpec => []ReaderTypeOK
<1>1. ReaderInv => ReaderTypeOK
  BY DEF ReaderInv
<1> QED BY <1>1, ReaderInductive, PTL

(* No result escapes a read unless all that was read belongs to the pinned *)
(* snapshot: at however many moments its check looked, however deep the    *)
(* reads nest, and whatever was altered and put back in between.           *)
THEOREM ReadsAreOfSnapshot == ReaderSpec => []ReadsOfSnapshot
<1>1. ReaderInv => ReadsOfSnapshot
  BY DEF ReaderInv
<1> QED BY <1>1, ReaderInductive, PTL

(* The graph a session serves from memory was decoded from sealed bytes.   *)
THEOREM SessionGraphIsSealed == ReaderSpec => []GraphIsSealed
<1>1. ReaderInv => GraphIsSealed
  BY DEF ReaderInv, SessionOK, GraphIsSealed
<1> QED BY <1>1, ReaderInductive, PTL

(* The snapshot of a session was published, and no refresh has withdrawn   *)
(* or replaced it but by a newer one.                                      *)
THEOREM SessionIsOfPublished == ReaderSpec => []PinnedIsPublished
<1>1. ReaderInv => PinnedIsPublished
  BY DEF ReaderInv, ControlOK, PinnedInOrder, PinnedIsPublished
<1> QED BY <1>1, ReaderInductive, PTL

(* Only a disturbance of source or artifacts, or a fault, since a session  *)
(* was bound makes a check or an opening of the index end it: no refresh   *)
(* that announces, publishes or abandons an attempt does.                  *)
THEOREM OnlyDisturbanceCloses == ReaderSpec => ClosedByDisturbanceOnly
<1>1. ReaderInv /\ [ReaderNext]_vars =>
        [Open /\ pc # "ready" /\ session' # session =>
            session.closed' /\ disturbed' > session.since]_vars
  <2> SUFFICES ASSUME ReaderInv, [ReaderNext]_vars, Open, pc # "ready", session' # session
               PROVE  session.closed' /\ disturbed' > session.since
    OBVIOUS
  <2>1. ReaderNext
    BY DEF vars
  <2>2. session # None /\ session.since \in Nat /\ disturbed \in Nat /\ session.since <= disturbed
    BY StampTypes DEF Open, ReaderInv, SessionOK
  <2>3. Entered \/ Left \/ OpenIndex
    <3>1. CASE Environment
      BY <3>1 DEF Environment
    <3>2. CASE Checking
      BY <3>2, CheckMoves
    <3>3. CASE Load \/ Bound
      BY <2>2, <3>3 DEF Load, Bound, Decide, ReaderInv, ControlOK
    <3>4. \A req : ~Bind(req)
      BY DEF Bind
    <3>5. ~(Enter \/ ReadSource \/ ReadIndex \/ LeaveClosed \/ Close \/ \E raised \in BOOLEAN : Leave(raised))
      BY DEF Enter, ReadSource, ReadIndex, LeaveClosed, Close, Leave, Using
    <3> QED BY <2>1, <3>1, <3>2, <3>3, <3>4, <3>5 DEF ReaderNext, Client
  <2>4. Invalidate
    BY <2>3 DEF Entered, Left, OpenIndex
  <2>5. session.closed'
    BY <2>2, <2>4 DEF Invalidate, ReaderInv, ReaderTypeOK, Session
  <2>6. disturbed' > session.since
    <3>1. CASE Entered \/ Left
      <4>1. pc = "decide" /\ disturbed' = disturbed /\ (~Result \/ Drifted)
        BY <3>1 DEF Entered, Left, Decide, world
      <4>2. session.since # disturbed
        <5> SUFFICES ASSUME session.since = disturbed PROVE FALSE
          OBVIOUS
        <5>1. check.src = session.src /\ check.issues = {} /\ check.stamp = session.stamp
          BY <2>2, <4>1 DEF ReaderInv, SessionOK, Observed, Hashed
        <5>2. CanBind(pinned, required.rev, required.scope, required.cfg, session.src, {})
          BY <2>2 DEF ReaderInv, SessionOK
        <5> QED BY <4>1, <5>1, <5>2 DEF Result, Drifted
      <4> QED BY <2>2, <4>1, <4>2
    <3>2. CASE OpenIndex
      <4>1. \/ disturbed' = disturbed + 1
            \/ disturbed' = disturbed /\ ~artifact[Snap.gen].sealed
        BY <3>2 DEF OpenIndex, NoFault, Fault, Disturb, world
      <4>2. session.since = disturbed => artifact[Snap.gen].sealed
        BY <2>2 DEF ReaderInv, SessionOK, IsSealed
      <4> QED BY <2>2, <4>1, <4>2
    <3> QED BY <2>3, <3>1, <3>2
  <2> QED BY <2>5, <2>6
<1> QED BY <1>1, ReaderInductive, PTL DEF ReaderSpec, ClosedByDisturbanceOnly
=============================================================================

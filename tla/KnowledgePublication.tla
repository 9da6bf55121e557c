------------------------- MODULE KnowledgePublication -------------------------
(***************************************************************************)
(* What the knowledge store promises to those who read it, whatever        *)
(* happens to the calls that refresh it: the last usable snapshot is       *)
(* replaced only by a newer one, in the step that ends its own announced   *)
(* attempt with success, and each is of a commit and was built from        *)
(* exactly the bytes it declares.  Attempts that fail, are cancelled, are  *)
(* abandoned, or never get as far as their announcement leave it alone.    *)
(***************************************************************************)
EXTENDS Knowledge

CONSTANT Ids  \* numbers of attempts, in the order they are made

ASSUME IdsAssumption == Ids \subseteq Nat

VARIABLES
    manifest,  \* manifest.json
    built      \* the contents from which the last usable snapshot was built

published == <<manifest, built>>

Unpublished == manifest = NoManifest /\ built = {}

Newer(id) == manifest.latest # None => manifest.latest.id < id

InProgress(id) ==
    /\ manifest.latest # None
    /\ manifest.latest.id = id
    /\ manifest.latest.status = "building"

Announce(id, rev) ==
    /\ Newer(id)
    /\ manifest' = [manifest EXCEPT !.latest = [id |-> id, rev |-> rev, status |-> "building"]]
    /\ UNCHANGED built

Succeed(id, rev, scope, cfg) ==
    /\ InProgress(id)
    /\ manifest' = [usable |-> [gen |-> id, rev |-> rev, scope |-> scope,
                                content |-> Tree[rev], cfg |-> cfg],
                    latest |-> [id |-> id, rev |-> rev, status |-> "succeeded"]]
    /\ built' = {Tree[rev]}

(* Also of an attempt refused before it was announced, and of one whose    *)
(* call reused the last usable snapshot and was then interrupted.          *)
AbandonDropping(id, rev, status) ==
    /\ Newer(id) \/ InProgress(id)
    /\ manifest' = [usable |-> None, latest |-> [id |-> id, rev |-> rev, status |-> status]]
    /\ built' = {}

Abandon(id, rev, status) ==
    /\ Newer(id) \/ InProgress(id)
    /\ manifest' = [manifest EXCEPT !.latest = [id |-> id, rev |-> rev, status |-> status]]
    /\ UNCHANGED built

Publishing ==
    \E id \in Ids, rev \in Revisions \cup {None} :
        \/ Announce(id, rev)
        \/ \E scope \in Scopes, cfg \in Configs : rev # None /\ Succeed(id, rev, scope, cfg)
        \/ \E status \in {"failed", "cancelled"} : Abandon(id, rev, status)

PublicationSpec == Unpublished /\ [][Publishing]_published
=============================================================================

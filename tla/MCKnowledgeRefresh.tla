-------------------------- MODULE MCKnowledgeRefresh --------------------------
(***************************************************************************)
(* Values for model checking KnowledgeRefresh.                             *)
(***************************************************************************)
EXTENDS KnowledgeRefresh, TLC

CONSTANTS r1, r2, a, b, f, g, c1, c2, w1, w2

(* Two commits of different contents.                                      *)
MCTree == [r \in {r1, r2} |-> IF r = r1 THEN a ELSE b]
MCTree1 == [r \in {r1} |-> a]

(* One scope covers the other; two scopes cover neither.                   *)
NestedScopes == {{f}, {f, g}}
OneScope == {{f}}

AnyStep == {"acquire"} \cup Holding

(* The instants between entering an except or finally clause and the       *)
(* deferral of SIGINT in it.                                               *)
Windows == {"failing", "interrupted", "finally", "backout"}

NoStep == {}

(* Every handled error, except that the manifest cannot be read back after *)
(* a cancellation, or that the lock file cannot be removed.                *)
HandledFaults == {"acquire", "load", "record"} \cup Attempting

(* The end of an attempt can be recorded.                                  *)
LiveFaults == HandledFaults \ {"record"}

(* SIGINT anywhere but in the windows.                                     *)
DeferredInterrupts == AnyStep \ Windows

(* Ctrl+C pressed again and again: during the build, on entry to the       *)
(* handler, and on entry to the finally clause.                            *)
RepeatedInterrupts == {"build", "interrupted", "finally"}

(* Ctrl+C after the publication, with a manifest that cannot be read.      *)
LateInterrupt == {"finish"}
ReloadFault == {"reload"}

(* The processes are interchangeable; no run that uses this checks         *)
(* liveness.                                                               *)
WriterSymmetry == Permutations(Writers)

=============================================================================

--------------------------- MODULE MCSnapshotReader ---------------------------
(***************************************************************************)
(* Values for model checking SnapshotReader.                               *)
(***************************************************************************)
EXTENDS SnapshotReader, TLC

CONSTANTS r1, r2, a, b, f, c1

(* Two commits of different contents.                                      *)
MCTree == [r \in {r1, r2} |-> IF r = r1 THEN a ELSE b]

OneScope == {{f}}

(* The commits are interchangeable, each with its content.                 *)
SwapCommits == {(r1 :> r2) @@ (r2 :> r1) @@ (a :> b) @@ (b :> a)}
=============================================================================

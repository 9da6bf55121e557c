--------------------------- MODULE MCClangdProvider ---------------------------
(***************************************************************************)
(* Values for model checking ClangdProvider: three documents in a window   *)
(* of two; the symbol s is declared in the first and defined in the last.  *)
(***************************************************************************)
EXTENDS ClangdProvider, TLC

CONSTANT s

MCSymbolsOf == (1 :> <<s>>) @@ (2 :> <<>>) @@ (3 :> <<s>>)
=============================================================================

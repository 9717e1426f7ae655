--------------------------- MODULE MCSourceAccess ---------------------------
(***************************************************************************)
(* Two campaigns come to one source again and again.                       *)
(***************************************************************************)
EXTENDS SourceAccess, TLC

Symmetry == Permutations(Threads)
=============================================================================

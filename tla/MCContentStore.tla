--------------------------- MODULE MCContentStore ---------------------------
(***************************************************************************)
(* Two campaigns, two images that both may keep, one page of the cache.    *)
(* Campaigns, and images, are interchangeable: no operation and no         *)
(* property names one.                                                     *)
(***************************************************************************)
EXTENDS ContentStore, TLC

Symmetry == Permutations(Campaigns) \union Permutations(Images)
=============================================================================

--------------------------- MODULE MCSourcesCache ---------------------------
(* Callers are interchangeable. *)
EXTENDS SourcesCache, TLC

MCSymmetry == Permutations(Request)
=============================================================================

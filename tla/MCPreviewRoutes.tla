--------------------------- MODULE MCPreviewRoutes ---------------------------
(* Instances of PreviewRoutes for TLC: every session belongs to one owner. *)
EXTENDS PreviewRoutes, TLC

CONSTANTS o1

MCOwnerOf(s) == o1

MCSymmetry == Permutations(Keys) \cup Permutations(Sessions)
                \cup Permutations(Calls)

=============================================================================

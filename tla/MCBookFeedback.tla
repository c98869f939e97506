--------------------------- MODULE MCBookFeedback ---------------------------
(* Favorites and feedback on small instances.                              *)
EXTENDS BookFeedback, TLC

\* Two ratings an update can tell apart, and the first illegal one.
MCRatings == {1, 5, 6}

Symmetry == Permutations(Calls)
=============================================================================

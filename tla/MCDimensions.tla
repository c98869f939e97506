---------------------------- MODULE MCDimensions ---------------------------
(* Dimensions and the books filed under them on small instances.           *)
EXTENDS Dimensions, TLC

\* No dimension, one, and two different ones.
MCTagLists == {<<>>} \cup [1..1 -> Slugs] \cup {t \in [1..2 -> Slugs] : t[1] # t[2]}

Symmetry == Permutations(Calls) \cup Permutations(Dims) \cup Permutations(Slugs)
=============================================================================

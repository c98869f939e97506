---------------------------- MODULE MCBookFiles ----------------------------
(* The files of books on small instances.                                  *)
EXTENDS BookFiles, TLC

\* One entry that is stored, one that the transport refuses, and one that the
\* service refuses for its format.
MCEntries == {[format |-> "pdf", size |-> "small", type |-> "print"],
              [format |-> "pdf", size |-> "large", type |-> "print"],
              [format |-> "other", size |-> "small", type |-> "print"]}

Symmetry == Permutations(Calls) \cup Permutations(Files)
=============================================================================

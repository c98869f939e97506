---------------------------- MODULE MCBookReview ----------------------------
(* The review workflow on small instances.                                 *)
EXTENDS BookReview, TLC

CONSTANTS alice, bob, carol

\* alice uploads and approves, bob is the super admin, carol is a teacher whose
\* token may try anything.
MCClaims == {[user |-> alice, role |-> "admin"],
             [user |-> bob, role |-> "super_admin"],
             [user |-> carol, role |-> "teacher"]}

\* An uploader and a super admin.
TwoClaims == {[user |-> alice, role |-> "admin"], [user |-> bob, role |-> "super_admin"]}

Symmetry == Permutations(Calls)
=============================================================================

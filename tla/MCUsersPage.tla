---------------------------- MODULE MCUsersPage ----------------------------
(* The users page on small instances.                                      *)
EXTENDS UsersPage

=============================================================================

---------------------------- MODULE MCPagedList ----------------------------
(* A paged list on small instances.                                        *)
EXTENDS PagedList

=============================================================================

------------------------------ MODULE MCServer ------------------------------
(* The life of the programs on small instances.                            *)
EXTENDS Server

=============================================================================

----------------------------- MODULE MCAccounts ----------------------------
(* Accounts, tokens and the seeding of the admin on small instances.       *)
EXTENDS Accounts

=============================================================================

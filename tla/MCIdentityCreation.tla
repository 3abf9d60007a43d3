-------------------------- MODULE MCIdentityCreation --------------------------
(* IdentityCreation over IdentityRegistry on a small instance. *)
EXTENDS IdentityCreation, TLC

=============================================================================

--------------------------- MODULE MCProfileRegistry ---------------------------
(* IdentityRegistry and ProfileRegistry on a small instance. *)
EXTENDS ProfileRegistry, TLC

Symm == Permutations(Address) \cup Permutations(Fits)

=============================================================================

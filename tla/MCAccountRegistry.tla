--------------------------- MODULE MCAccountRegistry ---------------------------
(* AccountRegistry over IdentityRegistry on a small instance. *)
EXTENDS AccountRegistry, TLC

Symm == Permutations(AccountId)

=============================================================================

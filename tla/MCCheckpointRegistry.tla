------------------------- MODULE MCCheckpointRegistry -------------------------
(* CheckpointRegistry over IdentityRegistry on a small instance. *)
EXTENDS CheckpointRegistry, TLC

Symm == Permutations(Hash) \cup Permutations(Digest)

=============================================================================

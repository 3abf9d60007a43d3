--------------------------- MODULE MCPolicyRegistry ---------------------------
(* PolicyRegistry on a small instance. *)
EXTENDS PolicyRegistry, TLC

Symm == Permutations(Governor) \cup Permutations(Data)

=============================================================================

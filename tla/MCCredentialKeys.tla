--------------------------- MODULE MCCredentialKeys ---------------------------
(***************************************************************************)
(* CredentialKeys for TLC: two accounts, two fields, three keys of which   *)
(* two share a label.                                                      *)
(***************************************************************************)
EXTENDS CredentialKeys

MCLabel == [k \in 1..MaxKeys |-> k % 2]
MCFields == {"api_key", "api_secret"}

=============================================================================

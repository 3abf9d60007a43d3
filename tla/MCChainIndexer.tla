---------------------------- MODULE MCChainIndexer ----------------------------
(* ChainIndexer on a small instance. *)
EXTENDS ChainIndexer, TLC

=============================================================================

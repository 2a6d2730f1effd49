-------------------------- MODULE MCShardReadiness --------------------------
(* The instance of ShardReadiness for TLC; its cfg gives the constants.    *)
EXTENDS ShardReadiness
=============================================================================

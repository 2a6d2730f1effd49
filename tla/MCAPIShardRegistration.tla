----------------------- MODULE MCAPIShardRegistration -----------------------
(* Instances of APIShardRegistration for TLC.                              *)
EXTENDS APIShardRegistration, TLC

CONSTANTS s1, a, b

(* Every shard may ask for every API. *)
ClaimAll == [s \in Shards |-> APIServices]

Symmetry == Permutations(APIServices)
=============================================================================

------------------------ MODULE MCShardProvisioning ------------------------
(* Instances of ShardProvisioning for TLC.                                 *)
EXTENDS ShardProvisioning

Shard(storage, replicas, monitoring, caCert) ==
  [storage |-> storage, kine |-> replicas, secondary |-> replicas, colocate |-> replicas > 1,
   monitoring |-> monitoring, caCert |-> caCert]
InClusterShards == {Shard(SQLite, 1, FALSE, FALSE), Shard(InClusterPostgreSQL, 2, TRUE, FALSE)}
Databases == {Shard(InClusterPostgreSQL, 2, TRUE, FALSE), Shard(PostgreSQL, 1, TRUE, TRUE)}
FullCluster == {[monitor |-> TRUE, scc |-> TRUE]}
=============================================================================

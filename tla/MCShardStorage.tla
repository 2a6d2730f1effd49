--------------------------- MODULE MCShardStorage ---------------------------
(* Instances of ShardStorage for TLC.                                      *)
EXTENDS ShardStorage

InCluster(persistence) ==
  [type |-> "InClusterPostgreSQL", ref |-> FALSE, persistence |-> persistence]
Claim(size, class) == <<[name |-> "data", size |-> size, class |-> class]>>
External(ref) == [type |-> "PostgreSQL", ref |-> ref, persistence |-> <<>>]
Embedded == [type |-> "SQLite", ref |-> FALSE, persistence |-> <<>>]

MixedSpecs ==
  {InCluster(<<>>), InCluster(Claim(1, "unset")), External(TRUE), External(FALSE), Embedded}
=============================================================================

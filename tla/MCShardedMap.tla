----------------------------- MODULE MCShardedMap -----------------------------
(***************************************************************************)
(* Small instances of ShardedMap.  ActiveShards = 2 makes four shards, of  *)
(* which keys use two: shard 1 and, for the keys that are 0 modulo 2, the  *)
(* last one.                                                               *)
(***************************************************************************)
EXTENDS ShardedMap, TLC

MCKey == 1..3
MCWeight == {1, 2}
MCNoScanner == {}
Symmetry == Permutations(Thread)
===============================================================================

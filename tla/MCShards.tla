-------------------------------- MODULE MCShards --------------------------------
(* Five shards, as of a map whose ActiveShards is 3: the keys are in two that are *)
(* neighbours, two of them in one; the shards registered in two of the orders.    *)
EXTENDS Shards
MCShardOf == <<1, 2, 2>>
MCWeightOf == <<2, 1, 1>>
MCOrders == {<<3, 0, 2, 4, 1>>, <<0, 1, 2, 3, 4>>}
================================================================================

SPECIFICATION FairSpec
CONSTANTS
  NumOfShards = 5
  Key = {1, 2, 3}
  Orders <- MCOrders
  ShardOf <- MCShardOf
  WeightOf <- MCWeightOf
  Fat = 2
  Threshold = 3
  BalancerMem = 0
  StatCap = 1
  MaxEntries = 3
  MaxClears = 1
  Nil = Nil
INVARIANTS StatsHonest
PROPERTIES RebalanceSorts PassEnds
CHECK_DEADLOCK FALSE

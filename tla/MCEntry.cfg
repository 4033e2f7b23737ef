SPECIFICATION EntrySpec
CONSTANTS
  Path <- MCPath
  Query <- MCQuery
  Headers <- MCHeaders
  Configs <- MCConfigs
  Answers <- MCAnswers
  Hash <- MCHash
  MapShardKey <- MCMapShardKey
  None = None
  MaxQuery = 4
INVARIANTS  OrderFree PayloadFaithful
PROPERTY LoadedIsDumped

CONSTANTS
  k1 = k1  k2 = k2  ann = ann  noOne = noOne
  Keys <- MCKeys
  Ids <- MCIds
  MaxFailed <- MCMaxFailed
  None = noOne
SPECIFICATION FairSpec
INVARIANTS TypeOK OneLogin LobbyAgrees OnTimeStays FaultExplained
PROPERTIES LostRemoved
CHECK_DEADLOCK FALSE

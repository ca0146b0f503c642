CONSTANTS
  TimerId = {"sd", "led"}
  Durations = {25}
  Cards = {sdsc, sdhc}
  BlockCards = {sdhc}
  Sector = 2
  LastSector = 4
  MaxBlocks = 2
  InitMs = 25
  DataMs = 60
  Tables <- MCTables
  MaxFaults = 2
SPECIFICATION SdSpec
INVARIANTS TransfersAreRight CardIsSelected
PROPERTIES OnlyTheTableIsWritten ElapsesInTime RequestsEnd

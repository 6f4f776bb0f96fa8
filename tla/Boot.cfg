CONSTANTS
  MinimalCount = 1
  DisableCount = 2
  Grace = 3
  Width = 8
  Order <- MCOrder
  OwnTask <- MCOwnTask
  Once <- MCOnce
  MayBeDown <- MCOwnTask
  Updates <- MCUpdates
  MaxCrashes = 2
  MaxRestarts = 2
SPECIFICATION FairSpec
INVARIANTS
  TypeOK
  LoopProtection
  NoEarlyResetElse
  ReasonIsTrueElse
PROPERTIES
  RestartEnds

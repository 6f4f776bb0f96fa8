CONSTANTS
  Groups <- MCGroups
  MaxPending = 2
  IndexMod = 2
  MaxConts = 3
  MaxTelegrams = 4
  MaxLoss = 2
SPECIFICATION Spec
INVARIANTS
  TypeOK
  Genuine
  LeaksBounded
PROPERTIES
  Delivers

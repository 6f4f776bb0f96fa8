CONSTANTS
  Window = 2
  BusTimeout = 3
  AckGrace = 2
  SessionCap = 5
  IdleMax = 4
  SecsMax = 6
  Requests <- MCRequests
  Clients <- MCClients
  MaxOrders = 2
SPECIFICATION FairSpec
INVARIANTS
  TypeOK
  NeverAlone
PROPERTIES
  QuietWake
  OnlyAsked
  LetsSleep

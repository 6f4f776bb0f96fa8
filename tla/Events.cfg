CONSTANTS
  Handlers <- MCHandlers
  Caller <- MCCaller
  On <- MCOn
  Sigs <- MCSigs
  NameOf <- MCNameOf
  Tickers <- MCTickers
  AnyEvent = "*"
  EventTask = "events"
  Tasks <- MCTasks
  TimerTask = "timers"
  Timers <- MCTimers
  QueueSize = 2
  Nobody = "nobody"
  Script = "script"
SPECIFICATION FairSpec
INVARIANTS
  TypeOK
  SignalsConserved
PROPERTIES
  NeverForEarlier
  SilencedAtOnce
  EverybodyHears
  HandlerLeaves
CHECK_DEADLOCK FALSE

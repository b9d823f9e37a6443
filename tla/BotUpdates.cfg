SPECIFICATION Spec
CONSTANTS
  Kinds = {"stranger", "command", "ask", "mutate", "launch", "text"}
  Loop = loop
  Task = task
  Timer = timer
  Free = free
  MaxUpdates = 2
  MaxStops = 2
  MaxFaults = 1
  MaxRefreshes = 1
INVARIANT TypeOK
INVARIANT RerunOnlyInterrupted
PROPERTY EveryUpdateHandled
PROPERTY GateReturns

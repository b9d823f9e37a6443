SPECIFICATION Spec
CONSTANTS
  a = a
  b = b
  Lines = {a, b}
  Files = {x, y}
  Journal = journal
  StateFiles = statefiles
  Prober = prober
  Drift = drift
  Notifier = notifier
  Crews <- MCCrews
  Capacity = 2
  SelfWindow = 3
  RollbackWindow = 2
  Debounce = 2
  None = none
  MaxTime <- MCMaxTime
  MaxNews <- MCMaxNews
  MaxFaults = 1
INVARIANTS
  TypeOK
  Remembered
PROPERTIES
  AlarmsPair
  OwnWritesQuiet
  NewsArrives
\* Every budget may be spent.
CHECK_DEADLOCK FALSE

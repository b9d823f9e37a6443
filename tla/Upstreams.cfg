SPECIFICATION Spec
CONSTANTS
  a = a
  b = b
  Links = {a, b}
  Offers <- OneOrder
  Bot = bot
  Shells = {hubctl}
  Messages = {message}
  None = none
  Stray = stray
  Overlap = FALSE
  RestartMayBreak = FALSE
  MaxFaults = 1
  MaxCrashes = 1
INVARIANT TypeOK
INVARIANT OnlyProven
PROPERTY KnownIsKept

SPECIFICATION Spec
CONSTANTS
  a = a
  b = b
  Links = {a, b}
  Offers <- OneOrder
  Bot = bot
  Shells = {}
  Messages = {}
  None = none
  Stray = stray
  Overlap = FALSE
  RestartMayBreak = FALSE
  MaxFaults = 0
  MaxCrashes = 1
PROPERTY RestoreKeepsBoth

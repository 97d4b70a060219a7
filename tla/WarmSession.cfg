SPECIFICATION Spec
CONSTANTS
    a = a
    b = b
    Syms = {a, b}
    Refuses = {b}
    Close = 3
    Prints <- MCPrints
    Fires = {2, 3}
    OpenGrace = 3
    MaxRows = 1
    MaxFaults = 1
INVARIANTS
  TypeOK
  LiveMatchesReplay
PROPERTIES
  NeverBackwards
  SettledOvernight

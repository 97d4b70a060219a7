SPECIFICATION Spec
CONSTANTS
    a = a
    b = b
    Syms = {a}
    Refuses = {a}
    Close = 2
    Prints <- MCPrintsAll
    Fires = {2}
    OpenGrace = 2
    MaxRows = 1
    MaxFaults = 1
PROPERTIES
  Settles

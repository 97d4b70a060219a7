SPECIFICATION Spec
CONSTANTS
    worker = worker
    poll = poll
    Callers = {worker, poll}
    Modes = {"socket", "file", "inproc"}
    MaxBoxes = 2
    MaxBars = 3
    MaxTicks = 2
    MaxFaults = 1
INVARIANTS
  TypeOK
  WholePayload
  AnswersAreExact
PROPERTIES
  Quiesces
CHECK_DEADLOCK FALSE

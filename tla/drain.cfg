SPECIFICATION FairSpec
CONSTANTS
  None = None
  a = a
  b = b
  s1 = s1
  r1 = r1
  Services = {s1}
  Calls = {a, b}
  Runs = {r1}
  ServiceOf <- OneService
  RunOf <- OneRun
  WINDOW = 1
  QUIESCENCE = 2
  POLL = 1
  CALL_TIMEOUT = 1
  PinPath = 1
  MaxStart = 0
CHECK_DEADLOCK FALSE
INVARIANTS
  DrainedStaysDrained
  WithinDeadline
PROPERTIES
  DrainEnds

\* Two requests, two agents, one permit more than the local spool has.
CONSTANTS
  None = None
  Local = Local
  r1 = r1
  r2 = r2
  r3 = r3
  r4 = r4
  r5 = r5
  a1 = a1
  a2 = a2
  h1 = h1
  s1 = s1
  o1 = o1
  o2 = o2
  Requests = {r1, r2, r3, r4, r5}
  Names = {a1, a2}
  Savers = {o1, o2}
  Hostname <- MCHostname
  Tables <- MCTables
  Inputs <- MCInputs
  MaxConcurrent = 2
  Capacity = 2
  MaxFrames = 4
SPECIFICATION MCSpec
CHECK_DEADLOCK FALSE
INVARIANTS
  CleanIsWhole
  OneLocalExtraction
  StampedStaysHome
  RoutingAgrees
PROPERTIES
  SlotsComeBack

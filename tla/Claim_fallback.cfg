SPECIFICATION FairSpec
CONSTANTS
  Project = {p1}
  Request = {r1}
  MaxDep = 1
  Operations = {"create"}
  Faults = {"head"}
  ManualStatus = {}
\* Quiescence is a legal end: nobody has to send another request.
CHECK_DEADLOCK FALSE
PROPERTIES
  FallbackSettles

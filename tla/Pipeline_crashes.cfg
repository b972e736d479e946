SPECIFICATION FairSpec
CONSTANTS
  Project = {p1}
  Request = {r1}
  MaxDep = 2
  Operations = {"create", "push", "cancel"}
  Faults = {"crash", "request", "ttl", "redis", "head"}
  ManualStatus = {}
\* Quiescence is a legal end: nobody has to send another request.
CHECK_DEADLOCK FALSE
INVARIANTS
  CancelIsHonoured
PROPERTIES
  EverySettles
  EveryJobEnds

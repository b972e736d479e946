SPECIFICATION Spec
CONSTANTS
  Project = {p1}
  Request = {r1}
  MaxDep = 2
  Operations = {"push"}
  Faults = {}
  ManualStatus = {}
\* Quiescence is a legal end: nobody has to send another request.
CHECK_DEADLOCK FALSE
INVARIANTS
  SuccessRateIsPercentage

SPECIFICATION Spec
CONSTANTS
  Project = {p1}
  Request = {r1}
  MaxDep = 2
  Operations = {"create", "cancel"}
  Faults = {}
  ManualStatus = {}
\* Quiescence is a legal end: nobody has to send another request.
CHECK_DEADLOCK FALSE
PROPERTIES
  CanceledNeverLive

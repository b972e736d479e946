SPECIFICATION Spec
CONSTANTS
  Project = {p1, p2}
  Request = {r1}
  MaxDep = 2
  Operations = {"push", "expire", "manual"}
  Faults = {"call", "k8s"}
  ManualStatus = {"CANCELED"}
SYMMETRY Symmetry
\* Quiescence is a legal end: nobody has to send another request.
CHECK_DEADLOCK FALSE
INVARIANTS
  SuccessIsConsistent

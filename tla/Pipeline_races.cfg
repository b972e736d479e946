SPECIFICATION MCSpec
CONSTANTS
  Project = {p1}
  Request = {r1, r2}
  MaxDep = 2
  Operations = {"create", "push", "cancel", "expire"}
  Faults = {}
  ManualStatus = {}
  Tab = {101, 102}
  Call = {1, 2, 3}
  tabOf <- MCTabOf
  MaxExpiry = 1
SYMMETRY Symmetry
\* Quiescence is a legal end: nobody has to send another request.
CHECK_DEADLOCK FALSE
INVARIANTS
  InProgressIsOwned
  SupersededHasSuccessor
  StaysSignedIn
  LogoutIsFinal
  WaitersAreServed
PROPERTIES
  ImplementsLifecycle

SPECIFICATION MCFairSpec
CONSTANTS
  p1 = p1
  p2 = p2
  h1 = h1
  h2 = h2
  Project = {p1}
  ProjectName = {"my-app"}
  K8sName = {"my-app"}
  k8sNameOf <- MCK8sNameOf
  Renamable = {}
  MaxRename = 0
  Name = {"App.com", "dev.com"}
  Host = {"app.com", "dev.com", h1}
  hostOf <- MCHostOf
  defaultHost <- MCDefault
  Pointed = {"App.com"}
  MaxRow = 2
  MaxJob = 1
  Faults = {"k8s"}
  Files <- MCFiles
  PortValue = {8080, 70000}
  MaxPlan = 2
  DayHours = 3
  Days = 2
  MaxHour = 13
  MaxStart = 2
  Window = {"w1", "w2"}
  Hook = {1}
  MaxForm = 2
  MaxChange = 2
  Installed = {"git"}
  Threshold = 2
  MaxKill = 1
  MaxDeployed = 2
  MaxVisit = 1
  MaxFailure = 1
\* Nobody has to deploy or to save again, and time ends.
CHECK_DEADLOCK FALSE
INVARIANTS
  ChartCountsAll
  RowIsOneForm
  ToldOneOutcome
  RoutedPortIsServed
  ServesItsOutput
  OwnAreListed
PROPERTIES
  PendingIsResolved
  PlatformComesUp
  PageSettles

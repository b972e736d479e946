SPECIFICATION MCSpec
CONSTANTS
  Project = {"p1", "p2"}
  Name = {"app", "web"}
  K8sName = {"app", "web"}
  k8sNameOf <- MCK8sNameOf
  NoProject = "none"
  Request = {1}
  MaxDep = 2
  MaxCleanup = 1
  Renamable = {"p2"}
  Removable = {"p1"}
  NumKind = 2
  N = 2
  MaxRestart = 1
  Faults = {"k8s", "redis", "api", "rollback", "crash"}
  Variable = {1, 2, 3}
  keyOf <- MCKeyOf
  Production = {1, 3}
  Blank = {3}
  Handler = {"manual", "push"}
  Webhook = {"push"}
  MaxSave = 2
  MaxEdit = 2
CHECK_DEADLOCK FALSE
INVARIANTS
  UncommittedNeverDeploys
  LeaksAreKnown
  ReadyIsServed
  EndedIsSilent
  BannerIsRight
  TableIsOneSave
  CleanPanelIsSaved
PROPERTIES
  RemovedIsCleared

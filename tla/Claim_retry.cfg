SPECIFICATION FairSpec
CONSTANTS
  p1 = p1
  p2 = p2
  h1 = h1
  h2 = h2
  Project = {p1}
  ProjectName = {"my-app"}
  K8sName = {"my-app"}
  k8sNameOf <- MCK8sNameOf
  Renamable = {}
  MaxRename = 0
  Name = {"app.com"}
  Host = {"app.com", h1}
  hostOf <- MCHostOf
  defaultHost <- MCDefault
  Pointed = {"app.com"}
  MaxRow = 1
  MaxJob = 1
  Faults = {"k8s"}
PROPERTIES
  ErrorIsRetried

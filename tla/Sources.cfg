SPECIFICATION MCSpec
CONSTANTS
  p1 = p1
  p2 = p2
  h1 = h1
  h2 = h2
  Project = {p1, p2}
  ProjectName = {"my-app", "My-App", "api"}
  K8sName = {"my-app", "api"}
  k8sNameOf <- MCK8sNameOf
  Renamable = {p1, p2}
  MaxRename = 1
  Name = {"app.com"}
  Host = {"app.com", h1, h2}
  hostOf <- MCHostOf
  defaultHost <- MCDefault
  Pointed = {"app.com"}
  MaxRow = 2
  MaxJob = 1
  Faults = {"call", "k8s", "dns", "crash"}
  Repo = {"My App", "my_app"}
  AutoDeploy = {"my_app"}
  registryOf <- MCRegistryOf
  MaxCommit = 2
  MaxBuild = 3
  BuildFaults = {"fail", "crash"}
  User = {"u1", "u2"}
  Identity = {"ann", "bob"}
  Organization = {"org"}
  memberOf <- MCMemberOf
  mailOf <- MCMailOf
  Callback = {1, 2}
  MaxInstall = 2
  MaxImport = 1
  Nobody = "nobody"
  Repository = {"app", "api"}
  Dir = {"./", "web"}
  MaxChange = 2
  MaxPress = 2
  MaxTimer = 2
  MaxRequest = 2
  DetectFaults = {"fails", "unknown"}
\* Nobody has to push a commit or to add a domain.
CHECK_DEADLOCK FALSE
INVARIANTS
  RoutedForItsProject
  QuietIsNewest
  RunsItsBuild
  ProjectsStayReadable
  FrameworkIsItsOwn
  FormIsTheUsers
PROPERTIES
  ActivatedIsRouted
  NeverGoesBack

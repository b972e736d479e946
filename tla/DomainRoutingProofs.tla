------------------------- MODULE DomainRoutingProofs -------------------------
(***************************************************************************)
(* Proofs about DomainRouting, for all projects, names and hosts, any      *)
(* number of rows, jobs and renames, and all faults: its types,            *)
(* RoutedForItsProject, DefaultHostStays and ActivatedIsRouted, and that a *)
(* row in the goroutine's hands is resolved.  At the end, proofs about     *)
(* Startup: how API and worker come up.                                    *)
(*                                                                         *)
(* None of these is inductive.  What is written into an ingress, and under *)
(* which name, has been collected before, by the creation of a job, by the *)
(* fetch of the pending rows or by AddDomain's read two calls earlier.  So *)
(* the invariants speak of every name that is still going to be used and   *)
(* of every list of hosts that is still going to be written: the ones of   *)
(* waiting jobs, of the job in Deploy, and of the goroutine between its    *)
(* two reads and its write.                                                *)
(***************************************************************************)
EXTENDS DomainRouting, Startup, TLAPS

\* Rows past made are unused, and the goroutine only knows created rows; it
\* has one in hand exactly in the steps of one visit.
Created ==
  /\ \A i \in Row : i \in 1 .. made <=> row[i] # NoRecord
  /\ \A d \in dlist : d.row \in 1 .. made
  /\ IF dpc \in {"idle", "next"}
       THEN dcur = NoRow ELSE dcur \in 1 .. made /\ dname \in K8sName
  /\ bpc # "idle" => bjob \in Job

Types == TypeOK /\ Created

\* The hosts a project has ever had a row for.
claimed == [p \in Project |->
  {hostOf[row[i].name] : i \in {j \in 1 .. made : row[j].project = p}}
    \cup {defaultHost[p]}]

\* The hosts of all projects that have ever had a name.
routable == [n \in K8sName |->
  UNION {claimed[p] : p \in {q \in Project : n \in held[q]}}]

\* Every name in use is one that its project has had.
HeldInv ==
  /\ \A p \in Project : IngressName(p) \in held[p]
  /\ \A j \in jobs : j.name \in held[j.project]
  /\ bpc # "idle" => bjob.name \in held[bjob.project]
  /\ \A d \in dlist : d.name \in held[row[d.row].project]
  /\ dpc \notin {"idle", "next"} => dname \in held[row[dcur].project]
  /\ \A n \in K8sName :
       ingress[n].exists => \E p \in Project : n \in held[p]

\* Every list of hosts that is or may be written is of projects that have had
\* the name it is written under.
RoutedInv ==
  /\ \A n \in K8sName : ingress[n].hosts \subseteq routable[n]
  /\ \A j \in jobs : j.hosts \subseteq routable[j.name]
  /\ bpc # "idle" => bjob.hosts \subseteq routable[bjob.name]
  /\ dpc \in {"get", "update"} =>
       \A h \in dhosts : hostOf[h] \in routable[dname]

\* No other project has had the name.
Only(p, n) == \A q \in Project : n \in held[q] <=> q = p

\* None of these lists lacks the generated host.
DefaultInv ==
  /\ \A p \in kept, n \in K8sName :
       Only(p, n) /\ ingress[n].exists => defaultHost[p] \in ingress[n].hosts
  /\ \A j \in jobs : j.project \in kept => defaultHost[j.project] \in j.hosts
  /\ bpc # "idle" /\ bjob.project \in kept =>
       defaultHost[bjob.project] \in bjob.hosts
  /\ dpc \in {"get", "update"} =>
       \A p \in kept : Only(p, dname) => defaultHost[p] \in dhosts

\* What a current resourceVersion is worth: the ingress the goroutine has read
\* is still there, and has the host of the row that is about to be ACTIVE; and
\* Deploy only creates an ingress that is not there.
FreshInv ==
  /\ dpc \in {"get", "update"} => row[dcur].name \in dhosts
  /\ dpc \in {"update", "activate"} /\ dfresh => ingress[dname].exists
  /\ dpc = "activate" /\ dfresh =>
       hostOf[row[dcur].name] \in ingress[dname].hosts
  /\ bpc = "create" => ~ ingress[bjob.name].exists

-----------------------------------------------------------------------------
(* Types *)

\* A created row is a record of the table (domains.service.ts, AddRow), so
\* what is read from it has its type.
LEMMA RowsAreTyped ==
  ASSUME Types, NEW i \in 1 .. made
  PROVE  /\ i \in Row /\ i # NoRow
         /\ row[i] \in [name : Name, project : Project,
                        status : {"PENDING", "ACTIVE", "ERROR", "GONE"}]
         /\ row[i].name \in Name /\ row[i].project \in Project
         /\ row[i].status \in {"PENDING", "ACTIVE", "ERROR", "GONE"}
<1>1. i \in Row /\ i # NoRow
  BY RoutingAssumption DEF Types, TypeOK, Row, NoRow
<1>2. row[i] # NoRecord
  BY <1>1 DEF Types, Created
<1>3. QED
  BY <1>1, <1>2 DEF Types, TypeOK

\* A row with a status has been created by AddRow.
LEMMA PresentIsCreated ==
  ASSUME Types, NEW i \in Row, row[i].status # "NONE"
  PROVE  i \in 1 .. made
BY DEF Types, Created, NoRecord

\* buildIngressRules makes hosts of names.
LEMMA SanitizedAreHosts ==
  ASSUME NEW H \in SUBSET (Name \cup Host)
  PROVE  Sanitized(H) \in SUBSET Host
BY RoutingAssumption DEF Sanitized

\* The hosts a job is created with (deployments.service.ts) are hosts.
LEMMA HostsOfAreHosts ==
  ASSUME Types, NEW p \in Project
  PROVE  HostsOf(p) \in SUBSET Host
<1>1. ASSUME NEW i \in Row, Present(i)
      PROVE  hostOf[row[i].name] \in Host
  BY <1>1, PresentIsCreated, RowsAreTyped, RoutingAssumption DEF Present
<1>2. \A q \in kept : defaultHost[q] \in Host
  BY RoutingAssumption DEF Types, TypeOK
<1>3. QED
  BY <1>1, <1>2 DEF HostsOf

\* The row in the goroutine's hands, between VerifyNext and Visited.
LEMMA InHand ==
  ASSUME Types, dpc \notin {"idle", "next"}
  PROVE  /\ dcur \in 1 .. made /\ dcur \in Row /\ dname \in K8sName
         /\ row[dcur].project \in Project /\ row[dcur].name \in Name
<1>1. dcur \in 1 .. made /\ dname \in K8sName
  BY DEF Types, Created
<1>2. QED
  BY <1>1, RowsAreTyped

\* A status write touches one created row, and only its status.
LEMMA StatusCallKeeps ==
  ASSUME Types, NEW i \in 1 .. made,
         NEW s \in {"PENDING", "ACTIVE", "ERROR"}, StatusCall(i, s)
  PROVE  /\ row' \in [Row -> [name : Name, project : Project,
                       status : {"PENDING", "ACTIVE", "ERROR", "GONE"}]
                      \cup {NoRecord}]
         /\ \A j \in Row : row'[j] # NoRecord <=> row[j] # NoRecord
         /\ \A j \in Row : /\ row'[j].project = row[j].project
                           /\ row'[j].name = row[j].name
<1>1. i \in Row /\ row[i] \in [name : Name, project : Project,
                        status : {"PENDING", "ACTIVE", "ERROR", "GONE"}]
  BY RowsAreTyped
<1>2. CASE row' = row
  BY <1>2 DEF Types, TypeOK
<1>3. CASE row' = [row EXCEPT ![i].status = s]
  <2>1. row'[i] = [row[i] EXCEPT !.status = s]
    BY <1>1, <1>3 DEF Types, TypeOK
  <2>2. /\ row'[i] \in [name : Name, project : Project,
                        status : {"PENDING", "ACTIVE", "ERROR", "GONE"}]
        /\ row'[i].status = s
        /\ row'[i].project = row[i].project /\ row'[i].name = row[i].name
    BY <1>1, <2>1
  <2>3. row'[i] # NoRecord /\ row[i] # NoRecord
    BY <1>1, <2>2 DEF NoRecord
  <2>4. \A j \in Row \ {i} : row'[j] = row[j]
    BY <1>3 DEF Types, TypeOK
  <2>5. row' \in [Row -> [name : Name, project : Project,
                       status : {"PENDING", "ACTIVE", "ERROR", "GONE"}]
                      \cup {NoRecord}]
    BY <1>1, <1>3, <2>1, <2>2, <2>4 DEF Types, TypeOK
  <2>6. QED
    BY <2>2, <2>3, <2>4, <2>5
<1>4. QED
  BY <1>2, <1>3 DEF StatusCall

\* Every project has the name of an ingress.
LEMMA NamesAreTyped ==
  ASSUME Types, NEW p \in Project
  PROVE  IngressName(p) \in K8sName
BY RoutingAssumption DEF IngressName, Types, TypeOK

\* Initially there is no row, no ingress and nobody at work.
LEMMA InitTypes ==
  ASSUME Init
  PROVE  Types
<1>1. NoIngress \in [exists : BOOLEAN, hosts : SUBSET Host]
  BY DEF NoIngress
<1>2. ingress \in [K8sName -> [exists : BOOLEAN, hosts : SUBSET Host]]
  BY <1>1 DEF Init
<1>3. TypeOK
  <2>1. row \in [Row -> [name : Name, project : Project,
                       status : {"PENDING", "ACTIVE", "ERROR", "GONE"}]
                      \cup {NoRecord}]
    BY DEF Init
  <2>2. made \in 0 .. MaxRow
    BY RoutingAssumption DEF Init
  <2>3. dpc = "idle" /\ bpc = "idle" /\ dhosts = {} /\ dlist = {} /\ jobs = {}
    BY DEF Init
  <2>4. held \in [Project -> SUBSET K8sName] /\ renames \in 0 .. MaxRename
    BY RoutingAssumption DEF Init
  <2>5. QED
    BY <1>2, <2>1, <2>2, <2>3, <2>4 DEF Init, TypeOK
<1>4. Created
  BY DEF Init, Created, Row
<1>5. QED
  BY <1>3, <1>4 DEF Types

\* Requests of the API keep the types.
LEMMA ApiTypes ==
  ASSUME Types,
         \/ \E p \in Project, n \in Name : AddRow(p, n)
         \/ \E i \in Row : RemoveRow(i)
         \/ \E p \in Project : RemoveDefault(p) \/ CreateJob(p)
         \/ \E p \in Project, n \in ProjectName : UpdateName(p, n)
  PROVE  Types'
<1>1. ASSUME NEW p \in Project, NEW n \in Name, AddRow(p, n)
      PROVE  Types'
  <2> DEFINE new == [name |-> n, project |-> p, status |-> "PENDING"]
  <2>1. /\ made + 1 \in Row /\ made' = made + 1 /\ made' \in 0 .. MaxRow
        /\ row' = [row EXCEPT ![made + 1] = new]
    BY <1>1, RoutingAssumption DEF AddRow, Types, TypeOK, Row
  <2>2. /\ new \in [name : Name, project : Project,
                    status : {"PENDING", "ACTIVE", "ERROR", "GONE"}]
        /\ new # NoRecord
    BY DEF NoRecord
  <2>3. TypeOK'
    BY <1>1, <2>1, <2>2
       DEF AddRow, nameVars, domainVars, buildVars, Types, TypeOK
  <2>4. \A i \in Row : (i \in 1 .. made)' <=> row'[i] # NoRecord
    <3>1. made \in Nat /\ row'[made + 1] = new
      BY <2>1, RoutingAssumption DEF Types, TypeOK
    <3>2. \A i \in Row \ {made + 1} : row'[i] = row[i]
      BY <2>1 DEF Types, TypeOK
    <3>3. \A i \in Row : i \in 1 .. made + 1 <=> i = made + 1 \/ i \in 1 .. made
      BY <3>1 DEF Row
    <3>4. QED
      BY <2>1, <2>2, <3>1, <3>2, <3>3 DEF Types, Created
  <2>5. \A i \in 1 .. made : i \in 1 .. made'
    BY <2>1, RoutingAssumption DEF Types, TypeOK
  <2>6. Created'
    BY <1>1, <2>4, <2>5
       DEF AddRow, nameVars, domainVars, buildVars, Types, Created
  <2>7. QED
    BY <2>3, <2>6 DEF Types
<1>2. ASSUME NEW i \in Row, RemoveRow(i)
      PROVE  Types'
  <2>1. /\ i \in 1 .. made
        /\ row[i] \in [name : Name, project : Project,
                       status : {"PENDING", "ACTIVE", "ERROR", "GONE"}]
    BY <1>2, PresentIsCreated, RowsAreTyped DEF RemoveRow, Present
  <2>2. row' = [row EXCEPT ![i].status = "GONE"]
    BY <1>2 DEF RemoveRow
  <2>3. /\ row'[i] \in [name : Name, project : Project,
                        status : {"PENDING", "ACTIVE", "ERROR", "GONE"}]
        /\ row'[i] # NoRecord /\ row[i] # NoRecord
    <3>1. row'[i] = [row[i] EXCEPT !.status = "GONE"]
      BY <2>2 DEF Types, TypeOK
    <3>2. row'[i].status = "GONE"
      BY <2>1, <3>1
    <3>3. QED
      BY <2>1, <3>1, <3>2 DEF NoRecord
  <2>4. \A j \in Row \ {i} : row'[j] = row[j]
    BY <2>2 DEF Types, TypeOK
  <2>5. TypeOK'
    BY <1>2, <2>2, <2>3, <2>4
       DEF RemoveRow, nameVars, domainVars, buildVars, Types, TypeOK
  <2>6. Created'
    BY <1>2, <2>3, <2>4
       DEF RemoveRow, nameVars, domainVars, buildVars, Types, Created
  <2>7. QED
    BY <2>5, <2>6 DEF Types
<1>3. ASSUME NEW p \in Project, RemoveDefault(p)
      PROVE  Types'
  BY <1>3 DEF RemoveDefault, nameVars, domainVars, buildVars, Types, TypeOK,
     Created
<1>4. ASSUME NEW p \in Project, CreateJob(p)
      PROVE  Types'
  <2>1. [project |-> p, name |-> IngressName(p), hosts |-> HostsOf(p)] \in Job
    BY HostsOfAreHosts, NamesAreTyped DEF Job
  <2>2. QED
    BY <1>4, <2>1
       DEF CreateJob, apiVars, nameVars, rowVars, domainVars, buildVars, Types,
       TypeOK, Created
<1>5. ASSUME NEW p \in Project, NEW n \in ProjectName, UpdateName(p, n)
      PROVE  Types'
  <2>1. /\ projectName' \in [Project -> ProjectName]
        /\ renames' \in 0 .. MaxRename
        /\ held' \in [Project -> SUBSET K8sName]
    BY <1>5, RoutingAssumption DEF UpdateName, Types, TypeOK
  <2>2. QED
    BY <1>5, <2>1 DEF UpdateName, rowVars, domainVars, buildVars, Types,
       TypeOK, Created
<1>6. QED
  BY <1>1, <1>2, <1>3, <1>4, <1>5

\* The build loop, teardowns and crashes keep the types.
LEMMA BuildTypes ==
  ASSUME Types,
         BuildStep \/ WorkerCrash \/ \E n \in K8sName : DeleteIngress(n)
  PROVE  Types'
<1> USE DEF Types, TypeOK, Created, apiVars, nameVars, rowVars, domainVars
<1>1. CASE TakeJob
  <2>1. PICK j \in jobs :
          /\ bjob' = j /\ jobs' = jobs \ {j}
          /\ bfresh' = ingress[j.name].exists
          /\ bpc' = IF ingress[j.name].exists THEN "update" ELSE "create"
    BY <1>1 DEF TakeJob
  <2>2. j \in Job /\ j.project \in Project /\ j.name \in K8sName
    BY DEF Job
  <2>3. ingress[j.name].exists \in BOOLEAN
    BY <2>2
  <2>4. QED
    BY <1>1, <2>1, <2>2, <2>3 DEF TakeJob
<1>2. ASSUME bpc # "idle"
      PROVE  bjob.name \in K8sName /\ Rules(bjob.hosts) \in
               [exists : BOOLEAN, hosts : SUBSET Host]
  BY <1>2 DEF Job, Rules
<1>3. CASE DeployCreate
  BY <1>2, <1>3 DEF DeployCreate, Put, DropJob, NoJob
<1>4. CASE DeployUpdate
  BY <1>2, <1>4 DEF DeployUpdate, Put, DropJob, NoJob, DomainStale
<1>5. CASE DeployFails
  BY <1>5 DEF DeployFails, DropJob, NoJob
<1>6. CASE WorkerCrash
  BY <1>6 DEF WorkerCrash, DropJob, NoJob
<1>7. ASSUME NEW n \in K8sName, DeleteIngress(n)
      PROVE  Types'
  BY <1>7 DEF DeleteIngress, NoIngress, DomainStale, BuildStale
<1>8. QED
  BY <1>1, <1>3, <1>4, <1>5, <1>6, <1>7 DEF BuildStep

\* Visited, after a status write, keeps the types.
LEMMA StatusWriteTypes ==
  ASSUME Types, dcur \in 1 .. made,
         NEW s \in {"PENDING", "ACTIVE", "ERROR"}, StatusCall(dcur, s),
         Visited,
         UNCHANGED <<nameVars, made, kept, ingress, jobs, dlist, buildVars>>
  PROVE  Types'
<1>1. TypeOK'
  BY StatusCallKeeps DEF Visited, nameVars, buildVars, Types, TypeOK
<1>2. Created'
  BY StatusCallKeeps DEF Visited, buildVars, Types, Created
<1>3. QED
  BY <1>1, <1>2 DEF Types

\* The verification goroutine keeps the types.
LEMMA DomainTypes ==
  ASSUME Types, DomainStep
  PROVE  Types'
<1>1. CASE CheckPending
  <2>1. \A i \in Pending : WithName(i) \in PendingDomain /\ i \in 1 .. made
    BY PresentIsCreated, RowsAreTyped, NamesAreTyped
       DEF Pending, PendingDomain, WithName
  <2>2. /\ Fetched \subseteq PendingDomain
        /\ \A d \in Fetched : d.row \in 1 .. made
    BY <2>1 DEF Fetched, WithName
  <2>3. QED
    BY <1>1, <2>2
       DEF CheckPending, apiVars, nameVars, rowVars, buildVars, Types, TypeOK,
       Created
<1>2. CASE VerifyNext
  <2>1. \A d \in dlist : /\ d.row \in Row /\ d.row \in 1 .. made
                         /\ d.name \in K8sName
    BY DEF PendingDomain, Types, TypeOK, Created
  <2>2. QED
    BY <1>2, <2>1
       DEF VerifyNext, apiVars, nameVars, rowVars, buildVars, Types, TypeOK,
       Created
<1>3. CASE Unverified \/ Activate \/ Fail
  BY <1>3, StatusWriteTypes, InHand DEF Unverified, Activate, Fail
<1>4. CASE AddDomain
  <2>1. /\ row[dcur].name \in Name /\ dcur \in 1 .. made
        /\ ingress[dname].hosts \in SUBSET Host
    BY <1>4, InHand, RowsAreTyped DEF AddDomain, Types, TypeOK
  <2>2. HostsWith(ingress[dname].hosts, row[dcur].name)
          \in SUBSET (Name \cup Host)
    BY <2>1 DEF HostsWith
  <2>3. QED
    BY <1>4, <2>1, <2>2
       DEF AddDomain, apiVars, nameVars, rowVars, buildVars, Types, TypeOK,
       Created
<1>5. CASE UpdateGet
  BY <1>5, InHand DEF UpdateGet, apiVars, nameVars, rowVars, buildVars, Types,
     TypeOK, Created
<1>6. CASE UpdateIngressHosts
  <2>1. /\ dcur \in 1 .. made /\ dname \in K8sName
        /\ Rules(Sanitized(dhosts)) \in [exists : BOOLEAN, hosts : SUBSET Host]
    BY <1>6, InHand, SanitizedAreHosts
       DEF UpdateIngressHosts, Rules, Types, TypeOK
  <2>2. TypeOK'
    BY <1>6, <2>1 DEF UpdateIngressHosts, AfterFailure, Put, BuildStale,
       apiVars, nameVars, rowVars, Types, TypeOK
  <2>3. Created'
    BY <1>6, <2>1 DEF UpdateIngressHosts, AfterFailure, apiVars, nameVars,
       rowVars, Types, Created
  <2>4. QED
    BY <2>2, <2>3 DEF Types
<1>7. QED
  BY <1>1, <1>2, <1>3, <1>4, <1>5, <1>6 DEF DomainStep

\* Every reachable state is typed, rows are created in order, and a goroutine
\* that works on a row works on a created one.
THEOREM RoutingTypes == Spec => []Types
<1>1. ASSUME Types, [Next]_vars
      PROVE  Types'
  <2>1. CASE UNCHANGED vars
    BY <1>1, <2>1 DEF vars, apiVars, nameVars, rowVars, domainVars, buildVars,
       Types, TypeOK, Created
  <2>2. QED
    BY <1>1, <2>1, ApiTypes, BuildTypes, DomainTypes DEF Next
<1>2. QED
  BY InitTypes, <1>1, PTL DEF Spec

-----------------------------------------------------------------------------
(* Routed hosts *)

\* No request or status write changes whose row it is and what its name is, a
\* deleted row of a generated host does not come back, and history stays.
LEMMA RowsStay ==
  ASSUME Types, [Next]_vars
  PROVE  /\ \A i \in 1 .. made : /\ i \in 1 .. made'
                                 /\ row'[i].name = row[i].name
                                 /\ row'[i].project = row[i].project
         /\ kept' \subseteq kept
         /\ \A p \in Project : held[p] \subseteq held'[p]
<1> DEFINE Stay == /\ \A i \in 1 .. made : /\ i \in 1 .. made'
                                           /\ row'[i].name = row[i].name
                                           /\ row'[i].project = row[i].project
                   /\ kept' \subseteq kept
                   /\ \A p \in Project : held[p] \subseteq held'[p]
<1> SUFFICES Stay
  OBVIOUS
<1>1. ASSUME UNCHANGED apiVars
      PROVE  Stay
  BY <1>1 DEF apiVars, nameVars, rowVars
<1>2. ASSUME NEW p \in Project, NEW n \in Name, AddRow(p, n)
      PROVE  Stay
  BY <1>2, RowsAreTyped, RoutingAssumption
     DEF AddRow, nameVars, Types, TypeOK, Row
<1>3. ASSUME NEW i \in Row, RemoveRow(i)
      PROVE  Stay
  <2>1. \A j \in 1 .. made : j \in Row
    BY RowsAreTyped
  <2>2. \A j \in Row : row'[j].name = row[j].name
                       /\ row'[j].project = row[j].project
    <3>1. row'[i] = [row[i] EXCEPT !.status = "GONE"]
      BY <1>3 DEF RemoveRow, Types, TypeOK
    <3>2. row[i] \in [name : Name, project : Project,
                      status : {"PENDING", "ACTIVE", "ERROR", "GONE"}]
      BY <1>3, PresentIsCreated, RowsAreTyped DEF RemoveRow, Present
    <3>3. row'[i].name = row[i].name /\ row'[i].project = row[i].project
      BY <3>1, <3>2
    <3>4. \A j \in Row \ {i} : row'[j] = row[j]
      BY <1>3 DEF RemoveRow, Types, TypeOK
    <3>5. QED
      BY <3>3, <3>4
  <2>3. QED
    BY <1>3, <2>1, <2>2 DEF RemoveRow, nameVars
<1>4. ASSUME NEW p \in Project, RemoveDefault(p) \/ CreateJob(p)
      PROVE  Stay
  BY <1>4 DEF RemoveDefault, CreateJob, apiVars, nameVars, rowVars
<1>5. CASE Unverified \/ Activate \/ Fail
  <2>1. /\ dcur \in 1 .. made /\ made' = made /\ kept' = kept /\ held' = held
        /\ \E st \in {"PENDING", "ACTIVE", "ERROR"} : StatusCall(dcur, st)
    BY <1>5, InHand DEF Unverified, Activate, Fail, nameVars
  <2>2. \A j \in 1 .. made : j \in Row
    BY RowsAreTyped
  <2>3. QED
    BY <2>1, <2>2, StatusCallKeeps
<1>6. CASE CheckPending \/ VerifyNext \/ AddDomain \/ UpdateGet
           \/ UpdateIngressHosts
  BY <1>1, <1>6
     DEF CheckPending, VerifyNext, AddDomain, UpdateGet, UpdateIngressHosts
<1>7. CASE BuildStep \/ WorkerCrash \/ \E n \in K8sName : DeleteIngress(n)
  BY <1>1, <1>7 DEF BuildStep, TakeJob, DeployCreate, DeployUpdate,
     DeployFails, WorkerCrash, DeleteIngress
<1>8. CASE UNCHANGED vars
  BY <1>1, <1>8 DEF vars
<1>9. ASSUME NEW p \in Project, NEW n \in ProjectName, UpdateName(p, n)
      PROVE  Stay
  BY <1>9 DEF UpdateName, rowVars, Types, TypeOK
<1>10. QED
  BY <1>2, <1>3, <1>4, <1>5, <1>6, <1>7, <1>8, <1>9 DEF Next, DomainStep

\* So the hosts a project may have rules for, and the ones routed under a name,
\* only grow.
LEMMA ClaimedGrows ==
  ASSUME Types, [Next]_vars
  PROVE  /\ \A p \in Project : claimed[p] \subseteq claimed'[p]
         /\ \A n \in K8sName : routable[n] \subseteq routable'[n]
<1>1. \A p \in Project : claimed[p] \subseteq claimed'[p]
  BY RowsStay DEF claimed
<1>2. \A n \in K8sName : routable[n] \subseteq routable'[n]
  BY <1>1, RowsStay DEF routable
<1>3. QED
  BY <1>1, <1>2

\* What the creation of a job reads is claimed by the project.
LEMMA HostsOfAreClaimed ==
  ASSUME Types, NEW p \in Project
  PROVE  HostsOf(p) \subseteq claimed[p]
<1>1. ASSUME NEW i \in Row, Present(i), row[i].project = p
      PROVE  hostOf[row[i].name] \in claimed[p]
  BY <1>1, PresentIsCreated DEF Present, claimed
<1>2. defaultHost[p] \in claimed[p]
  BY DEF claimed
<1>3. QED
  BY <1>1, <1>2 DEF HostsOf

\* The host of a created row is claimed by the row's project.
LEMMA RowIsClaimed ==
  ASSUME Types, NEW i \in 1 .. made
  PROVE  hostOf[row[i].name] \in claimed[row[i].project]
BY RowsAreTyped DEF claimed

-----------------------------------------------------------------------------
(* What a step may do to one part of the state *)

\* Only a rename touches the names.
LEMMA NameSteps ==
  ASSUME [Next]_vars
  PROVE  \/ UNCHANGED nameVars
         \/ \E p \in Project, n \in ProjectName : UpdateName(p, n)
<1>1. CASE DomainStep
  BY <1>1 DEF DomainStep, CheckPending, VerifyNext, Unverified, AddDomain,
     UpdateGet, UpdateIngressHosts, Activate, Fail, apiVars
<1>2. CASE BuildStep \/ WorkerCrash \/ \E n \in K8sName : DeleteIngress(n)
  BY <1>2 DEF BuildStep, TakeJob, DeployCreate, DeployUpdate, DeployFails,
     WorkerCrash, DeleteIngress, apiVars
<1>3. CASE UNCHANGED vars
  BY <1>3 DEF vars, apiVars
<1>4. CASE \/ \E p \in Project : RemoveDefault(p) \/ CreateJob(p)
           \/ \E p \in Project, n \in Name : AddRow(p, n)
           \/ \E i \in Row : RemoveRow(i)
  BY <1>4 DEF RemoveDefault, CreateJob, AddRow, RemoveRow, apiVars
<1>5. QED
  BY <1>1, <1>2, <1>3, <1>4 DEF Next

\* A job has the name and the hosts its creation has read.
LEMMA JobSteps ==
  ASSUME [Next]_vars, NEW j \in jobs'
  PROVE  \/ j \in jobs
         \/ \E p \in Project :
              /\ j = [project |-> p, name |-> IngressName(p),
                      hosts |-> HostsOf(p)]
              /\ UNCHANGED <<nameVars, rowVars>>
<1>1. CASE DomainStep
  BY <1>1 DEF DomainStep, CheckPending, VerifyNext, Unverified, AddDomain,
     UpdateGet, UpdateIngressHosts, Activate, Fail
<1>2. CASE BuildStep \/ WorkerCrash \/ \E n \in K8sName : DeleteIngress(n)
  BY <1>2 DEF BuildStep, TakeJob, DeployCreate, DeployUpdate, DeployFails,
     WorkerCrash, DeleteIngress
<1>3. CASE UNCHANGED vars
  BY <1>3 DEF vars
<1>4. CASE \/ \E p \in Project : RemoveDefault(p) \/ CreateJob(p)
           \/ \E p \in Project, n \in Name : AddRow(p, n)
           \/ \E p \in Project, n \in ProjectName : UpdateName(p, n)
           \/ \E i \in Row : RemoveRow(i)
  BY <1>4 DEF RemoveDefault, CreateJob, AddRow, RemoveRow, UpdateName, apiVars
<1>5. QED
  BY <1>1, <1>2, <1>3, <1>4 DEF Next

\* The build loop takes jobs as they are.
LEMMA DeploySteps ==
  ASSUME [Next]_vars, bpc' # "idle"
  PROVE  \/ bpc # "idle" /\ UNCHANGED bjob
         \/ bjob' \in jobs
<1>1. CASE DomainStep
  BY <1>1 DEF DomainStep, CheckPending, VerifyNext, Unverified, AddDomain,
     UpdateGet, UpdateIngressHosts, Activate, Fail, buildVars
<1>2. CASE BuildStep \/ WorkerCrash \/ \E n \in K8sName : DeleteIngress(n)
  BY <1>2 DEF BuildStep, TakeJob, DeployCreate, DeployUpdate, DeployFails,
     WorkerCrash, DeleteIngress, DropJob
<1>3. CASE UNCHANGED vars
  BY <1>3 DEF vars, buildVars
<1>4. CASE \/ \E p \in Project : RemoveDefault(p) \/ CreateJob(p)
           \/ \E p \in Project, n \in Name : AddRow(p, n)
           \/ \E p \in Project, n \in ProjectName : UpdateName(p, n)
           \/ \E i \in Row : RemoveRow(i)
  BY <1>4 DEF RemoveDefault, CreateJob, AddRow, RemoveRow, UpdateName, buildVars
<1>5. QED
  BY <1>1, <1>2, <1>3, <1>4 DEF Next

\* A fetched row has the name its project had at the fetch, and the goroutine
\* takes it from its list as it is.
LEMMA VisitSteps ==
  ASSUME [Next]_vars
  PROVE  /\ \A d \in dlist' :
              d \in dlist \/ (d \in Fetched /\ UNCHANGED apiVars)
         /\ dpc' \notin {"idle", "next"} =>
              \/ dpc \notin {"idle", "next"} /\ UNCHANGED <<dcur, dname>>
              \/ \E d \in dlist : dcur' = d.row /\ dname' = d.name
<1>1. CASE CheckPending \/ VerifyNext
  BY <1>1 DEF CheckPending, VerifyNext
<1>2. CASE Unverified \/ Activate \/ Fail \/ WorkerCrash
  BY <1>2 DEF Unverified, Activate, Fail, Visited, WorkerCrash
<1>3. CASE AddDomain \/ UpdateGet \/ UpdateIngressHosts
  BY <1>3 DEF AddDomain, UpdateGet, UpdateIngressHosts
<1>4. ASSUME UNCHANGED <<dpc, dlist, dcur, dname>>
      PROVE  /\ \A d \in dlist' : d \in dlist
             /\ dpc' \notin {"idle", "next"} =>
                  dpc \notin {"idle", "next"} /\ UNCHANGED <<dcur, dname>>
  BY <1>4
<1>5. CASE BuildStep \/ \E n \in K8sName : DeleteIngress(n)
  BY <1>4, <1>5 DEF BuildStep, TakeJob, DeployCreate, DeployUpdate,
     DeployFails, DeleteIngress, domainVars
<1>6. CASE UNCHANGED vars
  BY <1>4, <1>6 DEF vars, domainVars
<1>7. CASE \/ \E p \in Project : RemoveDefault(p) \/ CreateJob(p)
           \/ \E p \in Project, n \in Name : AddRow(p, n)
           \/ \E p \in Project, n \in ProjectName : UpdateName(p, n)
           \/ \E i \in Row : RemoveRow(i)
  BY <1>4, <1>7
     DEF RemoveDefault, CreateJob, AddRow, RemoveRow, UpdateName, domainVars
<1>8. QED
  BY <1>1, <1>2, <1>3, <1>5, <1>6, <1>7 DEF Next, DomainStep

\* What the goroutine is going to write is what AddDomain has read under the
\* fetched name, and the host of the row.
LEMMA ListSteps ==
  ASSUME [Next]_vars, dpc' \in {"get", "update"}
  PROVE  \/ dpc \in {"get", "update"} /\ UNCHANGED <<dcur, dname, dhosts>>
         \/ /\ dpc = "add" /\ UNCHANGED <<dcur, dname, row>>
            /\ ingress[dname].exists
            /\ dhosts' = ingress[dname].hosts \cup {row[dcur].name}
<1>1. CASE CheckPending \/ VerifyNext
  BY <1>1 DEF CheckPending, VerifyNext
<1>2. CASE Unverified \/ Activate \/ Fail \/ WorkerCrash
  BY <1>2 DEF Unverified, Activate, Fail, Visited, WorkerCrash
<1>3. CASE AddDomain \/ UpdateGet \/ UpdateIngressHosts
  BY <1>3 DEF AddDomain, UpdateGet, UpdateIngressHosts, AfterFailure,
     HostsWith, apiVars, rowVars
<1>4. ASSUME UNCHANGED <<dpc, dcur, dname, dhosts>>
      PROVE  dpc \in {"get", "update"} /\ UNCHANGED <<dcur, dname, dhosts>>
  BY <1>4
<1>5. CASE BuildStep \/ \E n \in K8sName : DeleteIngress(n)
  BY <1>4, <1>5 DEF BuildStep, TakeJob, DeployCreate, DeployUpdate,
     DeployFails, DeleteIngress, domainVars
<1>6. CASE UNCHANGED vars
  BY <1>4, <1>6 DEF vars, domainVars
<1>7. CASE \/ \E p \in Project : RemoveDefault(p) \/ CreateJob(p)
           \/ \E p \in Project, n \in Name : AddRow(p, n)
           \/ \E p \in Project, n \in ProjectName : UpdateName(p, n)
           \/ \E i \in Row : RemoveRow(i)
  BY <1>4, <1>7
     DEF RemoveDefault, CreateJob, AddRow, RemoveRow, UpdateName, domainVars
<1>8. QED
  BY <1>1, <1>2, <1>3, <1>5, <1>6, <1>7 DEF Next, DomainStep

\* An ingress is left alone, deleted, or given one of the two lists under the
\* name that goes with it.
LEMMA IngressSteps ==
  ASSUME Types, [Next]_vars, NEW n \in K8sName
  PROVE  \/ ingress'[n] = ingress[n]
         \/ ingress'[n] = NoIngress
         \/ /\ dpc = "update" /\ n = dname
            /\ ingress'[n] = Rules(Sanitized(dhosts))
         \/ /\ bpc # "idle" /\ n = bjob.name
            /\ ingress'[n] = Rules(bjob.hosts)
<1> USE DEF Put
<1>1. ingress \in [K8sName -> [exists : BOOLEAN, hosts : SUBSET Host]]
  BY DEF Types, TypeOK
<1>2. CASE UpdateIngressHosts
  BY <1>1, <1>2 DEF UpdateIngressHosts
<1>3. CASE DeployCreate \/ DeployUpdate
  BY <1>1, <1>3 DEF DeployCreate, DeployUpdate
<1>4. ASSUME NEW m \in K8sName, DeleteIngress(m)
      PROVE  ingress'[n] = ingress[n] \/ ingress'[n] = NoIngress
  BY <1>1, <1>4 DEF DeleteIngress
<1>5. CASE \/ CheckPending \/ VerifyNext \/ Unverified \/ AddDomain
           \/ UpdateGet \/ Activate \/ Fail \/ TakeJob \/ DeployFails
           \/ WorkerCrash \/ UNCHANGED vars
  BY <1>5 DEF CheckPending, VerifyNext, Unverified, AddDomain, UpdateGet,
     Activate, Fail, TakeJob, DeployFails, WorkerCrash, vars
<1>6. CASE \/ \E p \in Project : RemoveDefault(p) \/ CreateJob(p)
           \/ \E p \in Project, m \in Name : AddRow(p, m)
           \/ \E p \in Project, m \in ProjectName : UpdateName(p, m)
           \/ \E i \in Row : RemoveRow(i)
  BY <1>6 DEF RemoveDefault, CreateJob, AddRow, RemoveRow, UpdateName
<1>7. QED
  BY <1>2, <1>3, <1>4, <1>5, <1>6 DEF Next, DomainStep, BuildStep

-----------------------------------------------------------------------------
(* Names *)

\* Every step keeps HeldInv.
LEMMA HeldStep ==
  ASSUME Types, HeldInv, [Next]_vars
  PROVE  HeldInv'
<1>1. /\ \A p \in Project : held[p] \subseteq held'[p]
      /\ \A i \in 1 .. made : /\ row'[i].project = row[i].project
                              /\ row[i].project \in Project
      /\ \A j \in jobs : j.project \in Project
      /\ bpc # "idle" => bjob.project \in Project
      /\ \A d \in dlist : d.row \in 1 .. made
      /\ dpc \notin {"idle", "next"} => dcur \in 1 .. made
  BY RowsStay, RowsAreTyped, InHand DEF Types, TypeOK, Created, Job
<1>2. ASSUME NEW p \in Project
      PROVE  IngressName(p)' \in held'[p]
  <2>1. CASE UNCHANGED nameVars
    BY <2>1 DEF nameVars, HeldInv, IngressName
  <2>2. ASSUME NEW q \in Project, NEW n \in ProjectName, UpdateName(q, n)
        PROVE  IngressName(p)' \in held'[p]
    <3>1. CASE p = q
      BY <2>2, <3>1 DEF UpdateName, IngressName, Types, TypeOK
    <3>2. CASE p # q
      BY <2>2, <3>2 DEF UpdateName, IngressName, HeldInv, Types, TypeOK
    <3> QED BY <3>1, <3>2
  <2> QED BY <2>1, <2>2, NameSteps
<1>3. ASSUME NEW j \in jobs'
      PROVE  j.name \in held'[j.project]
  <2>1. CASE j \in jobs
    BY <1>1, <2>1 DEF HeldInv
  <2>2. ASSUME NEW p \in Project,
               j = [project |-> p, name |-> IngressName(p),
                    hosts |-> HostsOf(p)]
        PROVE  j.name \in held'[j.project]
    BY <1>1, <2>2 DEF HeldInv
  <2> QED BY <2>1, <2>2, JobSteps
<1>4. ASSUME bpc' # "idle"
      PROVE  bjob'.name \in held'[bjob'.project]
  BY <1>1, <1>4, DeploySteps DEF HeldInv
<1>5. \A d \in dlist : d.name \in held'[row'[d.row].project]
  BY <1>1 DEF HeldInv
<1>6. ASSUME NEW d \in dlist'
      PROVE  d.name \in held'[row'[d.row].project]
  <2>1. CASE d \in Fetched /\ UNCHANGED apiVars
    <3>1. PICK i \in Pending : d = WithName(i)
      BY <2>1 DEF Fetched
    <3>2. i \in 1 .. made
      BY PresentIsCreated DEF Pending
    <3> QED BY <1>1, <3>1, <3>2 DEF HeldInv, WithName
  <2> QED BY <1>5, <1>6, <2>1, VisitSteps
<1>7. ASSUME dpc' \notin {"idle", "next"}
      PROVE  dname' \in held'[row'[dcur'].project]
  <2>1. CASE dpc \notin {"idle", "next"} /\ UNCHANGED <<dcur, dname>>
    BY <1>1, <2>1 DEF HeldInv
  <2> QED BY <1>5, <1>7, <2>1, VisitSteps
<1>8. ASSUME NEW n \in K8sName, ingress'[n].exists
      PROVE  \E p \in Project : n \in held'[p]
  <2>1. CASE ingress'[n] = ingress[n]
    BY <1>1, <1>8, <2>1 DEF HeldInv
  <2>2. ingress'[n] # NoIngress
    BY <1>8 DEF NoIngress
  <2>3. CASE dpc = "update" /\ n = dname
    BY <1>1, <2>3 DEF HeldInv
  <2>4. CASE bpc # "idle" /\ n = bjob.name
    BY <1>1, <2>4 DEF HeldInv
  <2> QED BY <2>1, <2>2, <2>3, <2>4, IngressSteps
<1> QED BY <1>2, <1>3, <1>4, <1>6, <1>7, <1>8 DEF HeldInv

\* Jobs, fetched rows and ingresses bear names of their projects, present or
\* past, however the projects are renamed (projects.service.ts, update).
LEMMA NamesAreHeld == Spec => []HeldInv
<1>1. Init => HeldInv
  BY DEF Init, HeldInv, NoIngress, IngressName
<1>2. Types /\ HeldInv /\ [Next]_vars => HeldInv'
  BY HeldStep
<1> QED BY RoutingTypes, <1>1, <1>2, PTL DEF Spec

-----------------------------------------------------------------------------
(* Routed hosts *)

\* A name is good for all the hosts of a project that has had it.
LEMMA ClaimedIsRoutable ==
  ASSUME NEW p \in Project, NEW n \in K8sName, n \in held[p]
  PROVE  claimed[p] \subseteq routable[n]
BY DEF routable

\* Every step keeps RoutedInv.
LEMMA RoutedStep ==
  ASSUME Types, HeldInv, RoutedInv, [Next]_vars
  PROVE  RoutedInv'
<1>1. /\ \A n \in K8sName : routable[n] \subseteq routable'[n]
      /\ \A j \in jobs : j.name \in K8sName
      /\ bpc # "idle" => bjob.name \in K8sName
      /\ dpc \notin {"idle", "next"} => dname \in K8sName
  BY ClaimedGrows, InHand DEF Types, TypeOK, Created, Job
<1>2. ASSUME NEW n \in K8sName
      PROVE  ingress'[n].hosts \subseteq routable'[n]
  <2>1. CASE ingress'[n] = ingress[n]
    BY <1>1, <2>1 DEF RoutedInv
  <2>2. CASE ingress'[n] = NoIngress
    BY <2>2 DEF NoIngress
  <2>3. CASE /\ dpc = "update" /\ n = dname
             /\ ingress'[n] = Rules(Sanitized(dhosts))
    BY <1>1, <2>3 DEF RoutedInv, Rules, Sanitized
  <2>4. CASE /\ bpc # "idle" /\ n = bjob.name
             /\ ingress'[n] = Rules(bjob.hosts)
    BY <1>1, <2>4 DEF RoutedInv, Rules
  <2> QED BY <2>1, <2>2, <2>3, <2>4, IngressSteps
<1>3. ASSUME NEW j \in jobs'
      PROVE  j.hosts \subseteq routable'[j.name]
  <2>1. CASE j \in jobs
    BY <1>1, <2>1 DEF RoutedInv
  <2>2. ASSUME NEW p \in Project,
               j = [project |-> p, name |-> IngressName(p),
                    hosts |-> HostsOf(p)]
        PROVE  j.hosts \subseteq routable'[j.name]
    <3>1. /\ IngressName(p) \in K8sName /\ IngressName(p) \in held[p]
          /\ j.name = IngressName(p) /\ j.hosts = HostsOf(p)
      BY <2>2, NamesAreTyped DEF HeldInv
    <3> QED BY <1>1, <3>1, HostsOfAreClaimed, ClaimedIsRoutable
  <2> QED BY <2>1, <2>2, JobSteps
<1>4. ASSUME bpc' # "idle"
      PROVE  bjob'.hosts \subseteq routable'[bjob'.name]
  BY <1>1, <1>4, DeploySteps DEF RoutedInv
<1>5. ASSUME dpc' \in {"get", "update"}, NEW h \in dhosts'
      PROVE  hostOf[h] \in routable'[dname']
  <2>1. CASE dpc \in {"get", "update"} /\ UNCHANGED <<dcur, dname, dhosts>>
    BY <1>1, <1>5, <2>1 DEF RoutedInv
  <2>2. CASE /\ dpc = "add" /\ UNCHANGED <<dcur, dname, row>>
             /\ dhosts' = ingress[dname].hosts \cup {row[dcur].name}
    <3>1. /\ dname \in K8sName /\ dcur \in 1 .. made
          /\ row[dcur].project \in Project
      BY <2>2, InHand
    <3>2. CASE h \in ingress[dname].hosts
      <4>1. hostOf[h] = h
        BY <3>1, <3>2, RoutingAssumption DEF Types, TypeOK
      <4> QED BY <1>1, <2>2, <3>1, <3>2, <4>1 DEF RoutedInv
    <3>3. CASE h = row[dcur].name
      <4>1. hostOf[h] \in claimed[row[dcur].project]
        BY <3>1, <3>3, RowIsClaimed
      <4>2. dname \in held[row[dcur].project]
        BY <2>2 DEF HeldInv
      <4> QED BY <1>1, <2>2, <3>1, <4>1, <4>2, ClaimedIsRoutable
    <3> QED BY <1>5, <2>2, <3>2, <3>3
  <2> QED BY <1>5, <2>1, <2>2, ListSteps
<1> QED BY <1>2, <1>3, <1>4, <1>5 DEF RoutedInv

\* Whatever users add, remove and rename, builds deploy or fail with, teardowns
\* delete and the goroutine reads, writes or loses: an ingress has hosts of
\* projects that have had its name only (ingress.go, domains.go).
THEOREM HostsStayInTheirProject == Spec => []RoutedForItsProject
<1>1. Init => RoutedInv
  BY DEF Init, RoutedInv, NoIngress
<1>2. Types /\ HeldInv /\ RoutedInv /\ [Next]_vars => RoutedInv'
  BY RoutedStep
<1>3. ASSUME Types, RoutedInv
      PROVE  RoutedForItsProject
  <2>1. \A p \in Project : claimed[p] \subseteq Claimed(p)
    <3>1. \A i \in 1 .. made : i \in Row
      BY <1>3, RowsAreTyped
    <3> QED BY <3>1 DEF claimed, Claimed
  <2> QED BY <1>3, <2>1 DEF RoutedInv, routable, RoutedForItsProject
<1> QED BY RoutingTypes, NamesAreHeld, <1>1, <1>2, <1>3, PTL DEF Spec

-----------------------------------------------------------------------------
(* The generated host *)

\* A name that is one project's alone was so before, once a project has had it.
LEMMA OnlyStays ==
  ASSUME Types, [Next]_vars, NEW p \in Project, NEW n \in K8sName,
         NEW q \in Project, n \in held[q], Only(p, n)'
  PROVE  q = p /\ Only(p, n)
BY RowsStay DEF Only

\* Every step keeps DefaultInv.
LEMMA DefaultStep ==
  ASSUME Types, HeldInv, DefaultInv, [Next]_vars
  PROVE  DefaultInv'
<1>1. /\ kept' \subseteq kept /\ kept \subseteq Project
      /\ \A j \in jobs : j.name \in K8sName /\ j.project \in Project
      /\ bpc # "idle" => bjob.name \in K8sName /\ bjob.project \in Project
      /\ dpc \notin {"idle", "next"} =>
           dname \in K8sName /\ row[dcur].project \in Project
  BY RowsStay, InHand DEF Types, TypeOK, Created, Job
<1>2. ASSUME NEW p \in kept', NEW n \in K8sName, Only(p, n)',
             ingress'[n].exists
      PROVE  defaultHost[p] \in ingress'[n].hosts
  <2>0. p \in kept /\ p \in Project
    BY <1>1, <1>2
  <2>1. CASE ingress'[n] = ingress[n]
    <3>1. PICK q \in Project : n \in held[q]
      BY <1>2, <2>1 DEF HeldInv
    <3>2. Only(p, n)
      BY <1>2, <2>0, <3>1, OnlyStays
    <3> QED BY <1>2, <2>0, <2>1, <3>2 DEF DefaultInv
  <2>2. ingress'[n] # NoIngress
    BY <1>2 DEF NoIngress
  <2>3. CASE /\ dpc = "update" /\ n = dname
             /\ ingress'[n] = Rules(Sanitized(dhosts))
    <3>1. row[dcur].project \in Project /\ n \in held[row[dcur].project]
      BY <1>1, <2>3 DEF HeldInv
    <3>2. Only(p, dname)
      BY <1>2, <2>0, <2>3, <3>1, OnlyStays
    <3>3. defaultHost[p] \in dhosts /\ hostOf[defaultHost[p]] = defaultHost[p]
      BY <2>0, <2>3, <3>2, RoutingAssumption DEF DefaultInv
    <3> QED BY <2>3, <3>3 DEF Rules, Sanitized
  <2>4. CASE /\ bpc # "idle" /\ n = bjob.name
             /\ ingress'[n] = Rules(bjob.hosts)
    <3>1. bjob.project \in Project /\ n \in held[bjob.project]
      BY <1>1, <2>4 DEF HeldInv
    <3>2. bjob.project = p
      BY <1>2, <2>0, <3>1, OnlyStays
    <3> QED BY <2>0, <2>4, <3>2 DEF DefaultInv, Rules
  <2> QED BY <2>1, <2>2, <2>3, <2>4, IngressSteps
<1>3. ASSUME NEW j \in jobs', j.project \in kept'
      PROVE  defaultHost[j.project] \in j.hosts
  <2>1. CASE j \in jobs
    BY <1>1, <1>3, <2>1 DEF DefaultInv
  <2>2. ASSUME NEW p \in Project,
               j = [project |-> p, name |-> IngressName(p),
                    hosts |-> HostsOf(p)]
        PROVE  defaultHost[j.project] \in j.hosts
    <3>1. p \in kept /\ j.project = p /\ j.hosts = HostsOf(p)
      BY <1>1, <1>3, <2>2
    <3> QED BY <3>1 DEF HostsOf
  <2> QED BY <2>1, <2>2, JobSteps
<1>4. ASSUME bpc' # "idle", bjob'.project \in kept'
      PROVE  defaultHost[bjob'.project] \in bjob'.hosts
  BY <1>1, <1>4, DeploySteps DEF DefaultInv
<1>5. ASSUME dpc' \in {"get", "update"}, NEW p \in kept', Only(p, dname)'
      PROVE  defaultHost[p] \in dhosts'
  <2>1. /\ dpc \notin {"idle", "next"} /\ dname' = dname
        /\ p \in kept /\ p \in Project
    BY <1>1, <1>5, ListSteps
  <2>2. dname \in held[row[dcur].project] /\ row[dcur].project \in Project
    BY <1>1, <2>1 DEF HeldInv
  <2>3. Only(p, dname)
    BY <1>1, <1>5, <2>1, <2>2, RowsStay DEF Only
  <2>4. CASE dpc \in {"get", "update"} /\ UNCHANGED <<dcur, dname, dhosts>>
    BY <2>1, <2>3, <2>4 DEF DefaultInv
  <2>5. CASE /\ ingress[dname].exists
             /\ dhosts' = ingress[dname].hosts \cup {row[dcur].name}
    BY <1>1, <2>1, <2>3, <2>5 DEF DefaultInv
  <2> QED BY <1>5, <2>4, <2>5, ListSteps
<1> QED BY <1>2, <1>3, <1>4, <1>5 DEF DefaultInv

\* While a project's generated row exists, the ingresses that only ever had its
\* names route the generated host, whichever of Deploy's old list and
\* AddDomain's old list is written last, under an old name or the new one, and
\* after whatever failure (ingress.go, domains.go, deploy.go).
THEOREM GeneratedHostStaysRouted == Spec => []DefaultHostStays
<1>1. Init => DefaultInv
  BY DEF Init, DefaultInv, NoIngress
<1>2. Types /\ HeldInv /\ DefaultInv /\ [Next]_vars => DefaultInv'
  BY DefaultStep
<1>3. DefaultInv => DefaultHostStays
  BY DEF DefaultInv, DefaultHostStays, Only
<1> QED BY RoutingTypes, NamesAreHeld, <1>1, <1>2, <1>3, PTL DEF Spec

-----------------------------------------------------------------------------
(* Activation *)

\* Every step keeps FreshInv.
LEMMA FreshStep ==
  ASSUME Types, FreshInv, [Next]_vars
  PROVE  FreshInv'
<1> DEFINE Listed == dpc \in {"get", "update"} => row[dcur].name \in dhosts
           There == dpc \in {"update", "activate"} /\ dfresh
                      => ingress[dname].exists
           Has == dpc = "activate" /\ dfresh
                    => hostOf[row[dcur].name] \in ingress[dname].hosts
           Absent == bpc = "create" => ~ ingress[bjob.name].exists
<1>1. \A i \in 1 .. made : /\ row'[i].name = row[i].name
                           /\ row'[i].project = row[i].project
  BY RowsStay
<1>2. /\ dpc \notin {"idle", "next"} => /\ dcur \in 1 .. made
                                        /\ dname \in K8sName
      /\ bpc # "idle" => bjob.name \in K8sName
  BY InHand DEF Types, Created, Job
<1>3. ASSUME dpc' \in {"idle", "next", "unverified", "add", "fail"}
      PROVE  Listed' /\ There' /\ Has'
  BY <1>3
<1>4. ASSUME UNCHANGED <<dpc, dcur, dhosts>>
      PROVE  Listed'
  BY <1>1, <1>2, <1>4 DEF FreshInv
<1>5. ASSUME UNCHANGED <<dpc, dcur, dname>>, dfresh' => dfresh,
             dpc # "idle" /\ dpc # "next" /\ dfresh'
               => ingress'[dname] = ingress[dname]
      PROVE  There' /\ Has'
  BY <1>1, <1>2, <1>5 DEF FreshInv
<1>6. ASSUME UNCHANGED <<bpc, bjob>>,
             bpc = "create" /\ ingress'[bjob.name].exists
               => ingress[bjob.name].exists
      PROVE  Absent'
  BY <1>6 DEF FreshInv
<1>7. ASSUME bpc' = "idle"
      PROVE  Absent'
  BY <1>7
<1>8. CASE \/ \E p \in Project, n \in Name : AddRow(p, n)
           \/ \E i \in Row : RemoveRow(i)
           \/ \E p \in Project : RemoveDefault(p) \/ CreateJob(p)
           \/ \E p \in Project, n \in ProjectName : UpdateName(p, n)
           \/ UNCHANGED vars
  <2>1. UNCHANGED <<ingress, domainVars, buildVars>>
    BY <1>8 DEF AddRow, RemoveRow, RemoveDefault, CreateJob, UpdateName, vars
  <2>2. Listed' /\ There' /\ Has' /\ Absent'
    BY <1>4, <1>5, <1>6, <2>1 DEF domainVars, buildVars
  <2>3. QED
    BY <2>2 DEF FreshInv
<1>9. CASE CheckPending \/ VerifyNext \/ Unverified \/ Activate \/ Fail
  <2>1. /\ dpc' \in {"idle", "next", "unverified", "add", "fail"}
        /\ UNCHANGED <<ingress, bpc, bjob>>
    BY <1>9 DEF CheckPending, VerifyNext, Unverified, Activate, Fail, Visited,
       buildVars
  <2>2. Listed' /\ There' /\ Has' /\ Absent'
    BY <1>3, <1>6, <2>1
  <2>3. QED
    BY <2>2 DEF FreshInv
<1>10. CASE AddDomain
  <2>1. UNCHANGED <<ingress, bpc, bjob, row, dcur, dname>>
    BY <1>10 DEF AddDomain, apiVars, rowVars, buildVars
  <2>2. dcur \in 1 .. made /\ dname \in K8sName
    BY <1>2, <1>10 DEF AddDomain
  <2>3. \A h \in ingress[dname].hosts : hostOf[h] = h
    BY <2>2, RoutingAssumption DEF Types, TypeOK
  <2>4. \/ dpc' = "fail"
        \/ /\ dpc' = "activate" /\ ingress[dname].exists
           /\ row[dcur].name \in ingress[dname].hosts
        \/ /\ dpc' = "get" /\ row[dcur].name \in dhosts'
    BY <1>10 DEF AddDomain, HostsWith
  <2>5. Listed' /\ There' /\ Has'
    BY <2>1, <2>2, <2>3, <2>4
  <2>6. Absent'
    BY <1>6, <2>1
  <2>7. QED
    BY <2>5, <2>6 DEF FreshInv
<1>11. CASE UpdateGet
  <2>1. /\ dpc = "get"
        /\ UNCHANGED <<ingress, bpc, bjob, row, dcur, dname, dhosts>>
        /\ \/ dpc' = "fail"
           \/ dpc' = "update" /\ ingress[dname].exists
    BY <1>11 DEF UpdateGet, apiVars, rowVars, buildVars
  <2>2. Listed' /\ There' /\ Has'
    BY <1>2, <2>1 DEF FreshInv
  <2>3. Absent'
    BY <1>6, <2>1
  <2>4. QED
    BY <2>2, <2>3 DEF FreshInv
<1>12. CASE UpdateIngressHosts
  <2>1. /\ dpc = "update"
        /\ UNCHANGED <<bpc, bjob, row, dcur, dname, dhosts, dfresh>>
        /\ dpc' \in {"activate", "fail"}
    BY <1>12 DEF UpdateIngressHosts, AfterFailure, apiVars, rowVars
  <2>2. CASE dpc' = "fail"
    <3>1. Listed' /\ There' /\ Has'
      BY <1>3, <2>2
    <3>2. Absent'
      <4>1. ASSUME NEW n \in K8sName, ingress'[n].exists
            PROVE  ingress[n].exists
        <5>1. CASE ingress' = ingress
          BY <4>1, <5>1
        <5>2. CASE dfresh /\ Put(dname, Rules(Sanitized(dhosts)))
          <6>1. ingress[dname].exists
            BY <1>2, <2>1, <5>2 DEF FreshInv
          <6>2. n # dname => ingress'[n] = ingress[n]
            BY <5>2 DEF Put, Types, TypeOK
          <6>3. QED
            BY <4>1, <6>1, <6>2
        <5>3. QED
          BY <1>12, <5>1, <5>2 DEF UpdateIngressHosts
      <4>2. QED
        BY <1>2, <1>6, <2>1, <4>1
    <3>3. QED
      BY <3>1, <3>2 DEF FreshInv
  <2>3. CASE dpc' = "activate"
    <3>1. /\ dfresh /\ dname \in K8sName
          /\ ingress' = [ingress EXCEPT ![dname] = Rules(Sanitized(dhosts))]
      BY <1>2, <1>12, <2>1, <2>3 DEF UpdateIngressHosts, AfterFailure, Put
    <3>2. /\ ingress'[dname].exists
          /\ ingress'[dname].hosts = Sanitized(dhosts)
          /\ \A n \in K8sName \ {dname} : ingress'[n] = ingress[n]
      BY <3>1 DEF Rules, Types, TypeOK
    <3>3. hostOf[row[dcur].name] \in Sanitized(dhosts)
      BY <2>1 DEF FreshInv, Sanitized
    <3>4. Listed' /\ There' /\ Has'
      BY <2>1, <2>3, <3>1, <3>2, <3>3
    <3>5. ingress[dname].exists
      BY <2>1, <3>1 DEF FreshInv
    <3>6. Absent'
      BY <1>2, <1>6, <2>1, <3>2, <3>5
    <3>7. QED
      BY <3>4, <3>6 DEF FreshInv
  <2>4. QED
    BY <2>1, <2>2, <2>3
<1>13. CASE TakeJob
  <2>1. UNCHANGED <<ingress, domainVars>>
    BY <1>13 DEF TakeJob
  <2>2. Listed' /\ There' /\ Has'
    BY <1>4, <1>5, <2>1 DEF domainVars
  <2>3. Absent'
    BY <1>13 DEF TakeJob
  <2>4. QED
    BY <2>2, <2>3 DEF FreshInv
<1>14. CASE DeployCreate
  <2>1. /\ bpc = "create" /\ bpc' = "idle" /\ UNCHANGED domainVars
        /\ ingress' = [ingress EXCEPT ![bjob.name] = Rules(bjob.hosts)]
    BY <1>14 DEF DeployCreate, DropJob, Put
  <2>2. ~ ingress[bjob.name].exists
    BY <2>1 DEF FreshInv
  <2>3. \A n \in K8sName \ {bjob.name} : ingress'[n] = ingress[n]
    BY <2>1 DEF Types, TypeOK
  <2>4. ingress'[bjob.name].exists
    BY <1>2, <2>1 DEF Rules, Types, TypeOK
  <2>5. Has'
    <3>1. SUFFICES ASSUME dpc = "activate", dfresh
                   PROVE  hostOf[row[dcur].name]
                            \in ingress'[dname].hosts
      BY <1>1, <1>2, <2>1 DEF domainVars
    <3>2. dname # bjob.name
      BY <2>2, <3>1 DEF FreshInv
    <3>3. QED
      BY <1>2, <2>3, <3>1, <3>2 DEF FreshInv
  <2>6. There'
    BY <1>1, <1>2, <2>1, <2>3, <2>4 DEF FreshInv, domainVars
  <2>7. Listed' /\ Absent'
    BY <1>4, <2>1 DEF domainVars
  <2>8. QED
    BY <2>5, <2>6, <2>7 DEF FreshInv
<1>15. CASE DeployUpdate \/ \E n \in K8sName : DeleteIngress(n)
  <2>1. PICK n \in K8sName :
          /\ \A m \in K8sName \ {n} : ingress'[m] = ingress[m]
          /\ dfresh' = (dfresh /\ dname # n)
          /\ UNCHANGED <<dpc, dcur, dname, dhosts>>
          /\ bpc' = "idle" \/ /\ UNCHANGED <<bpc, bjob>>
                              /\ ~ ingress'[n].exists
    <3>1. CASE DeployUpdate
      <4>1. bjob.name \in K8sName
        BY <1>2, <3>1 DEF DeployUpdate
      <4>2. \A m \in K8sName \ {bjob.name} : ingress'[m] = ingress[m]
        BY <3>1 DEF DeployUpdate, Put, Types, TypeOK
      <4>3. QED
        BY <3>1, <4>1, <4>2 DEF DeployUpdate, DropJob, DomainStale
    <3>2. ASSUME NEW n \in K8sName, DeleteIngress(n)
          PROVE  /\ \A m \in K8sName \ {n} : ingress'[m] = ingress[m]
                 /\ dfresh' = (dfresh /\ dname # n)
                 /\ UNCHANGED <<dpc, dcur, dname, dhosts, bpc, bjob>>
                 /\ ~ ingress'[n].exists
      BY <3>2 DEF DeleteIngress, DomainStale, NoIngress, Types, TypeOK
    <3>3. QED
      BY <1>15, <3>1, <3>2
  <2>2. There' /\ Has'
    BY <1>2, <1>5, <2>1
  <2>3. Listed'
    BY <1>4, <2>1
  <2>4. Absent'
    <3>1. CASE bpc' = "idle"
      BY <1>7, <3>1
    <3>2. CASE UNCHANGED <<bpc, bjob>> /\ ~ ingress'[n].exists
      BY <1>2, <1>6, <2>1, <3>2
    <3>3. QED
      BY <2>1, <3>1, <3>2
  <2>5. QED
    BY <2>2, <2>3, <2>4 DEF FreshInv
<1>16. CASE DeployFails
  <2>1. UNCHANGED <<ingress, domainVars>> /\ bpc' = "idle"
    BY <1>16 DEF DeployFails, DropJob
  <2>2. Listed' /\ There' /\ Has' /\ Absent'
    BY <1>4, <1>5, <1>7, <2>1 DEF domainVars
  <2>3. QED
    BY <2>2 DEF FreshInv
<1>17. CASE WorkerCrash
  <2>1. dpc' = "idle" /\ bpc' = "idle"
    BY <1>17 DEF WorkerCrash, DropJob
  <2>2. QED
    BY <2>1 DEF FreshInv
<1>18. QED
  BY <1>8, <1>9, <1>10, <1>11, <1>12, <1>13, <1>14, <1>15, <1>16, <1>17
     DEF Next, DomainStep, BuildStep

\* Only Activate makes a row ACTIVE, and only the row in hand.
LEMMA OnlyActivate ==
  ASSUME Types, [Next]_vars, NEW i \in Row,
         row[i].status # "ACTIVE", row'[i].status = "ACTIVE"
  PROVE  dpc = "activate" /\ i = dcur
<1>1. CASE UNCHANGED row
  BY <1>1
<1>2. ASSUME NEW p \in Project, NEW n \in Name, AddRow(p, n)
      PROVE  FALSE
  <2>1. row' = [row EXCEPT ![made + 1] =
                  [name |-> n, project |-> p, status |-> "PENDING"]]
    BY <1>2 DEF AddRow
  <2>2. QED
    BY <2>1 DEF Types, TypeOK
<1>3. ASSUME NEW j \in Row, RemoveRow(j)
      PROVE  FALSE
  <2>1. row' = [row EXCEPT ![j].status = "GONE"] /\ Present(j)
    BY <1>3 DEF RemoveRow
  <2>2. row[j] \in [name : Name, project : Project,
                    status : {"PENDING", "ACTIVE", "ERROR", "GONE"}]
    BY <2>1, PresentIsCreated, RowsAreTyped DEF Present
  <2>3. row'[j] = [row[j] EXCEPT !.status = "GONE"]
        /\ \A k \in Row \ {j} : row'[k] = row[k]
    BY <2>1 DEF Types, TypeOK
  <2>4. row'[j].status = "GONE"
    BY <2>2, <2>3
  <2>5. QED
    BY <2>3, <2>4
<1>4. ASSUME NEW s \in {"PENDING", "ACTIVE", "ERROR"}, StatusCall(dcur, s),
             dpc \notin {"idle", "next"}
      PROVE  i = dcur /\ s = "ACTIVE"
  <2>1. row' = [row EXCEPT ![dcur].status = s]
    BY <1>4 DEF StatusCall
  <2>2. /\ dcur \in Row
        /\ row[dcur] \in [name : Name, project : Project,
                          status : {"PENDING", "ACTIVE", "ERROR", "GONE"}]
    BY <1>4, InHand, RowsAreTyped
  <2>3. row'[dcur] = [row[dcur] EXCEPT !.status = s]
        /\ \A k \in Row \ {dcur} : row'[k] = row[k]
    BY <2>1, <2>2 DEF Types, TypeOK
  <2>4. row'[dcur].status = s
    BY <2>2, <2>3
  <2>5. QED
    BY <2>3, <2>4
<1>5. CASE Unverified \/ Fail
  BY <1>4, <1>5 DEF Unverified, Fail
<1>6. CASE Activate
  BY <1>4, <1>6 DEF Activate
<1>7. CASE \/ CheckPending \/ VerifyNext \/ AddDomain \/ UpdateGet
           \/ UpdateIngressHosts \/ BuildStep \/ WorkerCrash \/ UNCHANGED vars
           \/ \E p \in Project : RemoveDefault(p) \/ CreateJob(p)
           \/ \E p \in Project, n \in ProjectName : UpdateName(p, n)
           \/ \E n \in K8sName : DeleteIngress(n)
  BY <1>1, <1>7 DEF CheckPending, VerifyNext, AddDomain, UpdateGet,
     UpdateIngressHosts, BuildStep, TakeJob, DeployCreate, DeployUpdate,
     DeployFails, WorkerCrash, RemoveDefault, CreateJob, UpdateName,
     DeleteIngress, apiVars, rowVars, vars
<1>8. QED
  BY <1>2, <1>3, <1>5, <1>6, <1>7 DEF Next, DomainStep

\* A row becomes ACTIVE with its host in the rules of an ingress its project has
\* had, if that is still the one the goroutine has read or written (domains.go,
\* verifyAndActivate).
THEOREM ActiveIsRouted == Spec => ActivatedIsRouted
<1>1. Init => FreshInv
  BY DEF Init, FreshInv
<1>2. Types /\ FreshInv /\ [Next]_vars => FreshInv'
  BY FreshStep
<1>3. Types /\ HeldInv /\ FreshInv /\ [Next]_vars
        => [\A i \in Row :
              row[i].status # "ACTIVE" /\ row'[i].status = "ACTIVE" /\ dfresh
                => \E n \in held[row[i].project] :
                     hostOf[row[i].name] \in ingress[n].hosts]_vars
  BY OnlyActivate DEF FreshInv, HeldInv
<1>4. QED
  BY RoutingTypes, NamesAreHeld, <1>1, <1>2, <1>3, PTL
     DEF Spec, ActivatedIsRouted

-----------------------------------------------------------------------------
(* A row in the goroutine's hands is resolved, under fairness.  That a step *)
(* of the goroutine is ENABLED is beyond the provers, and a premise.        *)

\* The goroutine has seen row i's DNS records and is at place n of its visit
\* or farther.
VisitPlace == [add |-> 0, get |-> 1, update |-> 2, activate |-> 3, fail |-> 3]
Routing(i, n) ==
  /\ dcur = i /\ dpc \in {"add", "get", "update", "activate", "fail"}
  /\ VisitPlace[dpc] >= n
Resolved(i) == row[i].status # "PENDING"

\* What the provers cannot derive, for it is about ENABLED: with a row in hand
\* the goroutine can take a step.
VisitIsNeverStuck == dcur # NoRow => ENABLED <<DomainStep>>_vars

\* A step of the goroutine brings the visit farther, or resolves the row.
LEMMA VisitGoesOn ==
  ASSUME "call" \notin Faults, Types, NEW i \in Row, NEW n \in 0 .. 3,
         NEW m \in 1 .. 4, m = n + 1, Routing(i, n), DomainStep
  PROVE  Routing(i, m)' \/ Resolved(i)'
<1> USE DEF Routing, VisitPlace
<1>1. i \in 1 .. made /\ i # NoRow
  BY InHand, RowsAreTyped
<1>2. /\ row[i] \in [name : Name, project : Project,
                     status : {"PENDING", "ACTIVE", "ERROR", "GONE"}]
      /\ row \in [Row -> [name : Name, project : Project,
                      status : {"PENDING", "ACTIVE", "ERROR", "GONE"}]
                     \cup {NoRecord}]
  BY <1>1, RowsAreTyped DEF Types, TypeOK
<1>3. CASE AddDomain
  BY <1>3 DEF AddDomain
<1>4. CASE UpdateGet
  BY <1>4 DEF UpdateGet
<1>5. CASE UpdateIngressHosts
  BY <1>5 DEF UpdateIngressHosts, AfterFailure
<1>6. ASSUME NEW s \in {"ACTIVE", "ERROR"}, StatusCall(i, s)
      PROVE  Resolved(i)'
  <2>1. CASE Present(i)
    BY <1>2, <1>6, <2>1 DEF StatusCall, Resolved
  <2>2. CASE ~ Present(i)
    BY <1>2, <1>6, <2>2 DEF StatusCall, Resolved, Present
  <2> QED BY <2>1, <2>2
<1>7. CASE Activate \/ Fail
  BY <1>6, <1>7 DEF Activate, Fail
<1>8. ~ CheckPending /\ ~ VerifyNext /\ ~ Unverified
  BY DEF CheckPending, VerifyNext, Unverified
<1> QED BY <1>3, <1>4, <1>5, <1>7, <1>8 DEF DomainStep

\* Nothing else takes a row out of the goroutine's hands or makes a settled
\* one pending, but for the end of the worker.
LEMMA VisitIsAlone ==
  ASSUME "crash" \notin Faults, Types, NEW i \in Row, NEW n \in 0 .. 3,
         Routing(i, n), [Next]_vars, ~ DomainStep
  PROVE  Routing(i, n)'
<1>1. UNCHANGED <<dpc, dcur>>
  BY DEF Next, AddRow, RemoveRow, RemoveDefault, CreateJob, UpdateName,
     DeleteIngress, BuildStep, TakeJob, DeployCreate, DeployUpdate,
     DeployFails, WorkerCrash, domainVars, vars
<1> QED BY <1>1 DEF Routing

VisitLeaves(i, n, m) ==
  FairSpec /\ []VisitIsNeverStuck
    => (Routing(i, n) ~> Routing(i, m) \/ Resolved(i))

LEMMA VisitComesOn ==
  ASSUME {"call", "crash"} \cap Faults = {}, NEW i \in Row, NEW n \in 0 .. 3,
         NEW m \in 1 .. 4, m = n + 1
  PROVE  VisitLeaves(i, n, m)
<1>1. Types /\ Routing(i, n) /\ [Next]_vars
        => Routing(i, n)' \/ Routing(i, m)' \/ Resolved(i)'
  BY VisitGoesOn, VisitIsAlone
<1>2. Types /\ Routing(i, n) /\ <<DomainStep>>_vars
        => Routing(i, m)' \/ Resolved(i)'
  BY VisitGoesOn
<1>3. Types /\ VisitIsNeverStuck /\ Routing(i, n)
        => ENABLED <<DomainStep>>_vars
  <2>1. Types /\ Routing(i, n) => dcur # NoRow
    BY InHand, RowsAreTyped DEF Routing
  <2> QED BY <2>1 DEF VisitIsNeverStuck
<1>4. Spec => []Types
  BY RoutingTypes
<1>5. FairSpec => Spec /\ WF_vars(DomainStep)
  BY PTL DEF FairSpec
<1> QED BY <1>1, <1>2, <1>3, <1>4, <1>5, PTL DEF Spec, VisitLeaves

\* A row whose DNS records the goroutine has seen does not stay pending: it
\* becomes ACTIVE or ERROR, or is deleted meanwhile, whatever builds, users
\* and teardowns do to the ingress in between and however often its writes
\* conflict or fail, as long as the calls to the API get through
\* (domain_worker.go:114-160).
THEOREM VisitedIsResolved ==
  ASSUME {"call", "crash"} \cap Faults = {}, NEW i \in Row
  PROVE  FairSpec /\ []VisitIsNeverStuck => (Routing(i, 0) ~> Resolved(i))
<1>1. \A n \in 0 .. 3 : \A m \in 1 .. 4 : m = n + 1 => VisitLeaves(i, n, m)
  BY VisitComesOn
<1>2. /\ VisitLeaves(i, 0, 1) /\ VisitLeaves(i, 1, 2)
      /\ VisitLeaves(i, 2, 3) /\ VisitLeaves(i, 3, 4)
  BY <1>1
<1>3. ~ Routing(i, 4)
  BY DEF Routing, VisitPlace
<1> QED BY <1>2, <1>3, PTL DEF VisitLeaves

-----------------------------------------------------------------------------
(* Startup: what an endpoint stands for, and that the platform comes up.    *)
(* That a step is ENABLED and that the kills end are premises of the latter. *)

Server ==
  [pc : {"off", "booting", "listening", "started"}, misses : 0 .. Threshold,
   ready : BOOLEAN]

\* Only a server that has passed its startup probe has an endpoint.
EndpointIsStarted == server.ready => server.pc = "started"

StartupInv ==
  /\ StartupTypeOK /\ server \in Server
  /\ EndpointIsStarted

LEMMA ServerStepInv ==
  ASSUME StartupInv, ServerStep
  PROVE  server' \in Server /\ EndpointIsStarted'
<1> USE StartupAssumption DEF StartupAssumption, ServerTurns, ServerOff,
        EndpointIsStarted, Server
<1>1. server \in Server /\ (server.ready => server.pc = "started")
  BY DEF StartupInv
<1> DEFINE m == server.misses
<1>2. m \in 0 .. Threshold
  BY <1>1
<1>3. CASE Restarted
  BY <1>1, <1>3 DEF Restarted
<1>4. CASE Bootstrap
  BY <1>1, <1>4 DEF Bootstrap
<1>5. CASE StartupProbe
  <2>1. CASE CheckReadiness
    <3>1. server' = [pc |-> "started", misses |-> 0, ready |-> FALSE]
      BY <1>5, <2>1 DEF StartupProbe
    <3> QED BY <3>1
  <2>2. CASE ~ CheckReadiness /\ m + 1 < Threshold
    <3>1. server' = [server EXCEPT !.misses = m + 1]
      BY <1>5, <2>2 DEF StartupProbe
    <3>2. m + 1 \in 0 .. Threshold
      BY <1>2, <2>2
    <3> HIDE DEF m
    <3> QED BY <1>1, <3>1, <3>2
  <2>3. CASE ~ CheckReadiness /\ ~ (m + 1 < Threshold)
    BY <1>5, <2>3 DEF StartupProbe
  <2> QED BY <2>1, <2>2, <2>3
<1>6. CASE ReadinessProbe
  <2>1. CASE CheckReadiness
    <3>1. server' = [pc |-> "started", misses |-> 0, ready |-> TRUE]
      BY <1>1, <1>6, <2>1 DEF ReadinessProbe
    <3> QED BY <3>1
  <2>2. CASE ~ CheckReadiness
    <3> DEFINE miss == IF m < Threshold THEN m + 1 ELSE m
               still == server.ready /\ m + 1 < Threshold
    <3>1. server' = [server EXCEPT !.misses = miss, !.ready = still]
      BY <1>6, <2>2 DEF ReadinessProbe
    <3>2. miss \in 0 .. Threshold
      BY <1>2
    <3>3. still \in BOOLEAN /\ (still => server.ready)
      OBVIOUS
    <3> HIDE DEF miss, still
    <3> QED BY <1>1, <3>1, <3>2, <3>3
  <2> QED BY <2>1, <2>2
<1> QED BY <1>3, <1>4, <1>5, <1>6 DEF ServerStep

LEMMA NextStartup == StartupInv /\ [StartupNext]_startupVars => StartupInv'
<1> SUFFICES ASSUME StartupInv, [StartupNext]_startupVars PROVE StartupInv'
  OBVIOUS
<1> USE StartupAssumption DEF StartupAssumption, StartupInv, StartupTypeOK,
        EndpointIsStarted
<1>1. CASE ServerStep
  <2>1. UNCHANGED <<healthy, agent, kills>>
    BY <1>1 DEF ServerStep, Restarted, Bootstrap, StartupProbe, ReadinessProbe,
         ServerTurns
  <2> QED BY <1>1, <2>1, ServerStepInv DEF Server
<1>2. CASE AgentStep
  BY <1>2 DEF AgentStep, LoadAndVerify, NewQueue, HealthCheck,
       NewClientAndStart, AgentTurns
<1>3. ASSUME NEW d \in Dependency, DependencyTurns(d) PROVE StartupInv'
  BY <1>3 DEF DependencyTurns
<1>4. CASE ServerKilled
  BY <1>4 DEF ServerKilled, ServerOff, Server
<1>5. CASE AgentKilled
  BY <1>5 DEF AgentKilled
<1>6. CASE UNCHANGED startupVars
  BY <1>6 DEF startupVars
<1> QED BY <1>1, <1>2, <1>3, <1>4, <1>5, <1>6, Zenon DEF StartupNext

LEMMA StartupInvariant == StartupSpec => []StartupInv
<1>1. StartupInit => StartupInv
  BY StartupAssumption
     DEF StartupAssumption, StartupInit, StartupInv, StartupTypeOK, ServerOff,
         Server, EndpointIsStarted
<1> QED BY <1>1, NextStartup, PTL DEF StartupSpec

Up == IsDatabaseHealthy /\ IsRedisHealthy
Serving == server.ready
Working == agent = "running"

\* How far the API and the worker have come up.
ServerPlace ==
  IF server.ready THEN 4
  ELSE [off |-> 0, booting |-> 1, listening |-> 2, started |-> 3][server.pc]
AgentPlace ==
  [off |-> 0, verified |-> 1, queued |-> 2, checked |-> 3, running |-> 4][agent]

ServerAt(n) == ServerPlace >= n
AgentAt(n) == AgentPlace >= n

\* While the database and Redis are up and nothing is killed, the API only
\* gets farther.
LEMMA ServerRises ==
  ASSUME StartupInv, Up, [StartupNext]_startupVars, [kills' = kills]_startupVars
  PROVE  /\ ServerPlace \in 0 .. 4 /\ ServerPlace' \in 0 .. 4
         /\ ServerPlace' >= ServerPlace
         /\ ServerStep /\ ~ Serving => ServerPlace' > ServerPlace
<1> USE StartupAssumption DEF StartupAssumption, StartupInv, StartupTypeOK,
        EndpointIsStarted, Up, IsDatabaseHealthy, IsRedisHealthy, Serving, ServerPlace
<1>0. StartupInv'
  BY NextStartup
<1>1. CASE ServerStep
  <2> USE <1>1 DEF ServerTurns, ServerOff
  <2>1. CASE Restarted
    BY <2>1 DEF Restarted
  <2>2. CASE Bootstrap
    BY <2>2 DEF Bootstrap
  <2>3. CASE StartupProbe
    BY <2>3 DEF StartupProbe, CheckReadiness
  <2>4. CASE ReadinessProbe
    BY <2>4 DEF ReadinessProbe, CheckReadiness
  <2> QED BY <2>1, <2>2, <2>3, <2>4 DEF ServerStep
<1>2. CASE server' = server /\ ~ ServerStep
  BY <1>2
<1>3. ServerKilled \/ AgentKilled => FALSE
  BY DEF ServerKilled, AgentKilled, startupVars
<1>4. AgentStep => server' = server
  BY DEF AgentStep, LoadAndVerify, NewQueue, HealthCheck, NewClientAndStart,
       AgentTurns
<1>5. (\E d \in Dependency : DependencyTurns(d)) => server' = server
  BY DEF DependencyTurns
<1>6. UNCHANGED startupVars => server' = server
  BY DEF startupVars
<1> QED BY <1>1, <1>2, <1>3, <1>4, <1>5, <1>6, Zenon DEF StartupNext

\* And then the worker does, which asks nothing else of them.
LEMMA AgentRises ==
  ASSUME StartupInv, Up, Serving, [StartupNext]_startupVars,
         [kills' = kills]_startupVars
  PROVE  /\ AgentPlace \in 0 .. 4 /\ AgentPlace' \in 0 .. 4
         /\ AgentPlace' >= AgentPlace
         /\ AgentStep /\ ~ Working => AgentPlace' > AgentPlace
<1> USE StartupAssumption DEF StartupAssumption, StartupInv, StartupTypeOK,
        EndpointIsStarted, Up, IsDatabaseHealthy, IsRedisHealthy, Serving, Working, AgentPlace
<1>0. StartupInv'
  BY NextStartup
<1>1. CASE AgentStep
  <2>1. Health
    BY DEF Health, GetFullHealth, CriticalServices, Dependency
  <2> QED
    BY <1>1, <2>1 DEF AgentStep, LoadAndVerify, NewQueue, HealthCheck,
         NewClientAndStart, AgentTurns
<1>2. CASE agent' = agent /\ ~ AgentStep
  BY <1>2
<1>3. ServerKilled \/ AgentKilled => FALSE
  BY DEF ServerKilled, AgentKilled, startupVars
<1>4. ServerStep => agent' = agent
  BY DEF ServerStep, Restarted, Bootstrap, StartupProbe, ReadinessProbe,
       ServerTurns
<1>5. (\E d \in Dependency : DependencyTurns(d)) => agent' = agent
  BY DEF DependencyTurns
<1>6. UNCHANGED startupVars => agent' = agent
  BY DEF startupVars
<1> QED BY <1>1, <1>2, <1>3, <1>4, <1>5, <1>6, Zenon DEF StartupNext

\* What the provers cannot derive, for it is about ENABLED: neither process is
\* without a next step before it is up.
NobodyStuck ==
  /\ Up /\ ~ Serving => ENABLED <<ServerStep>>_startupVars
  /\ Serving /\ Up /\ ~ Working => ENABLED <<AgentStep>>_startupVars

\* From some time on nothing is killed any more.  MaxKill bounds the kills;
\* that they end some day would take counting them.
KillsEnd == <>[][kills' = kills]_startupVars

ServerComes(n, m) ==
  StartupSpec /\ []NobodyStuck /\ KillsEnd /\ <>[]Up
    => (<>[]ServerAt(n) => <>[]ServerAt(m))

LEMMA ServerGoesOn ==
  ASSUME NEW n \in 0 .. 3, NEW m \in 1 .. 4, m = n + 1
  PROVE  ServerComes(n, m)
<1>1. StartupInv /\ Up /\ [StartupNext]_startupVars
        /\ [kills' = kills]_startupVars /\ ServerAt(m) => ServerAt(m)'
  BY ServerRises DEF ServerAt
<1>2. StartupInv /\ Up /\ [StartupNext]_startupVars
        /\ [kills' = kills]_startupVars /\ <<ServerStep>>_startupVars
        /\ ServerAt(n) => ServerAt(m)'
  <2>1. Serving => ServerPlace = 4
    BY DEF Serving, ServerPlace
  <2> QED BY <2>1, ServerRises DEF ServerAt
<1>3. NobodyStuck /\ Up /\ ~ ServerAt(m) => ENABLED <<ServerStep>>_startupVars
  BY DEF NobodyStuck, ServerAt, Serving, ServerPlace
<1>4. StartupSpec => []StartupInv
  BY StartupInvariant
<1>5. StartupSpec => [][StartupNext]_startupVars /\ WF_startupVars(ServerStep)
  BY PTL DEF StartupSpec
<1> QED BY <1>1, <1>2, <1>3, <1>4, <1>5, PTL DEF ServerComes, KillsEnd

AgentComes(n, m) ==
  StartupSpec /\ []NobodyStuck /\ KillsEnd /\ <>[]Up /\ <>[]Serving
    => (<>[]AgentAt(n) => <>[]AgentAt(m))

LEMMA AgentGoesOn ==
  ASSUME NEW n \in 0 .. 3, NEW m \in 1 .. 4, m = n + 1
  PROVE  AgentComes(n, m)
<1>1. StartupInv /\ Up /\ Serving /\ [StartupNext]_startupVars
        /\ [kills' = kills]_startupVars /\ AgentAt(m) => AgentAt(m)'
  BY AgentRises DEF AgentAt
<1>2. StartupInv /\ Up /\ Serving /\ [StartupNext]_startupVars
        /\ [kills' = kills]_startupVars /\ <<AgentStep>>_startupVars
        /\ AgentAt(n) => AgentAt(m)'
  <2>1. Working => AgentPlace = 4
    BY DEF Working, AgentPlace
  <2> QED BY <2>1, AgentRises DEF AgentAt
<1>3. NobodyStuck /\ Up /\ Serving /\ ~ AgentAt(m)
        => ENABLED <<AgentStep>>_startupVars
  BY DEF NobodyStuck, AgentAt, Working, AgentPlace
<1>4. StartupSpec => []StartupInv
  BY StartupInvariant
<1>5. StartupSpec => [][StartupNext]_startupVars /\ WF_startupVars(AgentStep)
  BY PTL DEF StartupSpec
<1> QED BY <1>1, <1>2, <1>3, <1>4, <1>5, PTL DEF AgentComes, KillsEnd

\* Once the database and Redis stay up and nothing is killed any more, the API
\* gets its endpoint and then the worker runs, for good: whatever was started
\* or restarted first, whatever the memory check says, for any threshold of
\* the probes (health.service.ts:96-128, worker.go:53-72).
THEOREM PlatformIsUp ==
  StartupSpec /\ []NobodyStuck /\ KillsEnd => PlatformComesUp
<1>1. \A n \in 0 .. 3 : \A m \in 1 .. 4 :
        m = n + 1 => ServerComes(n, m) /\ AgentComes(n, m)
  BY ServerGoesOn, AgentGoesOn
<1>2. /\ ServerComes(0, 1) /\ ServerComes(1, 2)
      /\ ServerComes(2, 3) /\ ServerComes(3, 4)
      /\ AgentComes(0, 1) /\ AgentComes(1, 2)
      /\ AgentComes(2, 3) /\ AgentComes(3, 4)
  BY <1>1
<1>3. StartupInv => ServerAt(0) /\ AgentAt(0)
  BY DEF StartupInv, StartupTypeOK, Server, ServerAt, AgentAt, ServerPlace,
         AgentPlace
<1>4. StartupInv /\ ServerAt(4) => Serving
  BY DEF StartupInv, Server, ServerAt, ServerPlace, Serving
<1>5. StartupInv /\ AgentAt(4) => Working
  BY DEF StartupInv, StartupTypeOK, AgentAt, AgentPlace, Working
<1>6. StartupSpec => []StartupInv
  BY StartupInvariant
<1>7. StartupSpec /\ []NobodyStuck /\ KillsEnd /\ <>[]Up
        => <>[](Serving /\ Working)
  BY <1>2, <1>3, <1>4, <1>5, <1>6, PTL DEF ServerComes, AgentComes
<1> QED BY <1>7, PTL DEF PlatformComesUp, Up, Serving, Working

\* An endpoint is only a server's that has passed its startup probe, however
\* probes, failures and kills follow one another.
THEOREM EndpointStarted == StartupSpec => [](StartupTypeOK /\ EndpointIsStarted)
<1>1. StartupInv => StartupTypeOK /\ EndpointIsStarted
  BY DEF StartupInv
<1> QED BY <1>1, StartupInvariant, PTL
=============================================================================

---------------------------- MODULE DomainRouting ----------------------------
(***************************************************************************)
(* Domains of projects: the rows the API keeps, the worker's verification  *)
(* goroutine (apps/worker/internal/k8s/domain_worker.go, domains.go) and   *)
(* the ingresses, which that goroutine, the build loop's Deploy and every  *)
(* teardown write (ingress.go, deploy.go).                                 *)
(*                                                                         *)
(* An ingress is found by sanitizeK8sName of a project's name.  Names are  *)
(* unique as they are typed, so two projects may share an ingress; and a   *)
(* rename leaves the ingress of the old name behind, while jobs and        *)
(* fetched rows carry the name of the moment they were read.               *)
(*                                                                         *)
(* A step is one call of the API server of Kubernetes, or one request to   *)
(* Code2Cloud's API.  Kubernetes refuses an update whose resourceVersion   *)
(* is not the current one: dfresh and bfresh say of the domain goroutine   *)
(* and of the build loop that nobody has written the ingress in their      *)
(* hands since they have read or written it.                               *)
(*                                                                         *)
(* POST /projects gives every project a row for its generated host.  The   *)
(* name in it has a scheme ("https://..."), which no resolver accepts, so  *)
(* the row stays PENDING and the goroutine's visits to it change nothing:  *)
(* only its presence is kept here (kept), rows are the ones users add.     *)
(***************************************************************************)
EXTENDS Integers, FiniteSets

CONSTANTS
  Project,      \* none is deleted in this module
  ProjectName,  \* names of projects, as users type them
  K8sName,      \* names of ingresses
  k8sNameOf,    \* sanitizeK8sName: in lower case, cut to what a label holds
  Renamable,    \* projects whose users may change the name
  Name,         \* names of domain rows, as users type them
  Host,         \* host names of ingress rules
  hostOf,       \* sanitizeHost: without scheme, in lower case
  defaultHost,  \* the host generated for a project
  Pointed,      \* names whose DNS records point to the cluster
  MaxRename,    \* bound on the changes of names
  MaxRow,       \* bound on the domain rows users ever add
  MaxJob,       \* bound on the build jobs waiting or running
  Faults        \* which faults the environment injects

ASSUME RoutingAssumption ==
  /\ MaxRow \in Nat /\ MaxJob \in Nat /\ MaxRename \in Nat
  /\ k8sNameOf \in [ProjectName -> K8sName]
  /\ hostOf \in [Name \cup Host -> Host] /\ \A h \in Host : hostOf[h] = h
  /\ defaultHost \in [Project -> Host]
  /\ \A p, q \in Project : defaultHost[p] = defaultHost[q] => p = q
  /\ Pointed \subseteq Name
  /\ Faults \subseteq {"call", "k8s", "dns", "crash"}

Row == 1 .. MaxRow
NoRow == 0
NoName == "none"
NoIngress == [exists |-> FALSE, hosts |-> {}]
Rules(H) == [exists |-> TRUE, hosts |-> H]

VARIABLES
  projectName,  \* table Project: the name
  renames,      \* the changes of names so far
  held,         \* history: the ingress names each project has had
  made,      \* rows 1..made have been created, in the order of createdAt
  row,       \* table Domain: name, projectId, status ("GONE" when deleted)
  kept,      \* projects whose generated row is still there
  ingress,   \* the Ingress object of each name
  jobs,      \* build jobs waiting, with the name and the hosts they have read
  dpc, dlist, dcur, dname, dhosts, dfresh,  \* the verification goroutine
  bpc, bjob, bfresh                  \* the build loop, inside Deploy

nameVars == <<projectName, renames, held>>
rowVars == <<made, row, kept>>
apiVars == <<nameVars, rowVars>>
domainVars == <<dpc, dlist, dcur, dname, dhosts, dfresh>>
buildVars == <<bpc, bjob, bfresh>>
vars == <<apiVars, ingress, jobs, domainVars, buildVars>>

NoRecord == [name |-> "none", project |-> "none", status |-> "NONE"]
NoJob == [project |-> "none", name |-> NoName, hosts |-> {}]
Job == [project : Project, name : K8sName, hosts : SUBSET Host]

\* A row as getPendingDomains returns it, with the name of its project.
PendingDomain == [row : Row, name : K8sName]

TypeOK ==
  /\ projectName \in [Project -> ProjectName] /\ renames \in 0 .. MaxRename
  /\ held \in [Project -> SUBSET K8sName]
  /\ made \in 0 .. MaxRow
  /\ row \in [Row -> [name : Name, project : Project,
                      status : {"PENDING", "ACTIVE", "ERROR", "GONE"}]
                     \cup {NoRecord}]
  /\ kept \subseteq Project
  /\ ingress \in [K8sName -> [exists : BOOLEAN, hosts : SUBSET Host]]
  /\ jobs \subseteq Job
  /\ dpc \in {"idle", "next", "unverified", "add", "get", "update",
              "activate", "fail"}
  /\ dlist \subseteq PendingDomain
  /\ dcur \in Row \cup {NoRow} /\ dname \in K8sName \cup {NoName}
  /\ dhosts \subseteq Name \cup Host /\ dfresh \in BOOLEAN
  /\ bpc \in {"idle", "create", "update"}
  /\ bjob \in Job \cup {NoJob} /\ bfresh \in BOOLEAN

Init ==
  /\ projectName \in [Project -> ProjectName] /\ renames = 0
  /\ \A p, q \in Project : projectName[p] = projectName[q] => p = q
  /\ held = [p \in Project |-> {k8sNameOf[projectName[p]]}]
  /\ made = 0 /\ row = [i \in Row |-> NoRecord] /\ kept = Project
  /\ ingress = [n \in K8sName |-> NoIngress]
  /\ jobs = {}
  /\ dpc = "idle" /\ dlist = {} /\ dcur = NoRow /\ dname = NoName
  /\ dhosts = {} /\ dfresh = FALSE
  /\ bpc = "idle" /\ bjob = NoJob /\ bfresh = FALSE

-----------------------------------------------------------------------------
(* State formulae *)

Present(i) == row[i].status \notin {"NONE", "GONE"}
Pending    == {i \in Row : row[i].status = "PENDING"}

\* Mutant of HostsOf: the rows are not selected by their project.
HostsOfAll(p) == {hostOf[row[i].name] : i \in {j \in Row : Present(j)}}
                   \cup {defaultHost[q] : q \in kept}

\* The hosts of a project's rows, verified or not.
HostsOf(p) ==
  {hostOf[row[i].name] : i \in {j \in Row : Present(j) /\ row[j].project = p}}
    \cup {defaultHost[q] : q \in kept \cap {p}}

\* The name of the ingress of a project, at this moment.
IngressName(p) == k8sNameOf[projectName[p]]

-----------------------------------------------------------------------------
(* API *)

\* PATCH /projects/:id: the name is unique as it was typed.  No other row and
\* no object of the cluster follows.
UpdateName(p, n) ==
  /\ p \in Renamable /\ renames < MaxRename
  /\ \A q \in Project : projectName[q] # n
  /\ projectName' = [projectName EXCEPT ![p] = n]
  /\ renames' = renames + 1
  /\ held' = [held EXCEPT ![p] = @ \cup {k8sNameOf[n]}]
  /\ UNCHANGED <<rowVars, ingress, jobs, domainVars, buildVars>>

\* POST /projects/:id/domains: the name is unique as it was typed.
AddRow(p, n) ==
  /\ made < MaxRow
  /\ \A i \in Row : Present(i) => row[i].name # n
  /\ made' = made + 1
  /\ row' = [row EXCEPT ![made + 1] =
               [name |-> n, project |-> p, status |-> "PENDING"]]
  /\ UNCHANGED <<nameVars, kept, ingress, jobs, domainVars, buildVars>>

\* DELETE /projects/:id/domains/:id deletes the row and nothing else.
RemoveRow(i) ==
  /\ Present(i)
  /\ row' = [row EXCEPT ![i].status = "GONE"]
  /\ UNCHANGED <<nameVars, made, kept, ingress, jobs, domainVars, buildVars>>

RemoveDefault(p) ==
  /\ p \in kept
  /\ kept' = kept \ {p}
  /\ UNCHANGED <<nameVars, made, row, ingress, jobs, domainVars, buildVars>>

\* A deployment is created, its job with the name and the hosts of this moment,
\* in the form the ingress and its rules will have.
CreateJob(p) ==
  /\ Cardinality(jobs) + (IF bpc = "idle" THEN 0 ELSE 1) < MaxJob
  /\ jobs' = jobs \cup
       {[project |-> p, name |-> IngressName(p), hosts |-> HostsOf(p)]}
  /\ UNCHANGED <<apiVars, ingress, domainVars, buildVars>>

\* PATCH /internal/domains/:id/status, NotFound once the row is deleted; the
\* goroutine only logs an error.
StatusCall(i, s) ==
  \/ row' = IF Present(i) THEN [row EXCEPT ![i].status = s] ELSE row
  \/ "call" \in Faults /\ UNCHANGED row

-----------------------------------------------------------------------------
(* Kubernetes: writes of an ingress *)

\* After a write of ingress n what others have read of it is out of date.
DomainStale(n) == dfresh' = (dfresh /\ dname # n)
BuildStale(n)  == bfresh' = (bfresh /\ bjob.name # n)

\* buildIngressRules: sanitizeHost on every host.
Sanitized(H) == {hostOf[n] : n \in H}

Put(n, ing) == ingress' = [ingress EXCEPT ![n] = ing]

\* The goroutine is done with a row.
Visited ==
  /\ dpc' = "next" /\ dcur' = NoRow /\ dname' = NoName
  /\ dhosts' = {} /\ dfresh' = FALSE

K8sFails == "k8s" \in Faults

-----------------------------------------------------------------------------
(* Worker: the verification goroutine *)

WithName(i) == [row |-> i, name |-> IngressName(row[i].project)]

\* Mutant of Fetched: only the newest pending row is returned.
NewestPending ==
  {WithName(i) : i \in {k \in Pending : \A j \in Pending : j <= k}}

\* getPendingDomains.
Fetched == {WithName(i) : i \in Pending}

CheckPending ==
  /\ dpc = "idle"
  /\ Fetched # {}
  /\ dlist' = Fetched
  /\ dpc' = "next"
  /\ UNCHANGED <<apiVars, ingress, jobs, dcur, dname, dhosts, dfresh,
                 buildVars>>

\* The loop of checkPendingDomains, oldest row first; verifyAndActivate asks
\* the DNS before anything else.
VerifyNext ==
  /\ dpc = "next"
  /\ \/ dlist = {} /\ dpc' = "idle" /\ UNCHANGED <<dlist, dcur, dname>>
     \/ \E d \in dlist :
          /\ \A e \in dlist : d.row <= e.row
          /\ dcur' = d.row /\ dname' = d.name /\ dlist' = dlist \ {d}
          /\ \/ row[d.row].name \in Pointed /\ dpc' = "add"
             \/ /\ row[d.row].name \notin Pointed \/ "dns" \in Faults
                /\ dpc' = "unverified"
  /\ UNCHANGED <<apiVars, ingress, jobs, dhosts, dfresh, buildVars>>

Unverified ==
  /\ dpc = "unverified"
  /\ StatusCall(dcur, "PENDING")
  /\ Visited
  /\ UNCHANGED <<nameVars, made, kept, ingress, jobs, dlist, buildVars>>

\* Mutant of HostsWith: the rules the ingress has are forgotten.
HostsAlone(H, n) == {n}

\* The hosts AddDomain asks for: the ones it has read, and the new one.
HostsWith(H, n) == H \cup {n}

\* AddDomain's own Get, by the fetched name; nothing to do when the rule is
\* there already.  It compares the domain as typed with the rules.
AddDomain ==
  /\ dpc = "add"
  /\ \/ /\ K8sFails \/ ~ ingress[dname].exists
        /\ dpc' = "fail" /\ UNCHANGED <<dhosts, dfresh>>
     \/ /\ ingress[dname].exists
        /\ row[dcur].name \in ingress[dname].hosts
        /\ dpc' = "activate" /\ dfresh' = TRUE /\ UNCHANGED dhosts
     \/ /\ ingress[dname].exists
        /\ row[dcur].name \notin ingress[dname].hosts
        /\ dpc' = "get" /\ UNCHANGED dfresh
        /\ dhosts' = HostsWith(ingress[dname].hosts, row[dcur].name)
  /\ UNCHANGED <<apiVars, ingress, jobs, dlist, dcur, dname, buildVars>>

\* UpdateIngressHosts reads the ingress a second time, for its version.
UpdateGet ==
  /\ dpc = "get"
  /\ \/ ingress[dname].exists /\ dpc' = "update" /\ dfresh' = TRUE
     \/ /\ K8sFails \/ ~ ingress[dname].exists
        /\ dpc' = "fail" /\ UNCHANGED dfresh
  /\ UNCHANGED <<apiVars, ingress, jobs, dlist, dcur, dname, dhosts, buildVars>>

\* Mutant of AfterFailure: the error of AddDomain is dropped.
ActivateAnyway == "activate"

\* Where a failed write of the ingress leads.
AfterFailure == "fail"

\* UpdateIngressHosts writes the hosts of the first read.
UpdateIngressHosts ==
  /\ dpc = "update"
  /\ \/ /\ dfresh
        /\ Put(dname, Rules(Sanitized(dhosts)))
        /\ BuildStale(dname)
        /\ \/ dpc' = "activate"
           \/ K8sFails /\ dpc' = AfterFailure
     \/ /\ ~ dfresh \/ K8sFails
        /\ dpc' = AfterFailure
        /\ UNCHANGED <<ingress, bfresh>>
  /\ UNCHANGED <<apiVars, jobs, dlist, dcur, dname, dhosts, dfresh, bpc, bjob>>

Activate ==
  /\ dpc = "activate"
  /\ StatusCall(dcur, "ACTIVE")
  /\ Visited
  /\ UNCHANGED <<nameVars, made, kept, ingress, jobs, dlist, buildVars>>

\* "DNS verified but failed to configure routing. Will retry."
Fail ==
  /\ dpc = "fail"
  /\ StatusCall(dcur, "ERROR")
  /\ Visited
  /\ UNCHANGED <<nameVars, made, kept, ingress, jobs, dlist, buildVars>>

-----------------------------------------------------------------------------
(* Worker: CreateOrUpdateIngress of the build loop's Deploy *)

\* However long the job has waited and been built: Deploy has come to the
\* ingress and looks whether it is there.
TakeJob ==
  /\ bpc = "idle"
  /\ \E j \in jobs :
       /\ bjob' = j /\ jobs' = jobs \ {j}
       /\ bfresh' = ingress[j.name].exists
       /\ bpc' = IF ingress[j.name].exists THEN "update" ELSE "create"
  /\ UNCHANGED <<apiVars, ingress, domainVars>>

DropJob == bpc' = "idle" /\ bjob' = NoJob /\ bfresh' = FALSE

\* Kubernetes refuses an ingress without rules.
DeployCreate ==
  /\ bpc = "create"
  /\ bjob.hosts # {}
  /\ Put(bjob.name, Rules(bjob.hosts))
  /\ DropJob
  /\ UNCHANGED <<apiVars, jobs, domainVars>>

\* The rules of the job replace the ones the ingress has.
DeployUpdate ==
  /\ bpc = "update"
  /\ bfresh /\ bjob.hosts # {}
  /\ Put(bjob.name, Rules(bjob.hosts))
  /\ DomainStale(bjob.name)
  /\ DropJob
  /\ UNCHANGED <<apiVars, jobs, dpc, dlist, dcur, dname, dhosts>>

\* A step before the ingress, or the ingress, fails: so does the deployment.
DeployFails ==
  /\ \/ bpc # "idle" /\ K8sFails
     \/ bpc # "idle" /\ bjob.hosts = {}
     \/ bpc = "update" /\ ~ bfresh
  /\ DropJob
  /\ UNCHANGED <<apiVars, ingress, jobs, domainVars>>

-----------------------------------------------------------------------------
(* Teardowns (expiry, cancellation, project cleanup) and crashes *)

\* By the name a job or an expired deployment carries, whoever has it now.
DeleteIngress(n) ==
  /\ ingress[n].exists
  /\ ingress' = [ingress EXCEPT ![n] = NoIngress]
  /\ DomainStale(n) /\ BuildStale(n)
  /\ UNCHANGED <<apiVars, jobs, dpc, dlist, dcur, dname, dhosts, bpc, bjob>>

WorkerCrash ==
  /\ "crash" \in Faults
  /\ dpc # "idle" \/ bpc # "idle"
  /\ dpc' = "idle" /\ dlist' = {} /\ dcur' = NoRow /\ dname' = NoName
  /\ dhosts' = {} /\ dfresh' = FALSE
  /\ DropJob
  /\ UNCHANGED <<apiVars, ingress, jobs>>

-----------------------------------------------------------------------------
(* Specification *)

DomainStep ==
  \/ CheckPending \/ VerifyNext \/ Unverified \/ AddDomain
  \/ UpdateGet \/ UpdateIngressHosts \/ Activate \/ Fail

BuildStep ==
  TakeJob \/ DeployCreate \/ DeployUpdate \/ DeployFails

Next ==
  \/ \E p \in Project : RemoveDefault(p) \/ CreateJob(p)
  \/ \E p \in Project, n \in ProjectName : UpdateName(p, n)
  \/ \E n \in K8sName : DeleteIngress(n)
  \/ \E p \in Project, n \in Name : AddRow(p, n)
  \/ \E i \in Row : RemoveRow(i)
  \/ DomainStep
  \/ BuildStep
  \/ WorkerCrash

Spec == Init /\ [][Next]_vars

\* The goroutine is woken by a ticker and each of its calls has a timeout.
FairSpec == Spec /\ WF_vars(DomainStep)

-----------------------------------------------------------------------------
(* Properties *)

\* The hosts a project has ever had a row for.
Claimed(p) ==
  {hostOf[row[i].name] : i \in {j \in Row : row[j].project = p}}
    \cup {defaultHost[p]}

\* An ingress only ever has hosts of projects that have had its name: the
\* goroutine keeps one list of hosts for every row it handles, jobs and
\* fetched rows are older than the tables, and names change hands.
RoutedForItsProject ==
  \A n \in K8sName :
    ingress[n].hosts \subseteq
      UNION {Claimed(p) : p \in {q \in Project : n \in held[q]}}

\* A row becomes ACTIVE only when its host is routed, by an ingress of a name
\* its project has had: if nobody has written that ingress since the
\* goroutine's own read or write, the rule is there, whatever failed,
\* conflicted or was renamed before.
ActivatedIsRouted ==
  [][\A i \in Row :
       row[i].status # "ACTIVE" /\ row'[i].status = "ACTIVE" /\ dfresh
         => \E n \in held[row[i].project] :
              hostOf[row[i].name] \in ingress[n].hosts]_vars

\* While its row exists, the generated host of a project stays routed in every
\* ingress whose name no other project has had: Deploy replaces the rules by
\* an old list, AddDomain writes back a list it read two calls ago, and none
\* of these lists lacks it.  A namesake's deployment does take it away.
DefaultHostStays ==
  \A p \in kept, n \in K8sName :
    /\ \A q \in Project : n \in held[q] <=> q = p
    /\ ingress[n].exists
    => defaultHost[p] \in ingress[n].hosts

\* A pending row whose DNS records are right does not wait for ever, although
\* rows come and go, and the ingress is written and deleted by others all the
\* time.
PendingIsResolved ==
  \A i \in Row :
    row[i].status = "PENDING" /\ row[i].name \in Pointed
      ~> row[i].status # "PENDING"

\* What domain_worker.go:149 writes into the row and does not hold: "DNS
\* verified but failed to configure routing. Will retry."
ErrorIsRetried ==
  \A i \in Row : row[i].status = "ERROR" ~> row[i].status # "ERROR"

=============================================================================

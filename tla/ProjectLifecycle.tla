-------------------------- MODULE ProjectLifecycle --------------------------
(***************************************************************************)
(* Projects from POST to DELETE: apps/api/src/projects/projects.service.ts *)
(* pushes the first build job inside its transaction, and removes a        *)
(* project by signalling its builds, pushing a cleanup job and deleting    *)
(* the rows.  Users deploy again and cancel, pushes replace what runs.     *)
(* The worker's build loop creates the project's objects one by one        *)
(* (deploy.go); three of its steps delete them one by one: the teardown of *)
(* a cancelled build (worker.go), the expiry goroutine (cleanup.go), and   *)
(* the project-cleanup goroutine (project_cleanup.go).                     *)
(*                                                                         *)
(* Every object carries the id of its project in the label                 *)
(* code2cloud/project-id and is found by the project's name only.  The     *)
(* module leaves out what DeployPipeline has: the status of the project,   *)
(* isSuccess, the streams, and the phases between BUILDING and DEPLOYING,  *)
(* which are one step here.                                                *)
(***************************************************************************)
EXTENDS Integers, Sequences, FiniteSets

CONSTANTS
  Project,      \* ids of projects
  Request,      \* bound: requests about deployments in flight at a time
  Name,         \* names users give them; unique among existing projects
  K8sName,      \* names of Kubernetes objects
  k8sNameOf,    \* sanitizeK8sName
  NoProject,
  MaxDep,       \* bound on the deployment rows ever created
  MaxCleanup,   \* bound on removals in flight and cleanup jobs waiting
  Renamable,    \* bound: projects that users rename, once each
  Removable,    \* bound: projects that users remove
  NumKind,      \* kinds of objects of a project (five in the code)
  Faults        \* which faults the environment injects

ASSUME LifecycleAssumption ==
  /\ MaxDep \in Nat /\ MaxCleanup \in Nat /\ NumKind \in Nat \ {0}
  /\ Renamable \subseteq Project /\ Removable \subseteq Project
  /\ k8sNameOf \in [Name -> K8sName]
  /\ NoProject \notin Project
  /\ Faults \subseteq {"call", "k8s", "redis", "api", "rollback", "crash"}

Dep  == 1 .. MaxDep
NoDep == 0
Kind == 1 .. NumKind  \* in the order Deploy creates them

VARIABLES
  phase,     \* of a project's row: "none", "open" (uncommitted), "live",
             \* "gone", "aborted" (rolled back)
  name,      \* Project.name
  made,      \* deployment rows 1..made have been written, in this order
  status,    \* Deployment.status
  project,   \* Deployment.projectId
  jobName,   \* projectName in the job of a deployment
  previous,  \* previousDeploymentId in it
  queue,     \* Redis list build-queue
  signal,    \* Redis keys cancel:<id>
  cleanups,  \* Redis list project-cleanup
  removal,   \* DELETE /projects/:id in flight
  request,   \* POST /deployments, /deployments/:id/cancel and pushes in flight
  wpc, wjob, wkind, wsaw,  \* the build loop
  cpc, cjob, ckind,        \* the project-cleanup goroutine
  epc, elist, ecur, ekind, \* the expiry goroutine
  object,    \* [K8sName -> [Kind -> id in the label, if it exists]]
  held,      \* history: Kubernetes names a project has carried
  removing,  \* history: projects whose removal has begun
  dropped,   \* history: deployments whose job ended before their row showed,
             \* was never pushed, or was hit by a fault
  torn,      \* history: deployments that lost an object to a cancelled build
             \* or an expiry of their own project while it served them
  excused    \* history: projects at a point where objects can be left behind

rowVars == <<phase, name, made, status, project, jobName, previous>>
redisVars == <<queue, signal, cleanups>>
buildVars == <<wpc, wjob, wkind, wsaw>>
cleanupVars == <<cpc, cjob, ckind>>
expiryVars == <<epc, elist, ecur, ekind>>
workerVars == <<buildVars, cleanupVars, expiryVars>>
ghostVars == <<held, removing, dropped, torn, excused>>
vars == <<rowVars, redisVars, removal, request, workerVars, object, ghostVars>>

InProgress == {"QUEUED", "BUILDING", "DEPLOYING"}

\* Mutant of Active: deployments that are live need no cleanup.
ActiveInProgress == InProgress

\* The statuses remove() asks for.
Active == InProgress \cup {"READY"}

NoName == "none"
NoRemoval == [pc |-> "idle", todo |-> {}, list |-> {}, name |-> NoName]
NoCleanup == [project |-> NoProject, name |-> NoName]
CleanupJob == [project : Project, name : Name]
NoRequest == [pc |-> "idle", project |-> NoProject, dep |-> NoDep,
              previous |-> NoDep, name |-> NoName]
RequestPc == {"idle", "row", "enqueue", "signal", "overwrite", "cancel",
              "publish"}
NoExpiry == [dep |-> NoDep, name |-> NoName]
ExpiryJob == [dep : Dep, name : Name]

TypeOK ==
  /\ phase \in [Project -> {"none", "open", "live", "gone", "aborted"}]
  /\ name \in [Project -> Name \cup {NoName}]
  /\ made \in 0 .. MaxDep
  /\ status \in [Dep -> InProgress \cup {"NONE", "READY", "FAILED", "CANCELED",
                                       "SUPERSEDED", "EXPIRED"}]
  /\ project \in [Dep -> Project \cup {NoProject}]
  /\ jobName \in [Dep -> Name \cup {NoName}]
  /\ previous \in [Dep -> Dep \cup {NoDep}]
  /\ queue \in Seq(Dep) /\ signal \subseteq Dep /\ cleanups \in Seq(CleanupJob)
  /\ removal \in [Project -> [pc : {"idle", "signal", "push", "delete"},
                              todo : SUBSET Dep, list : SUBSET Dep,
                              name : Name \cup {NoName}]]
  /\ request \in [Request -> [pc : RequestPc, project : Project \cup {NoProject},
                              dep : Dep \cup {NoDep},
                              previous : Dep \cup {NoDep},
                              name : Name \cup {NoName}]]
  /\ wpc \in {"idle", "check", "building", "phases", "deploying", "get", "put",
              "ready", "supersede", "fail", "cancelled", "tear", "clear"}
  /\ wjob \in Dep \cup {NoDep} /\ wkind \in 0 .. NumKind + 1 /\ wsaw \in BOOLEAN
  /\ cpc \in {"idle", "delete"} /\ cjob \in CleanupJob \cup {NoCleanup}
  /\ ckind \in 0 .. NumKind /\ (cpc = "delete" => ckind \in Kind)
  /\ epc \in {"idle", "delete", "mark"} /\ elist \subseteq ExpiryJob
  /\ ecur \in ExpiryJob \cup {NoExpiry} /\ ekind \in 0 .. NumKind
  /\ object \in [K8sName -> [Kind -> Project \cup {NoProject}]]
  /\ held \in [Project -> SUBSET K8sName]
  /\ removing \subseteq Project /\ dropped \subseteq Dep /\ torn \subseteq Dep
  /\ excused \subseteq Project

Init ==
  /\ phase = [p \in Project |-> "none"] /\ name = [p \in Project |-> NoName]
  /\ made = 0 /\ status = [d \in Dep |-> "NONE"]
  /\ project = [d \in Dep |-> NoProject] /\ jobName = [d \in Dep |-> NoName]
  /\ previous = [d \in Dep |-> NoDep]
  /\ queue = <<>> /\ signal = {} /\ cleanups = <<>>
  /\ removal = [p \in Project |-> NoRemoval]
  /\ request = [r \in Request |-> NoRequest]
  /\ wpc = "idle" /\ wjob = NoDep /\ wkind = 0 /\ wsaw = FALSE
  /\ cpc = "idle" /\ cjob = NoCleanup /\ ckind = 0
  /\ epc = "idle" /\ elist = {} /\ ecur = NoExpiry /\ ekind = 0
  /\ object = [n \in K8sName |-> [k \in Kind |-> NoProject]]
  /\ held = [p \in Project |-> {}]
  /\ removing = {} /\ dropped = {} /\ torn = {} /\ excused = {}

-----------------------------------------------------------------------------
(* State formulae *)

\* Mutant of Visible: a row is there as soon as its job is.
VisibleEarly(d) ==
  d # NoDep /\ project[d] # NoProject /\ phase[project[d]] \in {"open", "live"}

\* What the worker's calls find: committed, and not deleted with its project.
Visible(d) ==
  d # NoDep /\ project[d] # NoProject /\ phase[project[d]] = "live"

RowsOf(p, S) == {d \in Dep : project[d] = p /\ status[d] \in S}

\* orderBy startedAt desc, take 1: rows are numbered in the order of creation.
Newest(S, d) == d \in S /\ \A e \in S : e <= d
Taken(n)     == \E q \in Project : phase[q] \in {"open", "live"} /\ name[q] = n
Owned(p)     == {x \in K8sName \X Kind : object[x[1]][x[2]] = p}

-----------------------------------------------------------------------------
(* API *)

\* The row of a new deployment; what its job will carry was read before.
AddRow(p, n, prev) ==
  /\ made < MaxDep
  /\ made' = made + 1
  /\ status' = [status EXCEPT ![made + 1] = "QUEUED"]
  /\ project' = [project EXCEPT ![made + 1] = p]
  /\ jobName' = [jobName EXCEPT ![made + 1] = n]
  /\ previous' = [previous EXCEPT ![made + 1] = prev]

\* POST /projects: the transaction with the push at its end.  The database
\* refuses a name that another row has, committed or not.
CreateProject(p, n) ==
  /\ phase[p] = "none" /\ ~ Taken(n)
  /\ AddRow(p, n, NoDep)
  /\ queue' = Append(queue, made + 1)
  /\ phase' = [phase EXCEPT ![p] = "open"]
  /\ name' = [name EXCEPT ![p] = n]
  /\ held' = [held EXCEPT ![p] = {k8sNameOf[n]}]
  /\ UNCHANGED <<signal, cleanups, removal, request, workerVars, object,
                 removing, dropped, torn, excused>>

EndTransaction(p) ==
  /\ phase[p] = "open"
  /\ \/ phase' = [phase EXCEPT ![p] = "live"]
     \/ "rollback" \in Faults /\ phase' = [phase EXCEPT ![p] = "aborted"]
  /\ UNCHANGED <<name, made, status, project, jobName, previous, redisVars,
                 removal, request, workerVars, object, ghostVars>>

\* PATCH /projects/:id may change the name; nothing else follows it.
UpdateName(p, n) ==
  /\ phase[p] = "live" /\ ~ Taken(n)
  /\ p \in Renamable /\ held[p] = {k8sNameOf[name[p]]}
  /\ name' = [name EXCEPT ![p] = n]
  /\ held' = [held EXCEPT ![p] = @ \cup {k8sNameOf[n]}]
  /\ excused' = excused \cup {p}
  /\ UNCHANGED <<phase, made, status, project, jobName, previous, redisVars,
                 removal, request, workerVars, object, removing, dropped,
                 torn>>

\* DELETE /projects/:id reads the project with its active deployments.  With
\* none of them it will push no cleanup job.
RemoveRead(p) ==
  LET list == RowsOf(p, Active)
      todo == RowsOf(p, Active \cap InProgress)
  IN  /\ p \in Removable
      /\ Len(cleanups) + Cardinality({q \in Project : removal[q].pc # "idle"})
           < MaxCleanup
      /\ phase[p] = "live" /\ removal[p].pc = "idle"
      /\ removal' = [removal EXCEPT ![p] =
           [pc |-> IF todo # {} THEN "signal"
                   ELSE IF list # {} THEN "push" ELSE "delete",
            todo |-> todo, list |-> list, name |-> name[p]]]
      /\ removing' = removing \cup {p}
      /\ excused' = IF Owned(p) # {} /\ RowsOf(p, InProgress \cup {"READY"}) = {}
                    THEN excused \cup {p} ELSE excused
      /\ UNCHANGED <<rowVars, redisVars, request, workerVars, object, held,
                     dropped, torn>>

\* publishCancelSignal, one build after the other; its error ends the request.
RemoveSignal(p) ==
  /\ removal[p].pc = "signal"
  /\ \/ \E d \in removal[p].todo :
          /\ signal' = signal \cup {d}
          /\ removal' = [removal EXCEPT
               ![p].todo = @ \ {d},
               ![p].pc = IF removal[p].todo = {d} THEN "push" ELSE "signal"]
     \/ /\ "redis" \in Faults
        /\ removal' = [removal EXCEPT ![p] = NoRemoval]
        /\ UNCHANGED signal
  /\ UNCHANGED <<rowVars, queue, cleanups, request, workerVars, object,
                 ghostVars>>

\* addProjectCleanupJob swallows its error.
RemovePush(p) ==
  /\ removal[p].pc = "push"
  /\ removal' = [removal EXCEPT ![p].pc = "delete"]
  /\ \/ /\ cleanups' = Append(cleanups,
                              [project |-> p, name |-> removal[p].name])
        /\ UNCHANGED excused
     \/ /\ "redis" \in Faults
        /\ excused' = excused \cup {p}
        /\ UNCHANGED cleanups
  /\ UNCHANGED <<rowVars, queue, signal, request, workerVars, object, held,
                 removing, dropped, torn>>

\* The rows of deployments and domains go with the project's.
RemoveDelete(p) ==
  /\ removal[p].pc = "delete"
  /\ phase' = [phase EXCEPT ![p] = "gone"]
  /\ removal' = [removal EXCEPT ![p] = NoRemoval]
  /\ UNCHANGED <<name, made, status, project, jobName, previous, redisVars,
                 request, workerVars, object, ghostVars>>

\* The API process dies, or the database refuses the delete.
RemovalDies(p) ==
  /\ "api" \in Faults
  /\ removal[p].pc # "idle"
  /\ removal' = [removal EXCEPT ![p] = NoRemoval]
  /\ UNCHANGED <<rowVars, redisVars, request, workerVars, object, ghostVars>>

-----------------------------------------------------------------------------
(* API: requests about deployments.  What a request reads of its project at  *)
(* its start, the name among it, is what its job carries at the end.         *)

Proceed(r, pc, p, d, prev, n) ==
  request' = [request EXCEPT ![r] =
    [pc |-> pc, project |-> p, dep |-> d, previous |-> prev, name |-> n]]

End(r) == request' = [request EXCEPT ![r] = NoRequest]

\* POST /deployments: the newest row of the project is not in progress.
RedeployRead(r, p) ==
  /\ request[r].pc = "idle" /\ phase[p] = "live"
  /\ \A d \in Dep :
       Newest({e \in Dep : project[e] = p}, d) => status[d] \notin InProgress
  /\ Proceed(r, "row", p, NoDep, NoDep, name[p])
  /\ UNCHANGED <<rowVars, redisVars, removal, workerVars, object, ghostVars>>

\* A push reads the newest row that is in progress or live.
PushRead(r, p) ==
  LET rows == RowsOf(p, InProgress \cup {"READY"})
  IN  /\ request[r].pc = "idle" /\ phase[p] = "live"
      /\ \/ rows = {} /\ Proceed(r, "row", p, NoDep, NoDep, name[p])
         \/ \E d \in rows :
              /\ Newest(rows, d)
              /\ IF status[d] = "READY"
                 THEN Proceed(r, "row", p, NoDep, d, name[p])
                 ELSE Proceed(r, "signal", p, d, NoDep, name[p])
      /\ UNCHANGED <<rowVars, redisVars, removal, workerVars, object, ghostVars>>

PushSignal(r) ==
  /\ request[r].pc = "signal"
  /\ signal' = signal \cup {request[r].dep}
  /\ Proceed(r, "overwrite", request[r].project, request[r].dep, NoDep,
             request[r].name)
  /\ UNCHANGED <<rowVars, queue, cleanups, removal, workerVars, object,
                 ghostVars>>

\* CANCELED, whatever the row is by now; without a row the update throws.
PushOverwrite(r) ==
  /\ request[r].pc = "overwrite"
  /\ \/ /\ Visible(request[r].dep)
        /\ status' = [status EXCEPT ![request[r].dep] = "CANCELED"]
        /\ Proceed(r, "row", request[r].project, NoDep, NoDep, request[r].name)
     \/ ~ Visible(request[r].dep) /\ End(r) /\ UNCHANGED status
  /\ UNCHANGED <<phase, name, made, project, jobName, previous, redisVars,
                 removal, workerVars, object, ghostVars>>

\* The row refers to its project: without one the insert throws.
CreateRow(r) ==
  /\ request[r].pc = "row"
  /\ \/ /\ phase[request[r].project] = "live"
        /\ AddRow(request[r].project, request[r].name, request[r].previous)
        /\ Proceed(r, "enqueue", request[r].project, made + 1, NoDep,
                   request[r].name)
     \/ /\ phase[request[r].project] # "live" /\ End(r)
        /\ UNCHANGED <<made, status, project, jobName, previous>>
  /\ UNCHANGED <<phase, name, redisVars, removal, workerVars, object, ghostVars>>

\* addBuildJob: RPUSH.
AddBuildJob(r) ==
  /\ request[r].pc = "enqueue"
  /\ queue' = Append(queue, request[r].dep)
  /\ End(r)
  /\ UNCHANGED <<rowVars, signal, cleanups, removal, workerVars, object,
                 ghostVars>>

\* POST /deployments/:id/cancel: the status first, then the signal.
CancelRead(r, d) ==
  /\ request[r].pc = "idle"
  /\ Visible(d) /\ status[d] \in InProgress
  /\ Proceed(r, "cancel", project[d], d, NoDep, name[project[d]])
  /\ UNCHANGED <<rowVars, redisVars, removal, workerVars, object, ghostVars>>

CancelWrite(r) ==
  /\ request[r].pc = "cancel"
  /\ \/ /\ Visible(request[r].dep)
        /\ status' = [status EXCEPT ![request[r].dep] = "CANCELED"]
        /\ Proceed(r, "publish", request[r].project, request[r].dep, NoDep,
                   request[r].name)
     \/ ~ Visible(request[r].dep) /\ End(r) /\ UNCHANGED status
  /\ UNCHANGED <<phase, name, made, project, jobName, previous, redisVars,
                 removal, workerVars, object, ghostVars>>

CancelPublish(r) ==
  /\ request[r].pc = "publish"
  /\ signal' = signal \cup {request[r].dep}
  /\ End(r)
  /\ UNCHANGED <<rowVars, queue, cleanups, removal, workerVars, object,
                 ghostVars>>

\* The API process dies, or Redis does not answer.  A row whose job was not
\* pushed stays QUEUED.
RequestDies(r) ==
  /\ \/ "api" \in Faults /\ request[r].pc # "idle"
     \/ "redis" \in Faults /\ request[r].pc \in {"signal", "enqueue", "publish"}
  /\ End(r)
  /\ dropped' = IF request[r].pc = "enqueue" THEN dropped \cup {request[r].dep}
                                             ELSE dropped
  /\ UNCHANGED <<rowVars, redisVars, removal, workerVars, object, held,
                 removing, torn, excused>>

-----------------------------------------------------------------------------
(* Worker: the build loop *)

Target == k8sNameOf[jobName[wjob]]
Stop   == wpc' = "idle" /\ wjob' = NoDep /\ wkind' = 0 /\ wsaw' = FALSE

\* A status call: NotFound without a row; an error may come after the write.
StatusCall(s, next) ==
  \/ Visible(wjob) /\ status' = [status EXCEPT ![wjob] = s] /\ wpc' = next
  \/ ~ Visible(wjob) /\ UNCHANGED status /\ wpc' = "fail"
  \/ /\ "call" \in Faults
     /\ \/ Visible(wjob) /\ status' = [status EXCEPT ![wjob] = s]
        \/ UNCHANGED status
     /\ wpc' = "fail"

\* Mutant of Remaining: the list is read and deleted.
NoneRemains(q) == <<>>

Remaining(q) == SubSeq(q, 1, Len(q) - 1)

\* BRPOP takes from the end that RPUSH appends to.
WaitForJob ==
  /\ wpc = "idle" /\ queue # <<>>
  /\ wjob' = queue[Len(queue)]
  /\ queue' = Remaining(queue)
  /\ wpc' = "check" /\ wkind' = 0 /\ wsaw' = FALSE
  /\ UNCHANGED <<rowVars, signal, cleanups, removal, request, cleanupVars,
                 expiryVars, object, ghostVars>>

\* checkCancelled; a read that fails says no.
CheckCancelled(next) ==
  \/ wjob \in signal /\ wpc' = "cancelled"
  \/ (wjob \notin signal \/ "redis" \in Faults) /\ wpc' = next

FirstCheck ==
  /\ wpc = "check"
  /\ CheckCancelled("building")
  /\ UNCHANGED <<rowVars, redisVars, removal, request, wjob, wkind, wsaw,
                 cleanupVars, expiryVars, object, ghostVars>>

MarkBuilding ==
  /\ wpc = "building"
  /\ StatusCall("BUILDING", "phases")
  /\ UNCHANGED <<phase, name, made, project, jobName, previous, redisVars,
                 removal, request, wjob, wkind, wsaw, cleanupVars, expiryVars,
                 object, ghostVars>>

\* Token, clone, build, and the four checks around them.
Phases ==
  /\ wpc = "phases"
  /\ CheckCancelled("deploying") \/ wpc' = "fail"
  /\ UNCHANGED <<rowVars, redisVars, removal, request, wjob, wkind, wsaw,
                 cleanupVars, expiryVars, object, ghostVars>>

MarkDeploying ==
  /\ wpc = "deploying"
  /\ StatusCall("DEPLOYING", "get")
  /\ wkind' = 1
  /\ UNCHANGED <<phase, name, made, project, jobName, previous, redisVars,
                 removal, request, wjob, wsaw, cleanupVars, expiryVars, object,
                 ghostVars>>

\* CreateOrUpdate...: Get, then Create, or Update with the version read.
GetObject ==
  /\ wpc = "get"
  /\ \/ wpc' = "put" /\ wsaw' = (object[Target][wkind] # NoProject)
     \/ "k8s" \in Faults /\ wpc' = "fail" /\ UNCHANGED wsaw
  /\ UNCHANGED <<rowVars, redisVars, removal, request, wjob, wkind,
                 cleanupVars, expiryVars, object, ghostVars>>

Put ==
  /\ object' = [object EXCEPT ![Target][wkind] = project[wjob]]
  /\ excused' = IF \/ phase[project[wjob]] # "live"
                   \/ removal[project[wjob]].pc = "delete"
                THEN excused \cup {project[wjob]} ELSE excused

\* The object read before has been deleted: the API server refuses Update.
Conflict == wsaw /\ object[Target][wkind] = NoProject

\* Mutant of AfterPut: an error of the last object is only logged.
AfterPutLogged(ok) == IF wkind = NumKind THEN "ready"
                      ELSE IF ok THEN "get" ELSE "fail"

\* Where Deploy goes on after an object.
AfterPut(ok) == IF ~ ok THEN "fail"
                ELSE IF wkind = NumKind THEN "ready" ELSE "get"

PutObject ==
  /\ wpc = "put"
  /\ \/ ~ Conflict /\ Put /\ wpc' = AfterPut(TRUE)
     \/ ~ Conflict /\ "k8s" \in Faults /\ Put /\ wpc' = AfterPut(FALSE)
     \/ /\ Conflict \/ "k8s" \in Faults
        /\ wpc' = AfterPut(FALSE) /\ UNCHANGED <<object, excused>>
  /\ wkind' = IF wpc' = "get" THEN wkind + 1 ELSE wkind
  /\ UNCHANGED <<rowVars, redisVars, removal, request, wjob, wsaw, cleanupVars,
                 expiryVars, held, removing, dropped, torn>>

MarkReady ==
  /\ wpc = "ready"
  /\ \/ /\ Visible(wjob)
        /\ status' = [status EXCEPT ![wjob] = "READY"]
        /\ IF previous[wjob] = NoDep THEN Stop
           ELSE wpc' = "supersede" /\ UNCHANGED <<wjob, wkind, wsaw>>
     \/ /\ StatusCall("READY", "fail") /\ wpc' = "fail"
        /\ ~ Visible(wjob) \/ "call" \in Faults
        /\ UNCHANGED <<wjob, wkind, wsaw>>
  /\ UNCHANGED <<phase, name, made, project, jobName, previous, redisVars,
                 removal, request, cleanupVars, expiryVars, object, ghostVars>>

\* The error of this call is not looked at.
Supersede ==
  /\ wpc = "supersede"
  /\ \/ /\ Visible(previous[wjob])
        /\ status' = [status EXCEPT ![previous[wjob]] = "SUPERSEDED"]
     \/ /\ ~ Visible(previous[wjob]) \/ "call" \in Faults
        /\ UNCHANGED status
  /\ Stop
  /\ UNCHANGED <<phase, name, made, project, jobName, previous, redisVars,
                 removal, request, cleanupVars, expiryVars, object, ghostVars>>

\* FailDeployment; its own error is not looked at.
FailJob ==
  /\ wpc = "fail"
  /\ \/ /\ Visible(wjob)
        /\ status' = [status EXCEPT ![wjob] = "FAILED"]
        /\ UNCHANGED dropped
     \/ /\ ~ Visible(wjob) \/ "call" \in Faults
        /\ dropped' = dropped \cup {wjob} /\ UNCHANGED status
  /\ Stop
  /\ UNCHANGED <<phase, name, made, project, jobName, previous, redisVars,
                 removal, request, cleanupVars, expiryVars, object, held,
                 removing, torn, excused>>

MarkCancelled ==
  /\ wpc = "cancelled"
  /\ \/ /\ Visible(wjob)
        /\ status' = [status EXCEPT ![wjob] = "CANCELED"]
        /\ UNCHANGED dropped
     \/ /\ ~ Visible(wjob) \/ "call" \in Faults
        /\ dropped' = dropped \cup {wjob} /\ UNCHANGED status
  /\ wpc' = "tear" /\ wkind' = NumKind
  /\ UNCHANGED <<phase, name, made, project, jobName, previous, redisVars,
                 removal, request, wjob, wsaw, cleanupVars, expiryVars, object,
                 held, removing, torn, excused>>

\* The deployments of p that object k of name n serves: those that are READY,
\* and the build in hand once it has put the object.
Served(p, n, k) ==
  {d \in Dep : /\ project[d] = p /\ k8sNameOf[jobName[d]] = n
               /\ \/ status[d] = "READY"
                  \/ d = wjob /\ wpc = "ready"
                  \/ d = wjob /\ wpc \in {"get", "put"} /\ k < wkind}

\* Cleanup for a deployment of p deletes by name, in the reverse order of
\* Deploy, whoever made the object last, and goes on after an error.
TearDown(p, n, k) ==
  \/ /\ object' = [object EXCEPT ![n][k] = NoProject]
     /\ torn' = IF object[n][k] = p THEN torn \cup Served(p, n, k) ELSE torn
  \/ "k8s" \in Faults /\ UNCHANGED <<object, torn>>

CancelCleanup ==
  /\ wpc = "tear"
  /\ TearDown(project[wjob], Target, wkind)
  /\ wkind' = wkind - 1
  /\ wpc' = IF wkind = 1 THEN "clear" ELSE "tear"
  /\ UNCHANGED <<rowVars, redisVars, removal, request, wjob, wsaw, cleanupVars,
                 expiryVars, held, removing, dropped, excused>>

ClearCancelSignal ==
  /\ wpc = "clear"
  /\ signal' = signal \ {wjob}
  /\ Stop
  /\ UNCHANGED <<rowVars, queue, cleanups, removal, request, cleanupVars,
                 expiryVars, object, ghostVars>>

-----------------------------------------------------------------------------
(* Worker: the project-cleanup goroutine *)

\* LPUSH and RPOP: the job that has waited longest.
PopProjectCleanup ==
  /\ cpc = "idle" /\ cleanups # <<>>
  /\ cjob' = Head(cleanups) /\ cleanups' = Tail(cleanups)
  /\ cpc' = "delete" /\ ckind' = NumKind
  /\ UNCHANGED <<rowVars, queue, signal, removal, request, buildVars,
                 expiryVars, object, ghostVars>>

\* An object by name; the goroutine goes on after an error.
DeleteObject(n, k) ==
  \/ object' = [object EXCEPT ![n][k] = NoProject] /\ UNCHANGED excused
  \/ /\ "k8s" \in Faults
     /\ excused' = excused \cup ({object[n][k]} \ {NoProject})
     /\ UNCHANGED object

\* Mutant of CleanupEnds: the last object is forgotten.
CleanupEndsEarly == ckind <= 2

\* The last delete is the one of the service account, created first.
CleanupEnds == ckind = 1

CleanupProject ==
  /\ cpc = "delete"
  /\ DeleteObject(k8sNameOf[cjob.name], ckind)
  /\ IF CleanupEnds THEN cpc' = "idle" /\ cjob' = NoCleanup /\ ckind' = 0
                    ELSE ckind' = ckind - 1 /\ UNCHANGED <<cpc, cjob>>
  /\ UNCHANGED <<rowVars, redisVars, removal, request, buildVars, expiryVars,
                 held, removing, dropped, torn>>

-----------------------------------------------------------------------------
(* Worker: the expiry goroutine *)

\* getExpiredDeployments: READY rows older than the limit of their owner.
Expired(cut) ==
  {d \in Dep : Visible(d) /\ status[d] = "READY" /\ d <= cut[project[d]]}

ExpiryFetch ==
  /\ epc = "idle" /\ elist = {}
  /\ \E cut \in [Project -> 0 .. MaxDep] :
       /\ Expired(cut) # {}
       /\ elist' = {[dep |-> d, name |-> name[project[d]]] : d \in Expired(cut)}
  /\ UNCHANGED <<rowVars, redisVars, removal, request, buildVars, cleanupVars,
                 epc, ecur, ekind, object, ghostVars>>

ExpiryNext ==
  /\ epc = "idle"
  /\ \E x \in elist : ecur' = x /\ elist' = elist \ {x}
  /\ epc' = "delete" /\ ekind' = NumKind
  /\ UNCHANGED <<rowVars, redisVars, removal, request, buildVars, cleanupVars,
                 object, ghostVars>>

\* A partial failure is logged, and the row is expired all the same.
ExpiryCleanup ==
  /\ epc = "delete"
  /\ TearDown(project[ecur.dep], k8sNameOf[ecur.name], ekind)
  /\ ekind' = ekind - 1
  /\ epc' = IF ekind = 1 THEN "mark" ELSE "delete"
  /\ UNCHANGED <<rowVars, redisVars, removal, request, buildVars, cleanupVars,
                 elist, ecur, held, removing, dropped, excused>>

ExpiryMark ==
  /\ epc = "mark"
  /\ \/ /\ Visible(ecur.dep)
        /\ status' = [status EXCEPT ![ecur.dep] = "EXPIRED"]
     \/ (~ Visible(ecur.dep) \/ "call" \in Faults) /\ UNCHANGED status
  /\ epc' = "idle" /\ ecur' = NoExpiry
  /\ UNCHANGED <<phase, name, made, project, jobName, previous, redisVars,
                 removal, request, buildVars, cleanupVars, elist, ekind, object,
                 ghostVars>>

-----------------------------------------------------------------------------

\* Nothing is acknowledged: the jobs in hand and the list of expired rows go.
WorkerCrash ==
  /\ "crash" \in Faults
  /\ wpc # "idle" \/ cpc # "idle" \/ epc # "idle" \/ elist # {}
  /\ Stop
  /\ cpc' = "idle" /\ cjob' = NoCleanup /\ ckind' = 0
  /\ epc' = "idle" /\ elist' = {} /\ ecur' = NoExpiry /\ ekind' = 0
  /\ dropped' = dropped \cup ({wjob} \ {NoDep})
  /\ excused' = excused \cup ({cjob.project} \ {NoProject})
  /\ UNCHANGED <<rowVars, redisVars, removal, request, object, held, removing,
                 torn>>

-----------------------------------------------------------------------------
(* Specification *)

BuildStep ==
  \/ WaitForJob \/ FirstCheck \/ MarkBuilding \/ Phases \/ MarkDeploying
  \/ GetObject \/ PutObject \/ MarkReady \/ Supersede \/ FailJob
  \/ MarkCancelled \/ CancelCleanup \/ ClearCancelSignal

CleanupStep == PopProjectCleanup \/ CleanupProject

ExpiryStep == ExpiryFetch \/ ExpiryNext \/ ExpiryCleanup \/ ExpiryMark

RemovalStep(p) == RemoveSignal(p) \/ RemovePush(p) \/ RemoveDelete(p)

\* What starts a request about a deployment, and what goes on with it.
RequestStart(r) ==
  \/ \E p \in Project : RedeployRead(r, p) \/ PushRead(r, p)
  \/ \E d \in Dep : CancelRead(r, d)

RequestStep(r) ==
  \/ PushSignal(r) \/ PushOverwrite(r) \/ CreateRow(r) \/ AddBuildJob(r)
  \/ CancelWrite(r) \/ CancelPublish(r) \/ RequestDies(r)

ProjectStep ==
  \/ \E p \in Project, n \in Name : CreateProject(p, n) \/ UpdateName(p, n)
  \/ \E p \in Project :
       \/ EndTransaction(p)
       \/ RemoveRead(p) \/ RemovalStep(p) \/ RemovalDies(p)

Next ==
  \/ ProjectStep
  \/ \E r \in Request : RequestStart(r) \/ RequestStep(r)
  \/ BuildStep \/ CleanupStep \/ ExpiryStep \/ WorkerCrash

Spec == Init /\ [][Next]_vars

\* The goroutine polls its list every five seconds, and each of its calls
\* comes back.  Nobody has to remove a project or to finish a build.
FairSpec == Spec /\ WF_vars(CleanupStep)

-----------------------------------------------------------------------------
(* Properties *)

\* A job is in Redis before the row it is about is committed, and stays there
\* when the transaction is rolled back or the project is deleted meanwhile.
\* Whatever the order, an object is only created for a project whose row was
\* committed: the build of any other one fails before Deploy.
UncommittedNeverDeploys ==
  \A n \in K8sName, k \in Kind :
    object[n][k] # NoProject => phase[object[n][k]] \in {"live", "gone"}

\* What a removed project leaves in the cluster is known: once no cleanup of
\* it is waiting or running, it owns no object, unless it was renamed, had
\* objects but no active deployment when remove() looked, an object was
\* created after the cleanup job was pushed, or a call or process failed.
LeaksAreKnown ==
  \A p \in Project :
    /\ phase[p] = "gone" /\ p \notin excused
    /\ cjob.project # p
    /\ \A i \in DOMAIN cleanups : cleanups[i].project # p
    => Owned(p) = {}

\* A row in progress that users can see has its job in the queue, in the
\* build loop, or in the hands of the request that made the row, unless the
\* loop took the job before the transaction ended, or a fault hit it; such a
\* row blocks every further deployment.
QueuedIsOwned ==
  \A d \in Dep :
    Visible(d) /\ status[d] \in InProgress
      => \/ d \in dropped \/ d = wjob
         \/ \E i \in DOMAIN queue : queue[i] = d
         \/ \E r \in Request : request[r].pc = "enqueue" /\ request[r].dep = d

\* A READY deployment of a project nobody removes is served by all of its
\* objects, however many other projects are built, cancelled, expired and
\* removed at the same time, as long as none of them has carried a name that
\* becomes the same Kubernetes name.  Its own project can take them away, for
\* Cleanup goes by the project's name: a cancelled build takes those of the
\* deployment that is live, and an expiry those of a newer one.  These
\* deployments are in torn, with what they served at that moment; whatever
\* becomes READY later has all of its objects again.
ReadyIsServed ==
  \A d \in Dep \ torn :
    LET p == project[d]
    IN  /\ Visible(d) /\ status[d] = "READY" /\ p \notin removing
        /\ \A q \in Project \ {p} : held[q] \cap held[p] = {}
        => \A k \in Kind : object[k8sNameOf[jobName[d]]][k] = p

\* The cleanup of a removed project is carried out, although builds, removals
\* and other cleanups go on: its objects disappear, or it is one of the known
\* cases above.
RemovedIsCleared ==
  \A p \in Removable :
    phase[p] = "gone" ~> Owned(p) = {} \/ p \in excused
=============================================================================

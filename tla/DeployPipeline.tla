--------------------------- MODULE DeployPipeline ---------------------------
(***************************************************************************)
(* The deployment pipeline of Code2Cloud: the API handlers that create and *)
(* cancel deployments (apps/api: deployments, webhooks, internal, queues), *)
(* the Redis build queue and cancel signals between the API and the Go     *)
(* worker, the worker's build loop (apps/worker/internal/worker), the      *)
(* Kubernetes resources it applies, and the expiry goroutine that tears    *)
(* them down (apps/worker/internal/k8s/cleanup.go).                        *)
(*                                                                         *)
(* A step is what happens between two awaits (API) or between two remote   *)
(* calls (worker), so every interleaving of handlers, worker and expiry    *)
(* that the deployed processes can produce is a behaviour of Next.  The    *)
(* worker runs with one replica (infra/k8s/05-code2cloud/worker.yaml).     *)
(***************************************************************************)
EXTENDS Integers, Sequences, FiniteSets

CONSTANTS
  Project,      \* the projects; none is deleted in this module
  Request,      \* API requests that can be in flight at the same time
  MaxDep,       \* bound on the deployment rows ever created
  Operations,   \* which entry points the environment uses
  Faults,       \* which faults the environment injects
  ManualStatus  \* the values PUT /deployments/:id/status is called with

InProgress == {"QUEUED", "BUILDING", "DEPLOYING"}
Settled    == {"READY", "FAILED", "CANCELED", "EXPIRED", "SUPERSEDED"}
Status     == InProgress \cup Settled

\* "call": a worker's HTTP call fails, applied or not; "request": an API
\* handler dies between two awaits (a rejected promise, a restart); "crash":
\* the worker process is killed; "ttl": a cancel signal outlives its 300 s;
\* "redis": a read of the cancel key fails; "k8s": a delete fails; "head":
\* the GitHub API is unreachable while a deployment is created.
FaultKinds == {"call", "request", "crash", "ttl", "redis", "k8s", "head"}

ASSUME PipelineAssumption ==
  /\ MaxDep \in Nat
  /\ Operations \subseteq {"create", "push", "cancel", "manual", "expire"}
  /\ Faults \subseteq FaultKinds
  /\ ManualStatus \subseteq Status

Dep == 1 .. MaxDep   \* deployment ids, in the order of startedAt
NoDep == 0
NoProject == "none"

VARIABLES
  created,    \* rows 1..created of the table Deployment exist
  status,     \* Deployment.status
  project,    \* Deployment.projectId
  previous,   \* previousDeploymentId of the job built from the row
  headless,   \* rows whose commitHash is the fallback "HEAD"
  isSuccess,  \* rows whose isSuccess is true
  online,     \* Project.onlineStatus
  queue,      \* the Redis list build-queue: job payloads, named by their row
  cancelKey,  \* rows d for which the Redis key cancel:<d> exists
  req,        \* the API handlers in flight
  wpc, wjob,  \* the worker's loop: where it is, the job it holds
  epc, elist, ecur,  \* the expiry goroutine, its fetched list, its item
  streams,    \* rows that have an entry in the worker's LogStreamer
  cluster,    \* the row whose resources run under the project's name
  popped,     \* history: jobs the worker has taken
  binding,    \* history: signalled before the last check, signal not lost
  faulted     \* history: rows a fault has touched

dbVars  == <<created, status, project, previous, headless, isSuccess, online>>
apiVars == <<req>>
workerVars == <<wpc, wjob, streams>>
expiryVars == <<epc, elist, ecur>>
ghostVars  == <<popped, binding, faulted>>
vars == <<dbVars, queue, cancelKey, apiVars, workerVars, expiryVars, cluster,
          ghostVars>>

-----------------------------------------------------------------------------
(* Types *)

RequestPc == {"idle", "createRow", "signal", "overwrite", "pushRow", "enqueue",
              "markCanceled", "publish"}

NoRequest == [pc |-> "idle", project |-> NoProject, dep |-> NoDep,
              previous |-> NoDep]

\* The cancel checks of processJob and the step each one guards.
CheckNext == [check1 |-> "pending", check2 |-> "token", check3 |-> "clone",
              check4 |-> "build",   check5 |-> "deploying"]

\* Mutant of PhaseNext: the check after the build is left out.
PhaseNextWithoutCheck ==
  [token |-> "check3", clone |-> "check4", build |-> "deploying"]

\* Calls of processJob that leave the state of this module alone.
PhaseNext == [token |-> "check3", clone |-> "check4", build |-> "image"]

BeforeLastCheck == DOMAIN CheckNext \cup DOMAIN PhaseNext
                     \cup {"pending", "building", "header", "image"}
Deploying  == {"deploying", "deploy", "ready"}
Live       == {"active", "supersede", "stream"}
Cancelling == {"cancelled", "cleanup", "cleanupApi", "inactive", "clear"}
WorkerPc   == {"idle", "failing"} \cup BeforeLastCheck \cup Deploying \cup Live
                \cup Cancelling

RequestState == [pc : RequestPc, project : Project \cup {NoProject},
                 dep : Dep \cup {NoDep}, previous : Dep \cup {NoDep}]

TypeOK ==
  /\ created \in 0 .. MaxDep
  /\ status \in [Dep -> Status \cup {"ABSENT"}]
  /\ project \in [Dep -> Project \cup {NoProject}]
  /\ previous \in [Dep -> Dep \cup {NoDep}]
  /\ headless \subseteq Dep
  /\ isSuccess \subseteq Dep
  /\ online \in [Project -> {"PENDING", "ACTIVE", "INACTIVE"}]
  /\ queue \in Seq(Dep)
  /\ cancelKey \subseteq Dep
  /\ req \in [Request -> RequestState]
  /\ wpc \in WorkerPc
  /\ wjob \in Dep \cup {NoDep}
  /\ epc \in {"idle", "next", "cleanup", "mark", "inactive"}
  /\ elist \subseteq Dep
  /\ ecur \in Dep \cup {NoDep}
  /\ streams \subseteq Dep
  /\ cluster \in [Project -> Dep \cup {NoDep}]
  /\ popped \subseteq Dep
  /\ binding \subseteq Dep
  /\ faulted \subseteq Dep

Init ==
  /\ created = 0
  /\ status = [d \in Dep |-> "ABSENT"]
  /\ project = [d \in Dep |-> NoProject]
  /\ previous = [d \in Dep |-> NoDep]
  /\ headless = {}
  /\ isSuccess = {}
  /\ online = [p \in Project |-> "PENDING"]
  /\ queue = <<>>
  /\ cancelKey = {}
  /\ req = [r \in Request |-> NoRequest]
  /\ wpc = "idle" /\ wjob = NoDep
  /\ epc = "idle" /\ elist = {} /\ ecur = NoDep
  /\ streams = {}
  /\ cluster = [p \in Project |-> NoDep]
  /\ popped = {} /\ binding = {} /\ faulted = {}

-----------------------------------------------------------------------------
(* State formulae *)

Row == 1 .. created
RowsOf(p) == {d \in Row : project[d] = p}
NewestIn(S, d) == d \in S /\ \A e \in S : e <= d

Pushing(r, d) == req[r].pc = "enqueue" /\ req[r].dep = d
Queued(d)     == \E i \in DOMAIN queue : queue[i] = d
Running(d)    == wpc # "idle" /\ wjob = d

\* The row's job will still be looked at by somebody.
Owned(d) == (\E r \in Request : Pushing(r, d)) \/ Queued(d) \/ Running(d)

\* The row's job has a cancel check ahead of it.
AwaitsCheck(d) ==
  \/ \E r \in Request : Pushing(r, d)
  \/ Queued(d)
  \/ wjob = d /\ wpc \in BeforeLastCheck

-----------------------------------------------------------------------------
(* API: effects shared by several handlers *)

Goto(r, pc, p, d, prev) ==
  req' = [req EXCEPT ![r] = [pc |-> pc, project |-> p, dep |-> d,
                             previous |-> prev]]

\* deployment.create with status QUEUED; the job built from it follows.
NewRow(r, prev) ==
  LET d == created + 1 IN
  /\ created < MaxDep
  /\ created' = d
  /\ status' = [status EXCEPT ![d] = "QUEUED"]
  /\ project' = [project EXCEPT ![d] = req[r].project]
  /\ previous' = [previous EXCEPT ![d] = prev]
  /\ Goto(r, "enqueue", req[r].project, d, prev)
  /\ UNCHANGED <<isSuccess, online, queue, cancelKey, workerVars, expiryVars,
                 cluster, ghostVars>>

\* SET cancel:<d> 1 EX 300.
PublishCancelSignal(d) ==
  /\ cancelKey' = cancelKey \cup {d}
  /\ binding' = IF AwaitsCheck(d) THEN binding \cup {d} ELSE binding

\* Mutant of WriteCanceled: the worker's status for a row that is replaced.
WriteSuperseded(d) == status' = [status EXCEPT ![d] = "SUPERSEDED"]

\* The unconditional status write of both cancelling handlers.
WriteCanceled(d) == status' = [status EXCEPT ![d] = "CANCELED"]

-----------------------------------------------------------------------------
(* API: POST /deployments (DeploymentsService.create) *)

\* The in-progress check of create, on the project's newest row.
NoneInProgress(p) ==
  \A d \in Dep : NewestIn(RowsOf(p), d) => status[d] \notin InProgress

CreateCheck(r, p) ==
  /\ "create" \in Operations
  /\ req[r].pc = "idle"
  /\ NoneInProgress(p)
  /\ Goto(r, "createRow", p, NoDep, NoDep)
  /\ UNCHANGED <<dbVars, queue, cancelKey, workerVars, expiryVars, cluster,
                 ghostVars>>

\* getLatestCommit has answered, or fallen back to the sha "HEAD"; the
\* transaction commits the row.  The job carries no previousDeploymentId.
CreateRow(r) ==
  /\ req[r].pc = "createRow"
  /\ NewRow(r, NoDep)
  /\ \/ UNCHANGED headless
     \/ "head" \in Faults /\ headless' = headless \cup {created + 1}

-----------------------------------------------------------------------------
(* API: POST /webhooks/github, one matching project of the push *)

\* handlePushEvent reads the newest queued, running or live row.
PushRead(r, p) ==
  LET candidates == {d \in RowsOf(p) : status[d] \in InProgress \cup {"READY"}}
  IN
  /\ "push" \in Operations
  /\ req[r].pc = "idle"
  /\ \/ candidates = {} /\ Goto(r, "pushRow", p, NoDep, NoDep)
     \/ \E d \in candidates :
          /\ NewestIn(candidates, d)
          /\ IF status[d] = "READY" THEN Goto(r, "pushRow", p, NoDep, d)
                                    ELSE Goto(r, "signal", p, d, NoDep)
  /\ UNCHANGED <<dbVars, queue, cancelKey, workerVars, expiryVars, cluster,
                 ghostVars>>

PushSignal(r) ==
  /\ req[r].pc = "signal"
  /\ PublishCancelSignal(req[r].dep)
  /\ Goto(r, "overwrite", req[r].project, req[r].dep, NoDep)
  /\ UNCHANGED <<dbVars, queue, workerVars, expiryVars, cluster, popped,
                 faulted>>

\* "Update DB immediately": on what was read before, whatever it is by now.
PushOverwrite(r) ==
  /\ req[r].pc = "overwrite"
  /\ WriteCanceled(req[r].dep)
  /\ Goto(r, "pushRow", req[r].project, NoDep, NoDep)
  /\ UNCHANGED <<created, project, previous, headless, isSuccess, online,
                 queue, cancelKey, workerVars, expiryVars, cluster, ghostVars>>

PushRow(r) ==
  /\ req[r].pc = "pushRow"
  /\ NewRow(r, req[r].previous)
  /\ UNCHANGED headless

\* addBuildJob of both handlers: RPUSH build-queue.
Enqueue(r) ==
  /\ req[r].pc = "enqueue"
  /\ queue' = Append(queue, req[r].dep)
  /\ req' = [req EXCEPT ![r] = NoRequest]
  /\ UNCHANGED <<dbVars, cancelKey, workerVars, expiryVars, cluster, ghostVars>>

-----------------------------------------------------------------------------
(* API: POST /deployments/:id/cancel and PUT /deployments/:id/status *)

CancelRead(r, d) ==
  /\ "cancel" \in Operations
  /\ req[r].pc = "idle"
  /\ d \in Row
  /\ status[d] \in InProgress
  /\ Goto(r, "markCanceled", project[d], d, NoDep)
  /\ UNCHANGED <<dbVars, queue, cancelKey, workerVars, expiryVars, cluster,
                 ghostVars>>

CancelWrite(r) ==
  /\ req[r].pc = "markCanceled"
  /\ WriteCanceled(req[r].dep)
  /\ Goto(r, "publish", req[r].project, req[r].dep, NoDep)
  /\ UNCHANGED <<created, project, previous, headless, isSuccess, online,
                 queue, cancelKey, workerVars, expiryVars, cluster, ghostVars>>

CancelPublish(r) ==
  /\ req[r].pc = "publish"
  /\ PublishCancelSignal(req[r].dep)
  /\ req' = [req EXCEPT ![r] = NoRequest]
  /\ UNCHANGED <<dbVars, queue, workerVars, expiryVars, cluster, popped,
                 faulted>>

ManualUpdate(d, s) ==
  /\ "manual" \in Operations
  /\ d \in Row
  /\ status' = [status EXCEPT ![d] = s]
  /\ UNCHANGED <<created, project, previous, headless, isSuccess, online,
                 queue, cancelKey, apiVars, workerVars, expiryVars, cluster,
                 ghostVars>>

\* A rejected promise or a restart of the API ends the handler where it is.
RequestDies(r) ==
  /\ "request" \in Faults
  /\ req[r].pc # "idle"
  /\ faulted' = faulted \cup ({req[r].dep} \ {NoDep})
  /\ req' = [req EXCEPT ![r] = NoRequest]
  /\ UNCHANGED <<dbVars, queue, cancelKey, workerVars, expiryVars, cluster,
                 popped, binding>>

-----------------------------------------------------------------------------
(* Worker: calls to the API *)

\* Mutants of ApplyStatus: FAILED is not accepted; READY is not a success.
ApplyWithoutFailed(d, s) ==
  /\ status' = IF s = "FAILED" THEN status ELSE [status EXCEPT ![d] = s]
  /\ isSuccess' = IF s = "READY" THEN isSuccess \cup {d} ELSE isSuccess
ApplyWithoutSuccess(d, s) ==
  status' = [status EXCEPT ![d] = s] /\ UNCHANGED isSuccess

\* A status write through PATCH /internal/deployments/:id/status; READY also
\* sets isSuccess.
ApplyStatus(d, s) ==
  /\ status' = [status EXCEPT ![d] = s]
  /\ isSuccess' = IF s = "READY" THEN isSuccess \cup {d} ELSE isSuccess

\* The worker's call for row d: answered, or failed before or after the API
\* applied it.  The worker goes on at ok or at err.
StatusCall(d, s, ok, err) ==
  \/ /\ ApplyStatus(d, s)
     /\ wpc' = ok
     /\ UNCHANGED faulted
  \/ /\ "call" \in Faults
     /\ ApplyStatus(d, s) \/ UNCHANGED <<status, isSuccess>>
     /\ wpc' = err
     /\ faulted' = faulted \cup {d}

\* UpdateProjectStatus; the worker ignores its error.
OnlineCall(p, s) ==
  \/ online' = [online EXCEPT ![p] = s]
  \/ "call" \in Faults /\ UNCHANGED online

-----------------------------------------------------------------------------
(* Worker: the build loop (worker.go, Start and processJob) *)

\* Mutant of Remaining: the job is read and stays in the list.
PeekedAt(q) == q

\* BRPOP takes the element RPUSH appended last, and removes it.
NextJob(q) == q[Len(q)]
Remaining(q) == SubSeq(q, 1, Len(q) - 1)

WaitForJob ==
  /\ wpc = "idle"
  /\ queue # <<>>
  /\ wjob' = NextJob(queue)
  /\ queue' = Remaining(queue)
  /\ popped' = popped \cup {NextJob(queue)}
  /\ wpc' = "check1"
  /\ UNCHANGED <<dbVars, cancelKey, apiVars, streams, expiryVars, cluster,
                 binding, faulted>>

\* Mutant of Release: the loop does not go on to the next job.
Keep == UNCHANGED <<wpc, wjob>>

\* The loop goes back to WaitForJob.
Release == wpc' = "idle" /\ wjob' = NoDep

\* checkCancelled: IsCancelled answers false when Redis does not answer.
CheckCancelled ==
  /\ wpc \in DOMAIN CheckNext
  /\ \/ wjob \in cancelKey /\ wpc' = "cancelled" /\ UNCHANGED binding
     \/ wjob \notin cancelKey /\ wpc' = CheckNext[wpc] /\ UNCHANGED binding
     \/ /\ "redis" \in Faults
        /\ wpc' = CheckNext[wpc]
        /\ binding' = binding \ {wjob}
  /\ UNCHANGED <<dbVars, queue, cancelKey, apiVars, wjob, streams, expiryVars,
                 cluster, popped, faulted>>

MarkPending ==
  /\ wpc = "pending"
  /\ OnlineCall(project[wjob], "PENDING")
  /\ wpc' = "building"
  /\ UNCHANGED <<created, status, project, previous, headless, isSuccess,
                 queue, cancelKey, apiVars, wjob, streams, expiryVars, cluster,
                 ghostVars>>

\* UpdateDeploymentStatus(BUILDING), before the log header is written.
MarkBuilding ==
  /\ wpc = "building"
  /\ StatusCall(wjob, "BUILDING", "header", "failing")
  /\ UNCHANGED <<created, project, previous, headless, online, queue,
                 cancelKey, apiVars, wjob, streams, expiryVars, cluster,
                 popped, binding>>

\* The end of the worker process: its goroutines and its job go with it.
Restart ==
  /\ Release
  /\ epc' = "idle" /\ elist' = {} /\ ecur' = NoDep
  /\ streams' = {}
  /\ UNCHANGED <<dbVars, queue, cancelKey, apiVars, cluster, popped, binding>>

\* job.CommitHash[:8] panics on the four characters of "HEAD".
LogHeader ==
  /\ wpc = "header"
  /\ \/ /\ wjob \notin headless
        /\ wpc' = "check2"
        /\ UNCHANGED <<dbVars, queue, cancelKey, apiVars, wjob, streams,
                       expiryVars, cluster, ghostVars>>
     \/ /\ wjob \in headless
        /\ Restart
        /\ UNCHANGED faulted

\* Settings and installation token, clone, image build: done or failed.
RunPhase ==
  /\ wpc \in DOMAIN PhaseNext
  /\ wpc' \in {PhaseNext[wpc], "failing"}
  /\ UNCHANGED <<dbVars, queue, cancelKey, apiVars, wjob, streams, expiryVars,
                 cluster, ghostVars>>

\* UpdateDeploymentWithImage writes BUILDING once more; its error is ignored.
MarkImage ==
  /\ wpc = "image"
  /\ StatusCall(wjob, "BUILDING", "check5", "check5")
  /\ UNCHANGED <<created, project, previous, headless, online, queue,
                 cancelKey, apiVars, wjob, streams, expiryVars, cluster,
                 popped, binding>>

MarkDeploying ==
  /\ wpc = "deploying"
  /\ StatusCall(wjob, "DEPLOYING", "deploy", "failing")
  /\ UNCHANGED <<created, project, previous, headless, online, queue,
                 cancelKey, apiVars, wjob, streams, expiryVars, cluster,
                 popped, binding>>

\* k8s.Deploy: on an error the workload may have been replaced already.
Deploy ==
  /\ wpc = "deploy"
  /\ \/ /\ cluster' = [cluster EXCEPT ![project[wjob]] = wjob]
        /\ wpc' \in {"ready", "failing"}
     \/ UNCHANGED cluster /\ wpc' = "failing"
  /\ UNCHANGED <<dbVars, queue, cancelKey, apiVars, wjob, streams, expiryVars,
                 ghostVars>>

MarkReady ==
  /\ wpc = "ready"
  /\ StatusCall(wjob, "READY", "active", "failing")
  /\ UNCHANGED <<created, project, previous, headless, online, queue,
                 cancelKey, apiVars, wjob, streams, expiryVars, cluster,
                 popped, binding>>

MarkActive ==
  /\ wpc = "active"
  /\ OnlineCall(project[wjob], "ACTIVE")
  /\ wpc' = "supersede"
  /\ UNCHANGED <<created, status, project, previous, headless, isSuccess,
                 queue, cancelKey, apiVars, wjob, streams, expiryVars, cluster,
                 ghostVars>>

\* Retire the deployment the webhook named, when it named one.
Supersede ==
  /\ wpc = "supersede"
  /\ IF previous[wjob] = NoDep
     THEN wpc' = "stream" /\ UNCHANGED <<status, isSuccess, streams, faulted>>
     ELSE /\ streams' = streams \ {previous[wjob]}
          /\ StatusCall(previous[wjob], "SUPERSEDED", "stream", "stream")
  /\ UNCHANGED <<created, project, previous, headless, online, queue,
                 cancelKey, apiVars, wjob, expiryVars, cluster, popped,
                 binding>>

\* StartStreaming; its map entry stays even when it returns an error.
StartStreaming ==
  /\ wpc = "stream"
  /\ streams' = streams \cup {wjob}
  /\ Release
  /\ UNCHANGED <<dbVars, queue, cancelKey, apiVars, expiryVars, cluster,
                 ghostVars>>

\* FailDeployment, its error ignored, and StopStreaming.
FailJob ==
  /\ wpc = "failing"
  /\ \/ ApplyStatus(wjob, "FAILED") /\ UNCHANGED faulted
     \/ /\ "call" \in Faults
        /\ UNCHANGED <<status, isSuccess>>
        /\ faulted' = faulted \cup {wjob}
  /\ streams' = streams \ {wjob}
  /\ Release
  /\ UNCHANGED <<created, project, previous, headless, online, queue,
                 cancelKey, apiVars, expiryVars, cluster, popped, binding>>

-----------------------------------------------------------------------------
(* Worker: the errCancelled branch of Start and cancelCleanup *)

MarkCancelled ==
  /\ wpc = "cancelled"
  /\ StatusCall(wjob, "CANCELED", "cleanup", "cleanup")
  /\ UNCHANGED <<created, project, previous, headless, online, queue,
                 cancelKey, apiVars, wjob, streams, expiryVars, cluster,
                 popped, binding>>

\* k8s.Cleanup deletes by project name, whichever row's workload runs there.
TearDown(p) ==
  \/ cluster' = [cluster EXCEPT ![p] = NoDep]
  \/ "k8s" \in Faults /\ UNCHANGED cluster

CancelCleanup ==
  /\ wpc = "cleanup"
  /\ streams' = streams \ {wjob}
  /\ TearDown(project[wjob])
  /\ wpc' = "cleanupApi"
  /\ UNCHANGED <<dbVars, queue, cancelKey, apiVars, wjob, expiryVars,
                 ghostVars>>

\* DELETE /internal/deployments/:id/resources writes CANCELED again.
CleanupDeployment ==
  /\ wpc = "cleanupApi"
  /\ StatusCall(wjob, "CANCELED", "inactive", "inactive")
  /\ UNCHANGED <<created, project, previous, headless, online, queue,
                 cancelKey, apiVars, wjob, streams, expiryVars, cluster,
                 popped, binding>>

MarkInactive ==
  /\ wpc = "inactive"
  /\ OnlineCall(project[wjob], "INACTIVE")
  /\ wpc' = "clear"
  /\ UNCHANGED <<created, status, project, previous, headless, isSuccess,
                 queue, cancelKey, apiVars, wjob, streams, expiryVars, cluster,
                 ghostVars>>

ClearCancelSignal ==
  /\ wpc = "clear"
  /\ cancelKey' = cancelKey \ {wjob}
  /\ streams' = streams \ {wjob}
  /\ Release
  /\ UNCHANGED <<dbVars, queue, apiVars, expiryVars, cluster, ghostVars>>

-----------------------------------------------------------------------------
(* Expiry goroutine (cleanup.go), one pass every minute *)

\* The READY rows older than their owner's TTL: up to a cut per project.
Expired(cut) ==
  {d \in Row : status[d] = "READY" /\ d <= cut[project[d]]}

ExpiryFetch ==
  /\ "expire" \in Operations
  /\ epc = "idle"
  /\ \E cut \in [Project -> 0 .. MaxDep] :
       Expired(cut) # {} /\ elist' = Expired(cut)
  /\ epc' = "next"
  /\ UNCHANGED <<dbVars, queue, cancelKey, apiVars, workerVars, ecur, cluster,
                 ghostVars>>

ExpiryNext ==
  /\ epc = "next"
  /\ \/ /\ elist = {}
        /\ epc' = "idle" /\ ecur' = NoDep
        /\ UNCHANGED <<elist, streams>>
     \/ \E d \in elist :
          /\ epc' = "cleanup" /\ ecur' = d
          /\ elist' = elist \ {d}
          /\ streams' = streams \ {d}
  /\ UNCHANGED <<dbVars, queue, cancelKey, apiVars, wpc, wjob, cluster,
                 ghostVars>>

\* A failed cleanup is logged and the row is expired all the same.
ExpiryCleanup ==
  /\ epc = "cleanup"
  /\ TearDown(project[ecur])
  /\ epc' = "mark"
  /\ UNCHANGED <<dbVars, queue, cancelKey, apiVars, workerVars, elist, ecur,
                 ghostVars>>

ExpiryMark ==
  /\ epc = "mark"
  /\ \/ ApplyStatus(ecur, "EXPIRED") /\ epc' = "inactive"
     \/ /\ "call" \in Faults
        /\ epc' = "next"
        /\ ApplyStatus(ecur, "EXPIRED") \/ UNCHANGED <<status, isSuccess>>
  /\ UNCHANGED <<created, project, previous, headless, online, queue,
                 cancelKey, apiVars, workerVars, elist, ecur, cluster,
                 ghostVars>>

ExpiryInactive ==
  /\ epc = "inactive"
  /\ OnlineCall(project[ecur], "INACTIVE")
  /\ epc' = "next"
  /\ UNCHANGED <<created, status, project, previous, headless, isSuccess,
                 queue, cancelKey, apiVars, workerVars, elist, ecur, cluster,
                 ghostVars>>

-----------------------------------------------------------------------------
(* Faults of the environment *)

\* The worker is killed, or its context is cancelled and every call after
\* that fails: the job it has popped is not in Redis any more.
WorkerCrash ==
  /\ "crash" \in Faults
  /\ wpc # "idle" \/ epc # "idle" \/ streams # {}
  /\ faulted' = faulted \cup ({wjob} \ {NoDep})
  /\ Restart

\* 300 seconds have passed since the signal was published.
SignalExpires(d) ==
  /\ "ttl" \in Faults
  /\ d \in cancelKey
  /\ cancelKey' = cancelKey \ {d}
  /\ binding' = binding \ {d}
  /\ UNCHANGED <<dbVars, queue, apiVars, workerVars, expiryVars, cluster,
                 popped, faulted>>

-----------------------------------------------------------------------------
(* Specification *)

\* What a handler in flight does next; only its start is up to a client.
HandlerStep(r) ==
  \/ CreateRow(r) \/ PushSignal(r) \/ PushOverwrite(r) \/ PushRow(r)
  \/ Enqueue(r) \/ CancelWrite(r) \/ CancelPublish(r)

WorkerStep ==
  \/ WaitForJob \/ CheckCancelled \/ MarkPending \/ MarkBuilding \/ LogHeader
  \/ RunPhase \/ MarkImage \/ MarkDeploying \/ Deploy \/ MarkReady
  \/ MarkActive \/ Supersede \/ StartStreaming \/ FailJob
  \/ MarkCancelled \/ CancelCleanup \/ CleanupDeployment \/ MarkInactive
  \/ ClearCancelSignal

ExpiryStep ==
  \/ ExpiryFetch \/ ExpiryNext \/ ExpiryCleanup \/ ExpiryMark
  \/ ExpiryInactive

Next ==
  \/ \E r \in Request, p \in Project : CreateCheck(r, p) \/ PushRead(r, p)
  \/ \E r \in Request, d \in Dep : CancelRead(r, d)
  \/ \E r \in Request : HandlerStep(r) \/ RequestDies(r)
  \/ \E d \in Dep, s \in ManualStatus : ManualUpdate(d, s)
  \/ \E d \in Dep : SignalExpires(d)
  \/ WorkerStep
  \/ ExpiryStep
  \/ WorkerCrash

Spec == Init /\ [][Next]_vars

\* The worker's loop and a handler whose promises resolve are never stopped
\* for good; nobody has to send a request.
FairSpec ==
  /\ Spec
  /\ WF_vars(WorkerStep)
  /\ \A r \in Request : WF_vars(HandlerStep(r))

-----------------------------------------------------------------------------
(* Properties that hold *)

\* Nothing redelivers a job: addBuildJob pushes a row's job once and BRPOP
\* removes it, so the worker never takes the same deployment a second time,
\* however many handlers push at once and wherever the worker dies.
TakenOnce ==
  [][\A d \in Dep : (wjob' = d /\ wjob # d) => d \notin popped]_vars

\* No deployment is left in progress by itself: while its row says QUEUED,
\* BUILDING or DEPLOYING, a handler is about to push its job, or the job is
\* queued, or the worker has it.  Cancellation, stale webhook writes and
\* expiry, in any order, do not break this; a fault does, and so does the
\* commit hash "HEAD", on which the worker panics.
InProgressIsOwned ==
  \A d \in Dep :
    status[d] \in InProgress /\ d \notin faulted \cup headless => Owned(d)

\* A signal published before the worker's last cancel check, and not lost to
\* its TTL or to a failing read, is honoured: the deployment is never applied
\* to the cluster and never succeeds.
CancelIsHonoured ==
  \A d \in binding :
    /\ \A p \in Project : cluster[p] # d
    /\ d \notin isSuccess

\* "Old deployment marked SUPERSEDED" only once its replacement is live: a
\* later row of the same project names it as previous and has succeeded.
SupersededHasSuccessor ==
  \A d \in Dep : status[d] = "SUPERSEDED" =>
    \E e \in Dep : /\ previous[e] = d /\ e > d
                   /\ project[e] = project[d]
                   /\ e \in isSuccess

\* isSuccess and the status tell the same story (the success rate of the
\* analytics counts one over the other): a row that is or was live has
\* succeeded, and a row that succeeded is never reported failed or running.
SuccessIsConsistent ==
  \A d \in Dep :
    /\ status[d] \in {"READY", "EXPIRED", "SUPERSEDED"} => d \in isSuccess
    /\ d \in isSuccess /\ d \notin faulted
         => status[d] \in {"READY", "EXPIRED", "SUPERSEDED", "CANCELED"}

\* What runs under a project's name is a deployment of that project whose job
\* the worker has taken, and never one whose job still awaits a cancel check.
ClusterRunsTakenJob ==
  \A p \in Project : cluster[p] # NoDep =>
    /\ project[cluster[p]] = p
    /\ cluster[p] \in popped
    /\ ~ AwaitsCheck(cluster[p])

\* The pipeline implements the life of a job.
phaseOf == [d \in Dep |-> IF d > created THEN "absent"
                         ELSE IF Running(d) THEN "running"
                         ELSE IF Owned(d) THEN "waiting" ELSE "over"]

Lifecycle == INSTANCE DeploymentLifecycle WITH phase <- phaseOf
ImplementsLifecycle == Lifecycle!Spec
EveryJobEnds == Lifecycle!EveryJobEnds

\* Every deployment leaves QUEUED, BUILDING and DEPLOYING for good, even when
\* it is cancelled while queued and taken up again after, or its signal expires
\* or cannot be read.  Only the rows that a dying process had in its hands, or
\* whose commit hash is "HEAD", may stay; those queued behind them do not
\* (worker.go:171, webhooks.service.ts:235).
EverySettles ==
  \A d \in Dep :
    <>[](d \in Row => status[d] \in Settled \/ d \in faulted \cup headless)

-----------------------------------------------------------------------------
(* Inductive strengthenings, proved in DeployPipelineProofs *)

\* The records of handlers and worker name a row while they need one.
NeedsRow == {"signal", "overwrite", "enqueue", "markCanceled", "publish"}

Shape ==
  /\ wpc = "idle" <=> wjob = NoDep
  /\ \A r \in Request : req[r].pc \in NeedsRow => req[r].dep # NoDep

\* A row's job is in one place: about to be pushed by one handler, or at one
\* position of the queue, or taken.
JobInv ==
  /\ popped \subseteq Row
  /\ \A i \in DOMAIN queue : queue[i] \in Row \ popped
  /\ \A i, j \in DOMAIN queue : queue[i] = queue[j] => i = j
  /\ \A r \in Request : req[r].pc = "enqueue" =>
       /\ req[r].dep \in Row \ popped
       /\ \A i \in DOMAIN queue : queue[i] # req[r].dep
  /\ \A r, s \in Request :
       req[r].pc = "enqueue" /\ req[s].pc = "enqueue" /\ req[r].dep = req[s].dep
         => r = s
  /\ wpc # "idle" => wjob \in popped

\* A binding signal is still in Redis while a check is ahead of its row, and
\* no row is past the last check: this is what every check relies on.
CancelInv ==
  /\ binding \subseteq Row
  /\ \A d \in binding : AwaitsCheck(d) => d \in cancelKey
  /\ wjob \in binding => wpc \notin Deploying \cup Live
  /\ isSuccess \subseteq popped
  /\ \A p \in Project : cluster[p] # NoDep =>
       cluster[p] \in popped /\ project[cluster[p]] = p
  /\ wpc \in BeforeLastCheck =>
       wjob \notin isSuccess /\ \A p \in Project : cluster[p] # wjob

=============================================================================

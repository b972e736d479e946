----------------------------- MODULE ImageBuild -----------------------------
(***************************************************************************)
(* From a push to the image that runs: which commit a deployment records   *)
(* (webhooks.service.ts, deployments.service.ts), which one the worker     *)
(* checks out and builds (clone.go, worker.go, builder.go), the tag it is  *)
(* pushed under, and what a pod that starts pulls (deployment.go).         *)
(*                                                                         *)
(* The projects are linked to one branch of one repository; its states are *)
(* numbered in the order in which they were pushed, forced pushes among    *)
(* them.  A row of the table Deployment is its number.                     *)
(***************************************************************************)
EXTENDS Integers, Sequences, FiniteSets, SequencesExt

CONSTANTS
  Repo,        \* projects linked to the repository
  AutoDeploy,  \* those with Project.autoDeploy
  registryOf,  \* sanitizeName of the project's name
  MaxCommit,   \* bound on the states of the branch
  MaxBuild,      \* bound on the deployments
  BuildFaults  \* "fail": a phase of a build fails; "crash": the worker dies

ASSUME ImageBuildAssumption ==
  /\ MaxCommit \in Nat \ {0} /\ MaxBuild \in Nat
  /\ AutoDeploy \subseteq Repo /\ DOMAIN registryOf = Repo

Commit == 1 .. MaxCommit
BuildRow == 1 .. MaxBuild
None == 0

VARIABLES
  head,       \* the branch's head
  events,     \* push events on their way: commit and project
  asked,      \* POST /deployments: the commit that GitHub named
  rows,       \* table Deployment: project, commitHash and status
  canceled,   \* rows with a cancel signal
  waiting,    \* the list build-queue
  current, phase, source,  \* the worker: job, place, commit checked out
  folders,    \* directories of the workspace, named after rows
  registry,   \* images: the row whose build was pushed last, and the commit
  workload,   \* the project's Deployment in Kubernetes: row, and pulled or not.
              \* Projects here have names of their own for it; what namesakes
              \* do to one object is the subject of ProjectLifecycle
  running,    \* what the newest pod of a project runs
  spoiled,    \* history: rows whose clone failed or whose worker died
  rebuilt     \* history: rows whose image has been pushed again

branchVars == <<head, events, asked>>
tableVars == <<rows, canceled, waiting>>
workVars == <<current, phase, source>>
clusterVars == <<workload, running>>
imageVars == <<branchVars, tableVars, workVars, folders, registry,
               clusterVars, spoiled, rebuilt>>

Tag == {registryOf[p] : p \in Repo} \X Commit
Image == [row : BuildRow \cup {None}, commit : Commit \cup {None}]
RowStatus == {"QUEUED", "BUILDING", "READY", "FAILED", "CANCELED"}
NoImage == [row |-> None, commit |-> None]
NoWorkload == [row |-> None, pulled |-> FALSE]

ImagesTypeOK ==
  /\ head \in Commit
  /\ events \subseteq Commit \X AutoDeploy
  /\ asked \in [Repo -> Commit \cup {None}]
  /\ rows \in Seq([project : Repo, commit : Commit, status : RowStatus])
  /\ Len(rows) <= MaxBuild
  /\ canceled \subseteq DOMAIN rows
  /\ ToSet(waiting) \subseteq DOMAIN rows /\ current \in DOMAIN rows \cup {None}
  /\ phase \in {"idle", "clone", "build", "deploy"}
  /\ (phase = "idle") = (current = None)
  /\ source \in Commit \cup {None}
  /\ folders \subseteq DOMAIN rows
  /\ registry \in [Tag -> Image] /\ running \in [Repo -> Image]
  /\ workload \in [Repo -> [row : BuildRow \cup {None}, pulled : BOOLEAN]]
  /\ spoiled \cup rebuilt \subseteq DOMAIN rows

\* Projects that are linked but not deployed yet.
ImagesInit ==
  /\ head = 1 /\ events = {} /\ asked = [p \in Repo |-> None]
  /\ rows = <<>> /\ canceled = {} /\ waiting = <<>>
  /\ current = None /\ phase = "idle" /\ source = None /\ folders = {}
  /\ registry = [t \in Tag |-> NoImage]
  /\ workload = [p \in Repo |-> NoWorkload]
  /\ running = [p \in Repo |-> NoImage]
  /\ spoiled = {} /\ rebuilt = {}

-----------------------------------------------------------------------------
(* The branch and the deployments. *)

Push ==
  /\ head < MaxCommit
  /\ head' = head + 1
  /\ events' = events \cup ({head + 1} \X AutoDeploy)
  /\ UNCHANGED <<asked, tableVars, workVars, folders, registry, clusterVars,
                 spoiled, rebuilt>>

InProgress == {"QUEUED", "BUILDING"}  \* and DEPLOYING

\* The newest row of the project that has one of the statuses.
Latest(p, statuses) ==
  LET mine == {d \in DOMAIN rows :
                 rows[d].project = p /\ rows[d].status \in statuses}
  IN  {d \in mine : \A e \in mine : e <= d}

Ongoing(D) == {d \in D : rows[d].status \in InProgress}

Mark(D, status) ==
  [d \in DOMAIN rows |->
     IF d \in D THEN [rows[d] EXCEPT !.status = status] ELSE rows[d]]

NewRow(old, p, c) ==
  /\ Len(rows) < MaxBuild
  /\ rows' = Append(old, [project |-> p, commit |-> c, status |-> "QUEUED"])
  /\ waiting' = Append(waiting, Len(rows) + 1)

\* Mutant of PushEvent: a push is dropped while a deployment is in progress,
\* as create refuses one.
PushDropped(c, p) ==
  /\ <<c, p>> \in events
  /\ Ongoing(Latest(p, InProgress \cup {"READY"})) # {}
  /\ events' = events \ {<<c, p>>}
  /\ UNCHANGED <<head, asked, tableVars, workVars, folders, registry,
                 clusterVars, spoiled, rebuilt>>

\* triggerDeployment: what is in progress is cancelled.  Events come in any
\* order.
PushEvent(c, p) ==
  LET ongoing == Ongoing(Latest(p, InProgress \cup {"READY"}))
  IN  /\ <<c, p>> \in events
      /\ events' = events \ {<<c, p>>}
      /\ NewRow(Mark(ongoing, "CANCELED"), p, c)
      /\ canceled' = canceled \cup ongoing
      /\ UNCHANGED <<head, asked, workVars, folders, registry, clusterVars,
                     spoiled, rebuilt>>

\* create: refused when something is in progress; getLatestCommit.
GetLatestCommit(p) ==
  /\ asked[p] = None /\ Ongoing(Latest(p, RowStatus)) = {}
  /\ asked' = [asked EXCEPT ![p] = head]
  /\ UNCHANGED <<head, events, tableVars, workVars, folders, registry,
                 clusterVars, spoiled, rebuilt>>

CreateRow(p) ==
  /\ asked[p] # None
  /\ NewRow(rows, p, asked[p])
  /\ asked' = [asked EXCEPT ![p] = None]
  /\ UNCHANGED <<head, events, canceled, workVars, folders, registry,
                 clusterVars, spoiled, rebuilt>>

-----------------------------------------------------------------------------
(* The worker. *)

\* RPUSH and BRPOP work at the same end of the list.
WaitForJob ==
  /\ phase = "idle" /\ waiting # <<>>
  /\ current' = Last(waiting) /\ waiting' = Front(waiting)
  /\ phase' = "clone"
  /\ UNCHANGED <<branchVars, rows, canceled, source, folders, registry,
                 clusterVars, spoiled, rebuilt>>

\* Mutant of EndJob: the directory is left behind.
EndDirty(status) ==
  /\ current' = None /\ phase' = "idle" /\ source' = None
  /\ UNCHANGED folders
  /\ rows' = Mark({current}, status)

EndJob(status) ==
  /\ current' = None /\ phase' = "idle" /\ source' = None
  /\ folders' = folders \ {current}
  /\ rows' = Mark({current}, status)

\* A check finds the signal: cancelCleanup deletes by the project's name.
Aborted ==
  /\ current \in canceled
  /\ EndJob("CANCELED")
  /\ workload' = [workload EXCEPT ![rows[current].project] = NoWorkload]
  /\ running' = [running EXCEPT ![rows[current].project] = NoImage]
  /\ UNCHANGED <<branchVars, canceled, waiting, registry, spoiled, rebuilt>>

\* Mutant of CheckedOut: the commit that the job names.
Named == rows[current].commit

\* A shallow clone is of the branch, and git checkout is left out for it.
\* BUILDING is written over whatever the row says.
CheckedOut == head

Clone ==
  /\ phase = "clone"
  /\ folders' = folders \cup {current}
  /\ source' = CheckedOut /\ phase' = "build"
  /\ rows' = Mark({current}, "BUILDING")
  /\ UNCHANGED <<branchVars, canceled, waiting, current, registry, clusterVars,
                 spoiled, rebuilt>>

\* The deferred Cleanup is reached after a clone that succeeded only.
CloneFails ==
  /\ phase = "clone" /\ "fail" \in BuildFaults
  /\ current' = None /\ phase' = "idle"
  /\ folders' = folders \cup {current} /\ spoiled' = spoiled \cup {current}
  /\ rows' = Mark({current}, "FAILED")
  /\ UNCHANGED <<branchVars, canceled, waiting, source, registry, clusterVars,
                 rebuilt>>

\* Mutant of ImageName: one tag for all builds of a project.
OneTag(d) == <<registryOf[rows[d].project], 1>>

\* The tag is the commit that the row records.
ImageName(d) == <<registryOf[rows[d].project], rows[d].commit>>

\* Rows whose image has the name that d's has.
Namesakes(d) ==
  {e \in DOMAIN rows \ {d} :
     /\ registryOf[rows[e].project] = registryOf[rows[d].project]
     /\ rows[e].commit = rows[d].commit}

PushImage ==
  /\ registry' = [registry EXCEPT ![ImageName(current)] =
                    [row |-> current, commit |-> source]]
  /\ rebuilt' = (rebuilt \ {current}) \cup Namesakes(current)

Build ==
  /\ phase = "build"
  /\ PushImage
  /\ phase' = "deploy"
  /\ UNCHANGED <<branchVars, tableVars, current, source, folders, clusterVars,
                 spoiled>>

\* railpack or buildctl fails, or the time runs out after the push.
BuildFails ==
  /\ phase = "build" /\ "fail" \in BuildFaults
  /\ PushImage \/ UNCHANGED <<registry, rebuilt>>
  /\ EndJob("FAILED")
  /\ UNCHANGED <<branchVars, canceled, waiting, clusterVars, spoiled>>

Apply == workload' = [workload EXCEPT ![rows[current].project] =
                        [row |-> current, pulled |-> FALSE]]

Deploy ==
  /\ phase = "deploy"
  /\ Apply /\ EndJob("READY")
  /\ UNCHANGED <<branchVars, canceled, waiting, registry, running, spoiled,
                 rebuilt>>

\* Before the workload is written, or after it.
RolloutFails ==
  /\ phase = "deploy" /\ "fail" \in BuildFaults
  /\ Apply \/ UNCHANGED workload
  /\ EndJob("FAILED")
  /\ UNCHANGED <<branchVars, canceled, waiting, registry, running, spoiled,
                 rebuilt>>

\* The process dies with its job; the directory stays.
WorkerDies ==
  /\ phase # "idle" /\ "crash" \in BuildFaults
  /\ current' = None /\ phase' = "idle" /\ source' = None
  /\ spoiled' = spoiled \cup {current}
  /\ UNCHANGED <<branchVars, tableVars, folders, registry, clusterVars,
                 rebuilt>>

\* A pod starts, for whatever reason: PullAlways.
PodStarts(p) ==
  /\ workload[p].row # None
  /\ running' = [running EXCEPT ![p] = registry[ImageName(workload[p].row)]]
  /\ workload' = [workload EXCEPT ![p].pulled = TRUE]
  /\ UNCHANGED <<branchVars, tableVars, workVars, folders, registry, spoiled,
                 rebuilt>>

ImagesNext ==
  \/ Push \/ WaitForJob \/ Aborted \/ Clone \/ CloneFails
  \/ Build \/ BuildFails \/ Deploy \/ RolloutFails \/ WorkerDies
  \/ \E p \in Repo : GetLatestCommit(p) \/ CreateRow(p) \/ PodStarts(p)
  \/ \E c \in Commit, p \in Repo : PushEvent(c, p)

ImagesSpec == ImagesInit /\ [][ImagesNext]_imageVars

-----------------------------------------------------------------------------
(* Properties. *)

\* What runs for a project never goes back to an older state of the branch,
\* although the newest job is built first and an older one is deployed over
\* it: each job builds the head (queue.go:65, clone.go:86-147).
NeverGoesBack ==
  [][\A p \in Repo :
       running[p] # NoImage /\ running'[p] # NoImage =>
         running[p].commit <= running'[p].commit]_imageVars

\* When the pushes and the queue have come to rest and nothing has failed, a
\* project that deploys by itself runs the head of the branch, once the pod of
\* its newest deployment has started; a cancelled job takes away what runs
\* (webhooks.service.ts:224-306, worker.go:551).
QuietIsNewest ==
  /\ events = {} /\ waiting = <<>> /\ phase = "idle"
  /\ spoiled = {} /\ \A d \in DOMAIN rows : rows[d].status # "FAILED"
  => \A p \in AutoDeploy : workload[p].pulled => running[p].commit = head

\* A pod runs what was built for the row that was deployed, unless an image
\* of the same name was pushed since: by a build of that commit for a project
\* with the same name in the registry (worker.go:348, deployment.go:84).
RunsItsBuild ==
  \A p \in Repo :
    workload[p].pulled => \/ running[p].row = workload[p].row
                          \/ workload[p].row \in rebuilt

\* The workspace has a directory for the job in hand, and for jobs whose
\* clone failed or whose worker died; no code ever removes those
\* (clone.go:66-129, worker.go:319).
FoldersAreKnown == folders \subseteq {current} \cup spoiled
=============================================================================

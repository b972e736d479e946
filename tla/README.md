# Code2Cloud: TLA+ specification of the deployment platform

Code2Cloud takes a Git repository to a running service: an API (NestJS, Postgres
through Prisma) records deployments, a Redis list hands build jobs to one worker
(Go), and the worker clones, builds an image, applies Kubernetes resources and
tears them down again. The specification covers what these processes do to each
other; cloning, image building and manifests are steps that succeed or fail.

All paths below are relative to the repository (`src/` in `PROJECT.json`).

## 1. The system

| Component | State it keeps | Operations | Hard part |
|---|---|---|---|
| Deployment handlers, `apps/api/src/deployments` | rows of `Deployment` | create, cancel, updateStatus, getLogs | a check and a write two awaits apart |
| Webhooks, `apps/api/src/webhooks` | the same rows | handlePushEvent, triggerDeployment | cancels what it read earlier |
| Queues, `apps/api/src/queues`, `apps/worker/internal/queue` | Redis: list `build-queue`, list `project-cleanup`, keys `cancel:<id>` with a TTL of 300 s | addBuildJob, publishCancelSignal, WaitForJob, IsCancelled, ClearCancelSignal, the cleanup pair | no acknowledgement, no retry, LIFO |
| Internal API, `apps/api/src/internal` | rows of Deployment, Project, Domain, LogEntry | status writes, expiry query, pending domains, logs, notifications | writes are unconditional |
| Build loop, `apps/worker/internal/worker` | the job in hand | Start, processJob, checkCancelled, cancelCleanup, shutdown | every call can fail, be applied and fail, or come late |
| Expiry goroutine, `k8s/cleanup.go` | the list it fetched | cleanupExpired, cleanupDeployment | shares the cluster with the build loop |
| Kubernetes resources, `k8s/deploy.go` ... | five objects per sanitized project name | Deploy, Cleanup | keyed by that name, not by deployment or project id |
| Clone and image, `git/clone.go`, `builder/` | workspace folders, image tags | Clone, Build | the branch's head under a job's tag |
| Log streamer, `k8s/logs.go` | map of streams | StartStreaming, StopStreaming, StopAll | goroutines sharing a map |
| Loggers, `logging/`, `k8s/log_cleanup.go` | buffers, table LogEntry | Log, Write, Flush, Close, createLogs, retention | timer, batch and Close over one buffer |
| Domains, `apps/api/src/domains`, `k8s/domain_worker.go`, `k8s/ingress.go` | Domain rows, ingress rules | add, remove, verify, rebuild | ingress rebuilt from a job's snapshot |
| Projects, `apps/api/src/projects`, `k8s/project_cleanup.go` | Project rows, cleanup list | create, update, remove, cleanup | push before commit, delete during deploy |
| Variables and settings, `apps/api/src/envs`, `settings` | EnvironmentVariable, SystemConfig | saveAll, getConfig, updateConfig | overlapping whole-table saves |
| Authentication and GitHub accounts, `apps/api/src/auth`, `git` | hash of the refresh token, GitAccount rows | sign-in, refresh, logout, callback, list | a check and a write two awaits apart |
| Web client, `apps/web` | cookies, SWR's cache, forms, log lines | request, refresh, poll, edit, save, import | answers that come back to a page that has changed |
| Analytics, `apps/api/src/analytics` | none | overview, columns by day | windows and days |
| Health, `apps/api/src/health`, `apps/worker/cmd` | none | readiness, full health, the start of both processes | each needs the other, and Redis |
| Mail, encryption, infrastructure | none | see `PROJECT.json` | I/O and formatting |

How they interact: the web client and GitHub call the API; the API writes Postgres
and pushes jobs and signals to Redis; the worker pops jobs, reads signals, calls the
internal API over HTTP and Kubernetes through its client; the worker's goroutines
(build loop, expiry, project cleanup, domains, log cleanup, streams) share the
cluster and the streamer's map. Nothing is transactional across any two of these.

What makes each part correct:

- *handlers and queue*: each row's job is pushed at most once, taken at most once
  and never forgotten while the row is in progress;
- *cancellation*: a signal that reached Redis before the worker's last look is
  honoured; the row settles whatever the order of signal, write and build;
- *build loop*: a row ends READY, FAILED or CANCELED; SUPERSEDED only when a
  successor was live; `isSuccess` says what the status says;
- *expiry and teardown*: what is READY has its objects, but for what its own project took
  from it;
- *clone and image*: what runs never goes back to an older commit, and is what its
  row's build pushed;
- *domains*: an ACTIVE host is routed, a routed host belongs to a project that has had the
  ingress's name;
- *projects*: a job of an uncommitted project deploys nothing; nothing runs for a
  project that no longer exists, but in known cases;
- *logs*: each line stored or lost once, shown once and in order, also across a page
  boundary and a close; the streams of a stopped deployment are silent;
- *session*: it ends only for a reason, a logout is final, every waiting request is
  answered;
- *pages and forms*: what they show is what was chosen, saved or has happened, although
  answers come late and tabs overlap;
- *start*: the platform comes up once the database and Redis stay up.

## 2. Modules

| Module | What it is |
|---|---|
| `DeployPipeline` | handlers, webhook, queue, signals, build loop, cluster, expiry goroutine; the safety and liveness properties |
| `DeploymentLifecycle` | abstract specification: what the pipeline promises about one job (submitted once, taken at most once, one at a time, over for good) |
| `PipelineClaims` | what comments of the repository say and the code does not do |
| `DomainRouting` | domain rows, names of projects, the verification goroutine, and every writer of an ingress |
| `ProjectLifecycle` | projects from POST to DELETE, their deployments, pushes and cancels, and the objects of a project one by one with all that deletes them |
| `ImageBuild` | from a push to the image that runs: commits, rows, folders, tags, pods |
| `BuildPlan` | from a repository's files to a port that answers: frameworks, directories, commands, ports |
| `LogChannel` | abstract specification: a channel that stores or loses each line once and keeps none for ever |
| `LogDelivery` | the loggers, their batches and the table: implements `LogChannel` |
| `LogView` | `LogDelivery` and the panel that polls it |
| `LogStreams` | the streams that follow the pods of live deployments |
| `Configuration` | the variables of a project: panel, cache, transaction, handlers that read them, take the banner away and push a job |
| `OwnerSettings` | the settings of a user, and the messages that depend on them |
| `GitAccess` | which installation of the GitHub App a project is read through |
| `ProjectImport` | the dialog that imports a repository, its timers and answers |
| `WebSession` | cookies, refresh, logout and sign-in in several tabs |
| `DeploymentPages` | the pages of deployments over SWR's cache |
| `Analytics` | the window and the columns of the charts |
| `Startup` | the start of API and worker under the probes of Kubernetes |
| `MC...` | instances for TLC, see 3 |
| `...Proofs` | inductive invariants, lemmas and theorems, see 4 |

### DeployPipeline: state and code

| Variable | In the code |
|---|---|
| `created`, `status`, `project`, `isSuccess` | table Deployment (`schema.prisma:159-198`); rows are numbered in the order of `startedAt` |
| `previous` | `previousDeploymentId` in the job's JSON (`queues.service.ts:35-46`) |
| `headless` | rows whose `commitHash` is the fallback `HEAD` (`git.service.ts:329`) |
| `online` | `Project.onlineStatus` |
| `queue`, `cancelKey` | Redis `build-queue` and `cancel:<id>` |
| `req` | what each API handler in flight has in its local variables |
| `wpc`, `wjob` | where `Worker.Start`/`processJob` is, and its job |
| `epc`, `elist`, `ecur` | the same for the expiry goroutine |
| `streams` | keys of `LogStreamer.streams` |
| `cluster` | whose Deployment, Service, Ingress... exist under the project's name |
| `popped`, `binding`, `faulted` | history: jobs taken; rows signalled before their last check and whose signal was not lost; rows a fault has touched |

An action is what runs between two awaits of a handler, or between two remote calls
of the worker: that is the granularity at which the processes interleave. `create`
is `CreateCheck` (the read and the early return), `CreateRow` (after GitHub has
answered: the transaction), `Enqueue`. A push is `PushRead`, then for a project in
progress `PushSignal` and `PushOverwrite`, then `PushRow`, `Enqueue`; for a live
project the row read goes along as `previous`. `processJob` is one action per call,
in the order of the code: five `CheckCancelled` with the phases between them,
`MarkReady`, `MarkActive`, `Supersede`, `StartStreaming`; an error goes to `FailJob`,
a seen signal to `MarkCancelled` ... `ClearCancelSignal`. A call of the worker may be
answered, or fail before or after it was applied (fault `call`). The phases clone,
build and token are `RunPhase`: they succeed or fail and touch nothing else here.

Not in this module: domains (`DomainRouting`), project deletion and creation
through `POST /projects`, notification mails, log lines, rows of other environments
(`environment` is read nowhere in this logic), machine sizes.

### DomainRouting: state and code

| Variable | In the code |
|---|---|
| `projectName`, `renames` | table Project: the name, which `PATCH /projects/:id` changes and nothing follows; `k8sNameOf` is `sanitizeK8sName` |
| `made`, `row` | rows of table Domain that users add: name as typed, project, status; `GONE` once deleted |
| `kept` | projects that still have the row of their generated host; its name begins with `https://`, which no resolver accepts, so its status never changes and only its presence matters |
| `ingress` | the Ingress object of each Kubernetes name: absent, or the hosts of its rules |
| `jobs` | build jobs not yet at the ingress, with the name and the hosts read when they were created |
| `dpc`, `dlist`, `dcur`, `dname`, `dhosts` | the verification goroutine: where it is, rows it fetched and has not visited, each with its project's name, the row and the name in hand, the hosts it will ask for |
| `held` | history: the Kubernetes names each project has had |
| `bpc`, `bjob` | the build loop inside `CreateOrUpdateIngress`, and its job |
| `dfresh`, `bfresh` | whether the `resourceVersion` each of the two has read is still the current one |

A step is one request to Code2Cloud's API or one call of the Kubernetes API. The
goroutine fetches the pending rows (`CheckPending`), asks the DNS (`VerifyNext`), and
for a row that points to the cluster reads the ingress once for its hosts
(`AddDomain`) and once more for its version (`UpdateGet`) before it writes
(`UpdateIngressHosts`); then `Activate` or `Fail` writes the row's status. `Deploy`
replaces the rules by the hosts its job was created with (`DeployCreate`,
`DeployUpdate`); every teardown is `DeleteIngress`. The two modules are separate: the
pipeline says when a `Deploy` or a teardown happens, and `DomainRouting` allows each at
any moment, which includes all of those.

Some things one might expect do not hold, and the properties do not claim them. A
deleted row stays routed, because `DELETE` touches no ingress, until the next
`Deploy`. A domain is unique only as typed, so two projects may own rows that
`sanitizeHost` maps to one host. Names of projects are unique only as typed, too: "my-app"
and "My-App" have one ingress, each deployment replaces the other's rules, and the generated
host of a project is lost to its namesake. And a rename leaves the ingress of the old name
behind, while jobs and fetched rows still go to it. `RoutedForItsProject` says what is left:
the hosts of an ingress are those of projects that have had its name, with a row of their
own, perhaps a deleted one; nobody else's come in. `ActivatedIsRouted` is about an ingress of
a name that the row's project has had, `DefaultHostStays` about one no other project has had.

### The other modules: state and code

| Module | A variable | In the code |
|---|---|---|
| `ProjectLifecycle` | `phase`, `name`, `status`, `jobName` | Project and Deployment rows; `phase` is "open" while the transaction of `POST /projects` runs |
| | `queue`, `signal`, `cleanups` | the Redis lists and keys |
| | `request` | a `POST /deployments`, a cancel or a push in its awaits: read, signal, status, row, push |
| | `removal` | a `DELETE` in its four awaits: read, signals, push, delete |
| | `wpc ...`, `cpc ...`, `epc ...` | build loop with the teardown of a cancelled build, project cleanup and expiry, one object at a time |
| | `object` | the project id in the label of each object under each Kubernetes name |
| | `torn` | history: deployments that lost an object to a cancelled build or an expiry of their own project while it served them |
| `ImageBuild` | `head`, `events`, `asked` | the branch, webhook deliveries under way, `getLatestCommit`'s answers |
| | `rows`, `waiting`, `current`, `folders` | Deployment rows, the list, the build in hand, `/workspace` |
| | `registry`, `workload`, `running` | what a tag holds, the template, what the pods run |
| `BuildPlan` | `project`, `task`, `built`, `template`, `target`, `pods` | the row, the job, the tag's image, Deployment, Service and pods; the three tables of frameworks are the functions `NodeFrameworks`, `Preset`, `ServedBy` |
| `LogDelivery` | `buffer`, `ticker`, `sends`, `rows` | `StreamLogger.buffer`, its flush goroutine, requests under way (a batch is a set of lines: its rows all get one stamp), LogEntry |
| `LogView` | `view`, `drip`, `cursor`, `polling`, `request` | the refs and states of `use-deployment-logs.ts`; `getLogs` is `GetStatus` (its read of the deployment) and `GetLogs` (its read of a page) |
| `LogStreams` | `entry`, `cancelled`, `stream` | `activeStreams`, contexts, the goroutine of each pod |
| `WebSession` | `access`, `refresh`, `step`, `exchange`, `hash` | the cookies, requests and refreshes of each tab, `hashedRefreshToken` |
| | `expired` | refresh tokens older than seven days, whose cookie the browser drops and whose JWT the API refuses |
| `DeploymentPages` | `table`, `place`, `data`, `fetching`, `call` | rows (in progress or over), the page in view, SWR's data and requests, the button pressed |
| `Configuration` | `entries`, `changed`, `save` | EnvironmentVariable, `configChanged`, the PUTs with their transactions (`seen`: the rows one deleted, `ahead`: the saves that had deleted before it) |
| | `panel`, `dirty`, `removed`, `cache` | EnvVarsPanel, its toasts, SWR's data |
| | `creating`, `job` | handlers that create a deployment, between their read, their transaction and their push; the newest job. A manual one carries the variables with the target PRODUCTION that decrypt, a push all of them or nothing |
| `OwnerSettings` | `config`, `copy`, `unsaved`, `puts`, `pressed`, `outcome`, `told` | SystemConfig, each tab's form and button, PUTs, the forms sent (history), the job's end and its messages |
| `GitAccess` | `ownerOf`, `removed`, `account`, `callback`, `imported` | installations, GitAccount rows, callbacks between their awaits, projects |
| `ProjectImport` | `shown`, `form`, `timers`, `detections`, `requests` | the dialog, its timers, answers under way |
| `Analytics` | `hour`, `started`, `overview` | the clock, Deployment rows with `isSuccess` and status, `getOverview` between its awaits |
| `Startup` | `healthy`, `server`, `agent` | what answers, the API's container and endpoint, the worker |

`LogView` extends `LogDelivery`: pages read the table the loggers fill. The others share
no state in the models, because what they share in the program is small and is put into
each: `ProjectLifecycle` and `ImageBuild` have a build loop of their own, reduced to what
touches objects or images, which does at any moment what the pipeline's does at some.

Not everything one might expect holds. Where a property names exceptions
(`LeaksAreKnown`, `SkippedAreKnown`, `CleanPanelIsSaved`, `ProjectsStayReadable`,
`StaysSignedIn`, `RunsItsBuild`, `BannerIsRight`, `ReadyIsServed`), a history variable
records the event that is the reason, and the property says that there is no other:

- `ReadyIsServed`: `cancelCleanup` and the expiry delete by the name of the project, so a
  cancelled build takes the objects of the deployment that is live, and an expiry those of a
  newer one (`torn`; `claim_downtime` shows the first). Everything that becomes READY later
  must have all of its objects, and no other project's build, cancel, expiry or cleanup may
  take one, unless it carried a name that becomes the same Kubernetes name.
- `BannerIsRight`: a save was committed between a handler's read and its push (`missed`); or a
  manual deployment has committed its row, which takes the banner away
  (`deployments.service.ts:106-112`), and its push (line 140) is still ahead (`Handing`) or
  failed (`lost`).
- `StaysSignedIn`: a logout, a failed refresh or question who the user is, and the seven days
  of a refresh token (`token-manager.ts:20`, `auth.service.ts:313`).

## 3. Runs

Twelve runs; five of them find what a comment, a type or a message of the repository
says violated. A composite run explores parts that share no state, one per behaviour
(the variable `part`), so that its states are the sum of theirs. `MCRaces` has the pipeline
and the session; `MCPlatform` the projects under two sets of requests, the streams, the panel
of the variables and the handlers that read them; `MCSources` the
ingresses, images, installations and the import dialog; `MCSettings` a project's domains, build
plan, charts, its owner's settings, the start and the pages.

| Run | Bounds | Question |
|---|---|---|
| `pipeline_races` | 1 project, 2 handlers, 2 rows; create, push, cancel, expire; no fault. `WebSession`: 2 tabs, 3 requests, 1 expiry of the access tokens, any of the refresh tokens | do interleavings alone lose a job, supersede without successor, or break the lifecycle; when does a session end? |
| `pipeline_crashes` | 1 project, 1 handler, 2 rows; worker killed, handler dies, signal expires, reads of it fail, fallback sha | is a signal honoured all the same, does every other row settle, does every job end? |
| `pipeline_calls` | 2 projects, 1 handler, 2 rows, calls and deletes fail; push, expire, a status set by hand | do `isSuccess` and the status agree? |
| `claim_cancel` | 1 handler, 2 rows; create, cancel | a row recorded CANCELED becomes READY |
| `claim_downtime` | 1 handler, 3 rows; push | pushes alone take a live workload away |
| `claim_fallback` | 1 row; create with the fallback sha | a row stays BUILDING under a fair worker |
| `claim_rate` | 1 handler, 2 rows; push | the success rate exceeds 100 |
| `claim_retry` | 1 project, 1 row, 1 job; Kubernetes calls fail | a domain in ERROR is not tried again |
| `logs` | 1 logger, 2 lines in writes of up to 2, batches of 2, 2 seconds, retention of 1, pages of 1 line, 1 line of an older deployment, 1 upset | which lines can be missed, does the order hold, do loggers implement the channel, does polling end with everything? |
| `platform` | `ProjectLifecycle`: 2 projects, names "app" and "web", 1 request, 2 rows, 2 kinds, all faults but lost calls; with one project renamed, one removed and redeployments; and with pushes, cancels and expiries. `LogStreams`: 2 deployments, 1 restart. `Configuration`: 3 variables of 2 keys, 1 not for production, 1 that does not decrypt, 2 saves, 2 edits; a manual handler and a webhook | what can be left behind in the cluster; what takes the objects of a READY deployment; are ended streams silent; which rows and panel follow from overlapping saves; which banner from handlers that read, commit and push? |
| `sources` | `DomainRouting`: 2 projects, 3 names of which two become one, 1 rename, 2 user rows of one host, 1 job, all faults. `ImageBuild`: 2 projects with one registry name, 2 commits, 3 builds. `GitAccess`: 2 users, 2 identities, 1 organization, 2 callbacks, 2 installations. `ProjectImport`: 2 repositories, 2 directories, 2 presses, changes, timers and requests | where do hosts get to, does what runs go back, what makes a repository unreadable, does the form show what was chosen? |
| `settings` | `DomainRouting`: 1 project, 2 rows, 2 names of which one points here and is typed in another form than its rule, 1 job. `BuildPlan`: 5 kinds of files, a valid and an invalid port, 2 builds. `Analytics`: days of 3 hours, a window of 2 days, a clock of 8 hours, 2 deployments. `OwnerSettings`: 2 tabs, 2 presses, 2 edits. `Startup`: 2 failures of a probe, 1 kill. `DeploymentPages`: 2 rows, 1 visit, 1 failure | is a verifiable row resolved, does the routed port answer, does the chart count all, is the row one form, does the platform come up, what do pages show? |

Why these bounds are enough to be interesting. A race needs two deployments of one
project, and two handlers to have both of them in one hand each while the worker
holds a third party's view: two rows and two handlers reach every pair of
positions, among them both handlers past the in-progress check, a cancel between
any two calls of the worker, and an expiry of the first row while the second is
being deployed. The superseding deployment needs `previous`, that is a READY row and
a push: two rows. `MaxDep` bounds the rows ever created, hence the queue. TTLs are
not counted: a signal may expire at any moment (fault `ttl`), a row may be past its
owner's TTL at any moment (`Expired`, a cut by age per project). The faults are
spread over the runs; each is in one at least (lost calls of the status in `pipeline_calls`,
not in `platform`), and the proofs cover all at once.

For the domains, a host of the wrong project can come from the list the goroutine
keeps from one row to the next, from a job, or under a name that has changed hands: two
projects and two rows, and one rename that gives a project a namesake or ends that. One
job waiting or running is enough for each order of `Deploy`, teardown and the
goroutine's three calls on one ingress, since there is one build loop.

For projects, an object is left behind when one name passes from a project to another,
by a rename or by a removal, while a build or a cleanup goes by the old name: one
project that is renamed and one that is removed, two names, and two kinds of objects so
that a deploy and a cleanup overlap half-way (`MaxCleanup` = 1 cleanup waits while
another runs). The two names are alike, and so are two projects that are neither renamed
nor removed: of behaviours that differ only in which is which, `MCPlatform` explores one
(`Canonical`). The objects of a READY deployment are taken by a cancelled build, by an expiry
half-way through a deploy, or by a build that fails between two objects: two rows of one
project, one request, and a second project beside it. For the logs, a page of one line ends inside every second that has two;
a batch of two is full, late or closed half full; the older deployment gives the panel
something to be reset from. For images, three builds of two commits are the least in
which an older job is deployed after a newer one was; that two commits share their first
eight characters, and the fallback "HEAD", are left out there (`claim_fallback` has the
latter). For the charts, a clock that runs for longer than the window lets a deployment fall
out of it on the day on which it begins. For sessions, two requests share one tab's refresh and a third is in the other
tab. Two saves overlap, and two variables with one key make one of them fail. One line
of failures of the probes (`Threshold` = 2) stands for the API's 30 of its startup and 3
of its readiness probe.

What the models leave out on purpose: `Analytics` runs in UTC, where a day is 24 hours;
`ProjectImport` takes the navigation after a creation and the unmount of the dialog as
one step; `DeploymentPages` has one press at a time, represents all list keys by
`/projects`, tells rows apart as in progress or over, and assumes a visible tab for its
timers; `OwnerSettings` has the page's copy and not SWR's, which the page reads once.

### What the violations show

- `claim_cancel`: `webhooks.service.ts:224` says the worker checks signals at each
  phase boundary; after `worker.go:395` it does not look again, and
  `internal.service.ts:27` writes READY over CANCELED.
- `claim_downtime`: `webhooks.service.ts:63` promises a rolling update without
  downtime; `cancelCleanup` deletes by project name, so cancelling a build that
  never reached the cluster removes the live one.
- `claim_fallback`: `git.service.ts:328` calls `HEAD` a fallback that avoids breaking
  the flow; `worker.go:254` slices eight characters of it, and the process dies with
  the job.
- `claim_rate`: `types/analytics.ts:41` bounds the success rate by 100;
  `analytics.service.ts:84` divides the successes of all rows by the rows that are READY,
  EXPIRED or FAILED, and a superseded or cancelled row may have succeeded.
- `claim_retry`: `domain_worker.go:149` writes "Will retry." into the row with status
  ERROR, and `getPendingDomains` only returns PENDING rows.

Met on the way and kept as hazards in `PROJECT.json`: waiting jobs are taken newest
first (`RPUSH`/`BRPOP`), a failed teardown is followed by EXPIRED although
`cleanup.go:130` says it is retried, and `queues.module.ts:25` speaks of three
attempts that nothing makes.

### Fairness

`DeployPipeline.FairSpec` gives weak fairness to the worker's step and to each handler's
next step. The loop in `Worker.Start` never waits for anything but a job, and every call
it makes has a timeout; a handler in Node continues when its promise settles. There
is no fairness for requests, faults, expiry passes or any single branch: a phase may
fail each time. In `pipeline_crashes` a process may end, so the two liveness properties
except rows that were in the hands of one that did (`faulted`).

`DomainRouting` gives it to the verification goroutine's step: a
ticker wakes it and each of its calls has a timeout. Users, builds and teardowns are
not fair, and no outcome of a call is; a failed call also resolves a row (to ERROR),
so the liveness part may have failing Kubernetes calls, while an API that never takes
a status write (`call`) or a worker killed each time (`crash`) would defeat it.

The same holds for the project-cleanup goroutine (`CleanupStep`), the loggers' timers and
senders and the page's interval (`LogView.FairSpec`), and a visible tab, whose requests
are answered and whose SWR timers fire (`TabStep`). `Startup` is fair to Kubernetes, which
restarts containers and runs probes, and to the two processes' own steps; not to the
database, Redis or memory, which `PlatformComesUp` asks to stay up.

## 4. What is proved

Each theorem holds for all values of the constants that satisfy the assumptions of its
module, hence for any number of projects, rows, handlers, tabs, loggers or lines and with
all operations and faults together. The 29 invariants that passing runs check are
theorems, and so are the two action properties, the pipeline's refinement and, from two
stated premises, one liveness property; `theorems` in `PROJECT.json` says which theorem states which. They are not
inductive as they stand; what each proof adds is given below, and the larger inductive
invariants were given to TLC on small instances before they were proved.

The assumptions on constants are types and bounds, and these: several spellings of a host
are one (`hostOf` maps a host to itself) and generated hosts differ (`RoutingAssumption`,
names of projects are unique as typed, `schema.prisma`); users' identities have one mail address each, and
are not organizations (`AccessAssumption`); requests of the session are not tabs
(`SessionAssumption`); a line of the older deployment is in no other row (`ViewAssumption`,
rows have ids).

### The pipeline: `DeployPipelineProofs`, `OutcomeProofs`

- `TypeCorrect`, `RowsAndQueueTyped`: `TypeOK` and `Shape`. The queue's type needs that
  `SubSeq(q, 1, Len(q) - 1)` and `Append` stay in `Seq(Dep)` (`Prefix`), and most actions
  need `Shape`: the worker holds a job exactly when it is busy, and a handler names a row
  where its next step uses one.
- `JobInvariant`, `JobsTakenOnce`: a job about to be pushed is in no other hand, not in the
  queue and not taken, and the queue has no duplicates and nothing taken. Each action moves
  one job one place on or leaves the three places alone (`JobsStay`), so there is one lemma
  per way a job moves.
- `PipelineImplementsLifecycle`: with `phaseOf` as the refinement mapping every step is one
  of `DeploymentLifecycle` or a stutter. Creating a row submits it; a push keeps it waiting;
  `WaitForJob` starts it, alone; the end of the loop's body, a panic or a kill finish it; a
  handler that dies before its push drops it.
- `CancelHonoured`, `ClusterIsTaken`: while a check is ahead of a signalled row, the key is
  in Redis (otherwise the signal was lost and is not binding any more), and a row in
  `binding` is never past the last check. The fifth check with a binding signal can only go
  to `cancelled` (`LastCheckInv`).
- `NoneLeftInProgress` (`InProgressIsOwned`): through `SettlingInv`, once the worker has
  written its last status for a row that no fault has touched, the row is settled.
- `SupersededIsReplaced` (`SupersededHasSuccessor`): through `SuccessorInv`, the row that a
  job is to retire is an earlier one of its project, and the worker retires it only after
  its own row has succeeded.
- `SuccessIsTold` (`SuccessIsConsistent`): through `SuccessInv`, what expires or is replaced
  has succeeded, and the job in the worker's hands has not.

The last three exclude what `PUT /deployments/:id/status`, which checks nothing, may write:
a status in progress, SUPERSEDED, and anything but CANCELED, respectively. That handler is
in the model (`ManualStatus`); with it unrestricted the properties are false.

### Domains: `DomainRoutingProofs`

- `RoutingTypes`: types, and a goroutine only holds created rows.
- `NamesAreHeld`: whatever an ingress is written under, the name of a project, of a job, of a
  fetched row or of the row in hand, is one its project has had (`HeldInv`). That is needed
  because all of these but the first may be out of date.
- `HostsStayInTheirProject` (`RoutedForItsProject`): what is written into an ingress was
  collected earlier, so `RoutedInv` speaks of every list still to be written: those of
  waiting jobs, of the job inside `Deploy`, of the goroutine between its reads and its
  write, each together with the name it goes to. A list stays right because rows never
  change project or domain (`RowsStay`) and what a project has had only grows.
- `GeneratedHostStaysRouted` (`DefaultHostStays`): `DefaultInv` says of the same lists that
  none lacks the generated host while its row exists, where the name is of one project only.
- `ActiveIsRouted` (`ActivatedIsRouted`, an action property): `FreshInv`, a current
  `resourceVersion` means that the ingress is there and, after the write or when the rule
  was found, has the host. `Deploy` creates an ingress only where none is: the one write
  that makes nobody's version stale.

### Projects: `ProjectLifecycleProofs`

- `LifecycleTypeCorrect`: every object that exists is labelled with a project, every
  cleanup job names one.
- `OnlyCommittedDeploy` (`UncommittedNeverDeploys`): the phases after the first status call
  are reached only with a row that the call has found (`Committed`).
- `InProgressHasAJob` (`QueuedIsOwned`): through `Owners`, which adds that the loop neither
  tears down nor follows up a row in progress; between the row and the push, the job is in
  the hands of the request.
- `ReadyServed` (`ReadyIsServed`): `Places` says that the names of projects, jobs, requests,
  expired rows, removals and cleanups lead to places their own project has held, and that
  whoever cleans up is being removed; so only the project itself reaches its objects where it
  has a name of its own (`OwnObjectsStay`), and the teardowns of its own record whom they hit.
  `Serving` then follows an object from the put to READY, also half-way through a deploy.
- `LeaksKnown` (`LeaksAreKnown`): `NamesAgree`, outside the recorded exceptions jobs,
  removals and objects all have the project's name; `CleanupsCover`, once the cleanup job
  was pushed it waits, or the goroutine has reached every object that is left, or none is.

### Images and plans: `ImageBuildProofs`, `SourcesProofs`

- `ImagesTypeCorrect`, `FoldersStayKnown`.
- `RunningGoesForward` (`NeverGoesBack`, an action property): `Ordered`, the commit checked
  out is not older than any image in the registry or in a pod, and what a template names is
  not older than what its pods run. So an older job that is built later does no harm.
- `PodsRunTheirBuild` (`RunsItsBuild`): `Fresh`, a row is built and deployed once; `Tagged`,
  the image of a deployed row is its own or was built again.
- `QuietRunsTheHead` (`QuietIsNewest`): `NewestAhead`, of each project that deploys by itself
  the newest state is still to be delivered or built, in work, or settled; while something
  older is built, a newer build is still to come. `FailedIsOver` keeps failed rows out.
- `ServiceReachesPods` (`RoutedPortIsServed`): `PlanInv`, image, template, Service and pods
  name the plan they are of, the Service is not newer than the template, and two of one plan
  have one port. `RecordedIsServed` (`ServesItsOutput`): the tables agree (`TablesAgree`);
  that the first dependency that matches decides needs a least number (`LeastNumber`).
- `FrameworkOfTheForm` (`FrameworkIsItsOwn`): `FrameworkFollows`, a detection under way is for
  what the form shows. `FormStaysTheUsers` (`FormIsTheUsers`): `Calm`, no timer, import or
  creation is ahead that could clear or replace the form in view.
- `ImportTypeCorrect`, `PlanTypeCorrect`.
- `AccessTypeCorrect`, `ProjectsReadableAlways` (`ProjectsStayReadable`): a callback writes
  its row long after it read the cookie and asked GitHub, so `Undisturbed` also says of each
  one in flight that what it carries takes no row, and adds none, that a project is read
  through (`Harmless`).

### Sessions, pages and settings: `DashboardProofs`

- `WaitersServed` (`WaitersAreServed`), `LogoutStaysFinal` (`LogoutIsFinal`, through `Barred`:
  after a logout that no exchange overlapped, none is left that had passed the comparison),
  `SessionGoesOn` (`StaysSignedIn`, through `Undisturbed`: the token in the cookies, or on its
  way to them, is the one whose hash is stored; and until a refresh token is left for seven
  days none is refused for its age).
- `BannerTellsTheTruth` (`BannerIsRight`, through `ReadersKnow`: a handler that no save has
  overtaken has what is in the table, also between its transaction and its push), `TableOfOneSave` (`TableIsOneSave`, through
  `OpenTogether`: of each open transaction it is known who wrote the rows that came after its
  delete), `CleanPanelShowsTheTable` (`CleanPanelIsSaved`, through `Undoubted`: while there is
  no doubt at most one save is under way, and it is of what the panel shows).
- `RowOfOneForm` (`RowIsOneForm`, `RowInv`: what a request carries is a form sent) and
  `OneOutcomeTold` (`ToldOneOutcome`, `Told`).
- `OwnStayListed` (`OwnAreListed`): `ListInv`, the answer that a list awaits was read after
  the rows its tab knows of, because the answer to the POST drops the ones before.
- `ChartAlwaysCountsAll` (`ChartCountsAll`): the columns are sums over the days of counts of
  rows. A fold over a finite set is a CHOSEN function, so `SumIsUnique` shows by well-founded
  induction over the subsets that one function at most satisfies its recursion, and the
  function that counts the rows of a set of days does.
- `ConfigurationTypeCorrect`, `OwnerTypeCorrect`, `PagesTypeCorrect`: the first says that no key
  has two values, whichever transactions overlap (`InsertIsUnique`): an insert is refused when
  a key is among the rows left, also the rows that the transaction's delete has not seen.

### Logs: `LogProofs`

- `LinesStayApart`: each logged line is in one buffer, one batch, one row or lost (`Apart`).
- `LoggersImplementChannel`: with the lines in buffers and batches as `pending` every step of
  the loggers, the requests and the table is a step of `LogChannel` or a stutter; the end of
  the worker is one `Lose` of all that had not left it. This is `Channel!SafeSpec`, the safety
  half of `ImplementsChannel`; the other half is liveness.
- `PanelIsInOrder` (`ShownInOrder`): `Asks`, a fetch in flight asks from the cursor as it
  stands, or is about a deployment that the panel has left; `InOrder` and `OneRowEach`, the
  answer under way lies after the cursor and has one row for each line.
- `WhatIsSkippedIsKnown` (`SkippedAreKnown`): `Passed` and `Passing`, the rows that the
  cursor has passed, and those it will pass when the answer is received, are accounted for.
- `LastFetchSawAll` (`StoppedSawAll`): `Ends`, an answer "not live" was given after the status
  had changed, and its page, read later still, has what was in the table then.
- `LogTypesCorrect`, `StreamsTypeCorrect`.
- `StreamsStayReachable` (`StreamsReachable`), `EndedStaysSilent` (`EndedIsSilent`): between
  the unlock of `StartStreaming` and its list of pods, the context its goroutines will get is
  in the map or cancelled (`InHand`).

### Liveness: `OutcomeProofs`, `DomainRoutingProofs`, `ProjectLifecycleProofs`

The temporal prover handles `WF` and `~>`, but takes an ENABLED for an unknown formula: it
cannot know that a loop with work to do has a step to take. These theorems therefore have
that as a premise, in one formula for each process: `LoopIsNeverStuck`, `VisitIsNeverStuck`,
`NobodyStuck`, `CleanerIsNeverStuck`. Each is a state predicate, so TLC can evaluate it; it
holds in every reachable state of instances with the constants of the runs (377,897 and
1,243,617 states of the pipeline, 658,906 and 40,928 of domains, 624 of the start, 1,771,094 of
projects). What the
theorems then show, for all constants, is that every step leads on, that nobody else's step
leads back, and that there is an end.

- The build loop. Every step of its body goes to a farther place or lets go of the job
  (`Leaves`), so the loop comes back (`LoopComesBack`); a queue with jobs is served
  (`QueueIsServed`); a job once taken is over for good (`TakenJobEnds`, with the refinement of
  `DeploymentLifecycle`), and its row is settled for good (`TakenRowSettles`, with
  `NoneLeftInProgress`). That is `EveryJobEnds` and `EverySettles` from the pop on. A given job
  in the queue may be overtaken by newer ones, as many as there are rows; to count them
  needs an induction over time, which tlapm has not.
- The domains. `VisitedIsResolved`: a row whose DNS records were seen does not stay PENDING,
  although its writes may conflict with a build or a teardown, when the calls to the API get
  through. That is `PendingIsResolved` from the lookup on.
- The cleanup goroutine. `CleanerComesBack` goes through the five kinds of objects that the
  code deletes (`NumKind <= 5`). `CleanupsMoveUp`: whoever waits comes one place nearer, and from
  the first place into its hands. `QuietIsCleared`: when no job of a removed project waits
  any more it owns nothing, or is one of the known leaks (`LeaksKnown`). `RemovedIsCleared`
  is their composition, as many times as the list is long.
- The start. `PlatformIsUp` is `PlatformComesUp`; that kills end (`KillsEnd`), which `MaxKill`
  implies by counting, is a premise. `EndpointStarted`: an endpoint gets traffic only from a
  server that has passed its startup probe.

### What stays with TLC

- The whole of `EverySettles`, `EveryJobEnds`, `PendingIsResolved` and `RemovedIsCleared`, and
  the premises above, which are about ENABLED.
- `PageSettles`, `PolledAreShown` and the fairness in `ImplementsChannel`: who polls, and how
  often, is counted down by bounds of the model.
- `SessionTypeOK` and `AnalyticsTypeOK`: the first bounds the tokens issued by the number of
  requests, the second the day of a row by `MaxHour`. Both are facts about the model's own
  bounds, and the other proofs use the types without them.
- The five claims of 3, which are false.

## 5. Plan

Modelled and checked as planned: the pipeline, domains, projects, logs, images and plans,
sessions, pages, forms, settings, analytics, start. Proved: every invariant and every action
property that a passing run checks, the pipeline's refinement, the safety half of the logs',
and the steps of the liveness arguments. Left:

1. The waits in the queue and in the list, for a prover with induction over time.
2. More of the dashboard: the deployment page's own state and the pipeline view it draws.

## 6. Not modelled

Rendering (what the dashboard draws, the log panel's typewriter speed), mail templates, the
cipher, manifests and the Ansible files of `apps/infra`, BuildKit and its output, installation
tokens, password hashing, OAuth redirects, machine sizes, the trends of one project. Each is
listed with its reason under `components` in `PROJECT.json`.

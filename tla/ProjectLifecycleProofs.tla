----------------------- MODULE ProjectLifecycleProofs -----------------------
(***************************************************************************)
(* For any number of projects, names, deployments, requests and removals   *)
(* and all faults: types; a build whose project was never committed        *)
(* creates no object; a row in progress has its job in the list, in the    *)
(* loop or with the request that made it; a READY deployment from which    *)
(* its own project took nothing is served by all of its objects; and what  *)
(* a removed project leaves in the cluster is known.  Under fairness, and  *)
(* as long as its step stays possible, the cleanup goroutine comes back to *)
(* its list, takes the jobs in their order and clears the projects that    *)
(* wait.                                                                   *)
(***************************************************************************)
EXTENDS ProjectLifecycle, SequenceTheorems, TLAPS

USE LifecycleAssumption DEF Dep, NoDep, Kind

Ended == {"CANCELED", "SUPERSEDED", "EXPIRED"}
Status == InProgress \cup {"NONE", "READY", "FAILED"} \cup Ended

\* Rows: a project that exists has a name; a deployment row has its project
\* and the name in its job.
RowsOK ==
  /\ phase \in [Project -> {"none", "open", "live", "gone", "aborted"}]
  /\ name \in [Project -> Name \cup {NoName}]
  /\ made \in 0 .. MaxDep
  /\ status \in [Dep -> Status]
  /\ project \in [Dep -> Project \cup {NoProject}]
  /\ jobName \in [Dep -> Name \cup {NoName}]
  /\ previous \in [Dep -> Dep \cup {NoDep}]
  /\ \A p \in Project : phase[p] # "none" => name[p] \in Name
  /\ \A d \in 1 .. made : project[d] \in Project /\ jobName[d] \in Name

QueueOK ==
  /\ queue \in Seq(Dep) /\ signal \subseteq Dep /\ cleanups \in Seq(CleanupJob)
  /\ \A i \in 1 .. Len(queue) : queue[i] <= made

Removal == [pc : {"idle", "signal", "push", "delete"},
            todo : SUBSET Dep, list : SUBSET Dep, name : Name \cup {NoName}]

RemovalOK ==
  /\ removal \in [Project -> Removal]
  /\ \A p \in Project : removal[p].pc # "idle" =>
                          phase[p] = "live" /\ removal[p].name \in Name

Requests == [pc : RequestPc, project : Project \cup {NoProject},
             dep : Dep \cup {NoDep}, previous : Dep \cup {NoDep},
             name : Name \cup {NoName}]

\* A request has read a project that exists, and the row it is about.
RequestOK ==
  /\ request \in [Request -> Requests]
  /\ \A r \in Request : request[r].pc # "idle" =>
       request[r].project \in Project /\ request[r].name \in Name
  /\ \A r \in Request :
       request[r].pc \in {"signal", "overwrite", "cancel", "publish"} =>
         request[r].dep \in Dep
  /\ \A r \in Request : request[r].pc = "enqueue" => request[r].dep \in 1 .. made

\* The loop has a job exactly while it works, and a kind while it needs one.
LoopOK ==
  /\ wpc \in {"idle", "check", "building", "phases", "deploying", "get", "put",
              "ready", "supersede", "fail", "cancelled", "tear", "clear"}
  /\ wjob \in Dep \cup {NoDep} /\ wkind \in 0 .. NumKind + 1 /\ wsaw \in BOOLEAN
  /\ wjob <= made /\ (wpc = "idle") = (wjob = NoDep)
  /\ wpc \in {"get", "put", "tear"} => wkind \in Kind

CleanerOK ==
  /\ cpc \in {"idle", "delete"} /\ cjob \in CleanupJob \cup {NoCleanup}
  /\ ckind \in 0 .. NumKind
  /\ cpc = "delete" => ckind \in Kind /\ cjob \in CleanupJob

ExpiryOK ==
  /\ epc \in {"idle", "delete", "mark"} /\ elist \subseteq ExpiryJob
  /\ ecur \in ExpiryJob \cup {NoExpiry} /\ ekind \in 0 .. NumKind
  /\ epc # "idle" => ecur \in ExpiryJob
  /\ epc = "delete" => ekind \in Kind

ObjectsOK == object \in [K8sName -> [Kind -> Project \cup {NoProject}]]

GhostsOK ==
  /\ held \in [Project -> SUBSET K8sName]
  /\ removing \subseteq Project /\ dropped \subseteq Dep /\ torn \subseteq Dep
  /\ excused \subseteq Project

Types == /\ RowsOK /\ QueueOK /\ RemovalOK /\ RequestOK /\ LoopOK /\ CleanerOK
         /\ ExpiryOK /\ ObjectsOK /\ GhostsOK

-----------------------------------------------------------------------------
(* What the steps of the others leave alone. *)

LEMMA ProjectFrame ==
  ASSUME ProjectStep
  PROVE  UNCHANGED <<request, wpc, wjob, wkind, wsaw, cpc, cjob, ckind, epc,
                     elist, ecur, ekind, object, dropped, torn>>
<1> USE DEF rowVars, redisVars, workerVars, buildVars, cleanupVars, expiryVars,
            ghostVars
<1> DEFINE Same == UNCHANGED <<request, wpc, wjob, wkind, wsaw, cpc, cjob, ckind,
                               epc, elist, ecur, ekind, object, dropped, torn>>
<1>1. ASSUME NEW p \in Project, NEW n \in Name,
             CreateProject(p, n) \/ UpdateName(p, n)
      PROVE  Same
  BY <1>1 DEF CreateProject, UpdateName
<1>2. ASSUME NEW p \in Project,
             EndTransaction(p) \/ RemoveRead(p) \/ RemovalStep(p) \/ RemovalDies(p)
      PROVE  Same
  BY <1>2 DEF EndTransaction, RemoveRead, RemovalStep, RemoveSignal, RemovePush,
     RemoveDelete, RemovalDies
<1> QED BY <1>1, <1>2 DEF ProjectStep

LEMMA RequestStartFrame ==
  ASSUME NEW r \in Request, RequestStart(r)
  PROVE  UNCHANGED <<phase, name, made, status, project, jobName, previous, queue,
                     signal, cleanups, removal, wpc, wjob, wkind, wsaw, cpc, cjob,
                     ckind, epc, elist, ecur, ekind, object, held, removing,
                     dropped, torn, excused>>
  BY DEF RequestStart, RedeployRead, PushRead, CancelRead, rowVars, redisVars,
     workerVars, buildVars, cleanupVars, expiryVars, ghostVars

LEMMA RequestStepFrame ==
  ASSUME NEW r \in Request, RequestStep(r)
  PROVE  UNCHANGED <<phase, name, cleanups, removal, wpc, wjob, wkind, wsaw, cpc,
                     cjob, ckind, epc, elist, ecur, ekind, object, held, removing,
                     torn, excused>>
<1> USE DEF rowVars, redisVars, workerVars, buildVars, cleanupVars, expiryVars,
            ghostVars
<1>1. CASE PushSignal(r) \/ PushOverwrite(r) \/ CreateRow(r)
  BY <1>1 DEF PushSignal, PushOverwrite, CreateRow
<1>2. CASE AddBuildJob(r) \/ CancelWrite(r) \/ CancelPublish(r) \/ RequestDies(r)
  BY <1>2 DEF AddBuildJob, CancelWrite, CancelPublish, RequestDies
<1> QED BY <1>1, <1>2 DEF RequestStep

LEMMA BuildFrame ==
  ASSUME BuildStep
  PROVE  UNCHANGED <<phase, name, made, project, jobName, previous, cleanups,
                     removal, request, cpc, cjob, ckind, epc, elist, ecur, ekind,
                     held, removing>>
<1> USE DEF rowVars, redisVars, cleanupVars, expiryVars, ghostVars
<1>1. CASE WaitForJob \/ FirstCheck \/ MarkBuilding \/ Phases \/ MarkDeploying
  BY <1>1 DEF WaitForJob, FirstCheck, MarkBuilding, Phases, MarkDeploying
<1>2. CASE GetObject \/ PutObject \/ MarkReady \/ Supersede
  BY <1>2 DEF GetObject, PutObject, MarkReady, Supersede
<1>3. CASE FailJob \/ MarkCancelled \/ CancelCleanup \/ ClearCancelSignal
  BY <1>3 DEF FailJob, MarkCancelled, CancelCleanup, ClearCancelSignal
<1> QED BY <1>1, <1>2, <1>3 DEF BuildStep

LEMMA CleanupFrame ==
  ASSUME CleanupStep
  PROVE  UNCHANGED <<phase, name, made, status, project, jobName, previous, queue,
                     signal, removal, request, wpc, wjob, wkind, wsaw, epc, elist,
                     ecur, ekind, held, removing, dropped, torn>>
  BY DEF CleanupStep, PopProjectCleanup, CleanupProject, rowVars, redisVars,
     buildVars, expiryVars, ghostVars

LEMMA ExpiryFrame ==
  ASSUME ExpiryStep
  PROVE  UNCHANGED <<phase, name, made, project, jobName, previous, queue, signal,
                     cleanups, removal, request, wpc, wjob, wkind, wsaw, cpc, cjob,
                     ckind, held, removing, dropped, excused>>
  BY DEF ExpiryStep, ExpiryFetch, ExpiryNext, ExpiryCleanup, ExpiryMark, rowVars,
     redisVars, buildVars, cleanupVars, ghostVars

LEMMA CrashFrame ==
  ASSUME WorkerCrash
  PROVE  UNCHANGED <<phase, name, made, status, project, jobName, previous, queue,
                     signal, cleanups, removal, request, object, held, removing,
                     torn>>
  BY DEF WorkerCrash, rowVars, redisVars

LEMMA StutterFrame ==
  ASSUME UNCHANGED vars
  PROVE  UNCHANGED <<phase, name, made, status, project, jobName, previous, queue,
                     signal, cleanups, removal, request, wpc, wjob, wkind, wsaw,
                     cpc, cjob, ckind, epc, elist, ecur, ekind, object, held,
                     removing, dropped, torn, excused>>
  BY DEF vars, rowVars, redisVars, workerVars, buildVars, cleanupVars, expiryVars,
     ghostVars

-----------------------------------------------------------------------------
(* The parts of the types, each with the actions that change it. *)

LEMMA InitTypes == Init => Types
<1> SUFFICES ASSUME Init PROVE Types
  OBVIOUS
<1>1. RowsOK
  BY DEF Init, RowsOK, Status
<1>2. QueueOK
  BY EmptySeq DEF Init, QueueOK
<1>3. RemovalOK
  BY DEF Init, RemovalOK, Removal, NoRemoval
<1>4. LoopOK
  <2>1. 0 \in 0 .. NumKind + 1 /\ 0 <= 0
    OBVIOUS
  <2>2. wpc = "idle" /\ wjob = 0 /\ wkind = 0 /\ wsaw = FALSE /\ made = 0
    BY DEF Init
  <2> QED BY <2>1, <2>2 DEF LoopOK
<1>5. CleanerOK
  BY DEF Init, CleanerOK
<1>6. ObjectsOK /\ GhostsOK
  BY DEF Init, ObjectsOK, GhostsOK
<1>7. RequestOK
  BY DEF Init, RequestOK, Requests, RequestPc, NoRequest
<1>8. ExpiryOK
  BY DEF Init, ExpiryOK
<1> QED BY <1>1, <1>2, <1>3, <1>4, <1>5, <1>6, <1>7, <1>8 DEF Types

LEMMA StatusCallWrites ==
  ASSUME Types, wpc # "idle", NEW s \in Status, NEW next, StatusCall(s, next)
  PROVE  /\ status' \in [Dep -> Status] /\ wpc' \in {next, "fail"}
         /\ \A d \in Dep \ {wjob} : status'[d] = status[d]
         /\ status'[wjob] \in {status[wjob], s}
         /\ wpc' = "fail" \/ Visible(wjob)
  BY DEF StatusCall, Types, RowsOK, LoopOK

\* What a status call does to the row of the job in hand.
StatusOnly ==
  /\ UNCHANGED <<phase, name, made, project, jobName, previous>>
  /\ status' \in [Dep -> Status]
  /\ \A d \in Dep \ {wjob} : status'[d] = status[d]

LEMMA LoopWritesStatus ==
  ASSUME Types,
         MarkBuilding \/ MarkDeploying \/ MarkReady \/ FailJob \/ MarkCancelled
  PROVE  StatusOnly
<1>0. {"BUILDING", "DEPLOYING", "READY", "FAILED", "CANCELED"} \subseteq Status
      /\ status \in [Dep -> Status]
  BY DEF Status, Ended, InProgress, Types, RowsOK
<1>1. CASE MarkBuilding
  BY <1>0, <1>1, StatusCallWrites DEF MarkBuilding, StatusOnly
<1>2. CASE MarkDeploying
  BY <1>0, <1>2, StatusCallWrites DEF MarkDeploying, StatusOnly
<1>3. CASE MarkReady
  <2>1. \/ status' = [status EXCEPT ![wjob] = "READY"]
        \/ StatusCall("READY", "fail")
    BY <1>3 DEF MarkReady
  <2> QED BY <1>0, <1>3, <2>1, StatusCallWrites DEF MarkReady, StatusOnly
<1>4. CASE FailJob
  BY <1>0, <1>4 DEF FailJob, StatusOnly
<1>5. CASE MarkCancelled
  BY <1>0, <1>5 DEF MarkCancelled, StatusOnly
<1> QED BY <1>1, <1>2, <1>3, <1>4, <1>5

\* Whoever else writes a status ends the row.
EndsRows ==
  /\ status' \in [Dep -> Status]
  /\ \A d \in Dep : status'[d] = status[d] \/ status'[d] \in Ended

LEMMA OthersEndRows ==
  ASSUME Types,
         \/ Supersede \/ ExpiryStep
         \/ \E r \in Request : RequestStep(r) /\ ~ CreateRow(r)
  PROVE  EndsRows
<1> USE DEF rowVars
<1>0. Ended \subseteq Status /\ status \in [Dep -> Status]
  BY DEF Status, Types, RowsOK
<1>1. ASSUME NEW d, NEW s \in Ended, status' = [status EXCEPT ![d] = s]
      PROVE  EndsRows
  BY <1>0, <1>1 DEF EndsRows
<1>2. ASSUME UNCHANGED status PROVE EndsRows
  BY <1>0, <1>2 DEF EndsRows
<1>3. CASE Supersede
  BY <1>1, <1>2, <1>3 DEF Supersede, Ended
<1>4. CASE ExpiryStep
  BY <1>1, <1>2, <1>4 DEF ExpiryStep, ExpiryFetch, ExpiryNext, ExpiryCleanup,
     ExpiryMark, Ended
<1>5. ASSUME NEW r \in Request, PushOverwrite(r) \/ CancelWrite(r)
      PROVE  EndsRows
  BY <1>1, <1>2, <1>5 DEF PushOverwrite, CancelWrite, Ended
<1>6. ASSUME NEW r \in Request,
             PushSignal(r) \/ AddBuildJob(r) \/ CancelPublish(r) \/ RequestDies(r)
      PROVE  UNCHANGED status
  BY <1>6 DEF PushSignal, AddBuildJob, CancelPublish, RequestDies
<1> QED BY <1>2, <1>3, <1>4, <1>5, <1>6 DEF RequestStep

\* A new row, and nothing else of the rows.
LEMMA AddRowWrites ==
  ASSUME Types, NEW p \in Project, NEW n \in Name, NEW prev \in Dep \cup {NoDep},
         AddRow(p, n, prev)
  PROVE  /\ made' = made + 1 /\ made \in Nat /\ made + 1 \in Dep
         /\ project'[made + 1] = p /\ jobName'[made + 1] = n
         /\ status'[made + 1] = "QUEUED"
         /\ \A d \in Dep \ {made + 1} :
              /\ project'[d] = project[d] /\ jobName'[d] = jobName[d]
              /\ status'[d] = status[d]
         /\ \A d \in 1 .. made : d \in Dep \ {made + 1}
         /\ \A d \in 1 .. made' : d \in 1 .. made \/ d = made + 1
         /\ status' \in [Dep -> Status] /\ made' \in 0 .. MaxDep
         /\ project' \in [Dep -> Project \cup {NoProject}]
         /\ jobName' \in [Dep -> Name \cup {NoName}]
         /\ previous' \in [Dep -> Dep \cup {NoDep}]
         /\ \A d \in 1 .. made' : project'[d] \in Project /\ jobName'[d] \in Name
<1>1. made \in Nat /\ made < MaxDep /\ made' = made + 1
  BY DEF AddRow, Types, RowsOK
<1>2. /\ made + 1 \in Dep /\ \A d \in 1 .. made : d \in Dep \ {made + 1}
      /\ \A d \in 1 .. made' : d \in 1 .. made \/ d = made + 1
      /\ made' \in 0 .. MaxDep
  BY <1>1
<1>3. /\ status' = [status EXCEPT ![made + 1] = "QUEUED"]
      /\ project' = [project EXCEPT ![made + 1] = p]
      /\ jobName' = [jobName EXCEPT ![made + 1] = n]
      /\ previous' = [previous EXCEPT ![made + 1] = prev]
  BY DEF AddRow
<1>4. /\ status \in [Dep -> Status] /\ "QUEUED" \in Status
      /\ project \in [Dep -> Project \cup {NoProject}]
      /\ jobName \in [Dep -> Name \cup {NoName}]
      /\ previous \in [Dep -> Dep \cup {NoDep}]
      /\ \A d \in 1 .. made : project[d] \in Project /\ jobName[d] \in Name
  BY DEF Types, RowsOK, Status, InProgress
<1> HIDE DEF Dep
<1>5. /\ status' \in [Dep -> Status]
      /\ project' \in [Dep -> Project \cup {NoProject}]
      /\ jobName' \in [Dep -> Name \cup {NoName}]
      /\ previous' \in [Dep -> Dep \cup {NoDep}]
  BY <1>2, <1>3, <1>4
<1>6. /\ project'[made + 1] = p /\ jobName'[made + 1] = n
      /\ status'[made + 1] = "QUEUED"
      /\ \A d \in Dep \ {made + 1} :
           /\ project'[d] = project[d] /\ jobName'[d] = jobName[d]
           /\ status'[d] = status[d]
  BY <1>2, <1>3, <1>4
<1>7. ASSUME NEW d \in 1 .. made'
      PROVE  project'[d] \in Project /\ jobName'[d] \in Name
  BY <1>2, <1>4, <1>6
<1> QED BY <1>1, <1>2, <1>5, <1>6, <1>7

\* Who adds one: the transaction of a project, and a request.
LEMMA RowsAdded ==
  ASSUME Types, [Next]_vars
  PROVE  \/ UNCHANGED <<made, project, jobName, previous>>
         \/ \E p \in Project, n \in Name, prev \in Dep \cup {NoDep} :
              /\ AddRow(p, n, prev)
              /\ \/ CreateProject(p, n)
                 \/ \E r \in Request :
                      /\ CreateRow(r) /\ request[r].pc = "row"
                      /\ p = request[r].project /\ n = request[r].name
                      /\ phase[p] = "live"
<1> USE DEF rowVars
<1>1. ASSUME NEW p \in Project, NEW n \in Name, CreateProject(p, n)
      PROVE  AddRow(p, n, NoDep)
  BY <1>1 DEF CreateProject
<1>2. ASSUME NEW r \in Request, CreateRow(r)
      PROVE  \/ UNCHANGED <<made, project, jobName, previous>>
             \/ /\ AddRow(request[r].project, request[r].name, request[r].previous)
                /\ request[r].pc = "row" /\ phase[request[r].project] = "live"
                /\ request[r].project \in Project /\ request[r].name \in Name
                /\ request[r].previous \in Dep \cup {NoDep}
  BY <1>2 DEF CreateRow, Types, RequestOK, Requests
<1>3. ASSUME NEW p \in Project,
             \/ EndTransaction(p) \/ RemoveRead(p) \/ RemovalStep(p)
             \/ RemovalDies(p) \/ \E n \in Name : UpdateName(p, n)
      PROVE  UNCHANGED <<made, project, jobName, previous>>
  BY <1>3 DEF EndTransaction, RemoveRead, RemovalStep, RemoveSignal, RemovePush,
     RemoveDelete, RemovalDies, UpdateName
<1>4. ASSUME NEW r \in Request, RequestStep(r), ~ CreateRow(r)
      PROVE  UNCHANGED <<made, project, jobName, previous>>
  BY <1>4 DEF RequestStep, PushSignal, PushOverwrite, AddBuildJob, CancelWrite,
     CancelPublish, RequestDies
<1>5. ProjectStep => \/ UNCHANGED <<made, project, jobName, previous>>
                     \/ \E p \in Project, n \in Name : CreateProject(p, n)
  BY <1>3 DEF ProjectStep
<1>6. CASE ProjectStep
  BY <1>1, <1>5, <1>6
<1>7. ASSUME NEW r \in Request, RequestStart(r) \/ RequestStep(r)
      PROVE  \/ UNCHANGED <<made, project, jobName, previous>>
             \/ CreateRow(r)
  BY <1>4, <1>7, RequestStartFrame
<1>8. CASE \E r \in Request : RequestStart(r) \/ RequestStep(r)
  BY <1>2, <1>7, <1>8
<1> QED BY <1>6, <1>8, BuildFrame, CleanupFrame, ExpiryFrame, CrashFrame,
           StutterFrame DEF Next

\* Numbers are given once, and rows keep what they were created with.
LEMMA RowsGrow ==
  ASSUME Types, [Next]_vars
  PROVE  /\ made \in Nat /\ made' \in Nat /\ made <= made'
         /\ \A d \in 1 .. made : d \in 1 .. made' /\ project'[d] = project[d]
                                 /\ jobName'[d] = jobName[d]
<1>1. made \in Nat
  BY DEF Types, RowsOK
<1>2. CASE UNCHANGED <<made, project, jobName, previous>>
  BY <1>1, <1>2
<1>3. ASSUME NEW p \in Project, NEW n \in Name, NEW prev \in Dep \cup {NoDep},
             AddRow(p, n, prev)
      PROVE  /\ made' \in Nat /\ made <= made'
             /\ \A d \in 1 .. made : d \in 1 .. made' /\ project'[d] = project[d]
                                     /\ jobName'[d] = jobName[d]
  BY <1>1, <1>3, AddRowWrites
<1> QED BY <1>1, <1>2, <1>3, RowsAdded

LEMMA NextRows ==
  ASSUME Types, [Next]_vars
  PROVE  RowsOK'
<1> USE DEF rowVars
<1>0. /\ phase \in [Project -> {"none", "open", "live", "gone", "aborted"}]
      /\ name \in [Project -> Name \cup {NoName}]
      /\ \A p \in Project : phase[p] # "none" => name[p] \in Name
      /\ status \in [Dep -> Status] /\ made \in 0 .. MaxDep
      /\ project \in [Dep -> Project \cup {NoProject}]
      /\ jobName \in [Dep -> Name \cup {NoName}]
      /\ previous \in [Dep -> Dep \cup {NoDep}]
      /\ \A d \in 1 .. made : project[d] \in Project /\ jobName[d] \in Name
  BY DEF Types, RowsOK
\* The rows of projects, ...
<1>1. /\ phase' \in [Project -> {"none", "open", "live", "gone", "aborted"}]
      /\ name' \in [Project -> Name \cup {NoName}]
      /\ \A p \in Project : phase'[p] # "none" => name'[p] \in Name
  <2> DEFINE Goal ==
        /\ phase' \in [Project -> {"none", "open", "live", "gone", "aborted"}]
        /\ name' \in [Project -> Name \cup {NoName}]
        /\ \A p \in Project : phase'[p] # "none" => name'[p] \in Name
  <2>1. ASSUME NEW p \in Project, NEW n \in Name,
               CreateProject(p, n) \/ UpdateName(p, n)
        PROVE  Goal
    <3>1. /\ phase' \in {phase, [phase EXCEPT ![p] = "open"]}
          /\ name' = [name EXCEPT ![p] = n]
      BY <2>1 DEF CreateProject, UpdateName
    <3> QED BY <1>0, <3>1
  <2>2. ASSUME NEW p \in Project, EndTransaction(p) \/ RemoveDelete(p)
        PROVE  Goal
    <3>1. /\ \E s \in {"live", "aborted", "gone"} : phase' = [phase EXCEPT ![p] = s]
          /\ UNCHANGED name
      BY <2>2 DEF EndTransaction, RemoveDelete
    <3>2. name[p] \in Name
      BY <2>2 DEF EndTransaction, RemoveDelete, Types, RowsOK, RemovalOK
    <3> QED BY <1>0, <3>1, <3>2
  <2>3. ASSUME NEW p \in Project,
               RemoveRead(p) \/ RemoveSignal(p) \/ RemovePush(p) \/ RemovalDies(p)
        PROVE  UNCHANGED <<phase, name>>
    BY <2>3 DEF RemoveRead, RemoveSignal, RemovePush, RemovalDies
  <2>4. UNCHANGED <<phase, name>> => Goal
    BY <1>0
  <2>5. CASE ProjectStep
    BY <2>1, <2>2, <2>3, <2>4, <2>5 DEF ProjectStep, RemovalStep
  <2> QED BY <2>4, <2>5, RequestStartFrame, RequestStepFrame, BuildFrame,
             CleanupFrame, ExpiryFrame, CrashFrame, StutterFrame DEF Next
\* ... and of deployments: a new one, ...
<1>2. ASSUME NEW p \in Project, NEW n \in Name, NEW prev \in Dep \cup {NoDep},
             AddRow(p, n, prev)
      PROVE  RowsOK'
  BY <1>1, <1>2, AddRowWrites DEF RowsOK
\* ... or a status.
<1>3. ASSUME UNCHANGED <<made, project, jobName, previous>>,
             status' \in [Dep -> Status]
      PROVE  RowsOK'
  BY <1>0, <1>1, <1>3 DEF RowsOK
<1>4. ASSUME NEW p \in Project,
             \/ EndTransaction(p) \/ RemoveRead(p) \/ RemovalStep(p)
             \/ RemovalDies(p) \/ \E n \in Name : UpdateName(p, n)
      PROVE  UNCHANGED status
  BY <1>4 DEF EndTransaction, RemoveRead, RemovalStep, RemoveSignal, RemovePush,
     RemoveDelete, RemovalDies, UpdateName
<1>5. ASSUME NEW r \in Request, CreateRow(r),
             UNCHANGED <<made, project, jobName, previous>>
      PROVE  UNCHANGED status
  BY <1>0, <1>5 DEF CreateRow, AddRow
<1>6. CASE MarkBuilding \/ MarkDeploying \/ MarkReady \/ FailJob \/ MarkCancelled
  BY <1>3, <1>6, LoopWritesStatus DEF StatusOnly, BuildStep, BuildFrame
<1>7. CASE Supersede
  <2>1. UNCHANGED <<made, project, jobName, previous>>
    BY <1>7 DEF Supersede
  <2> QED BY <1>3, <1>7, <2>1, OthersEndRows DEF EndsRows
<1>8. CASE ExpiryStep
  BY <1>3, <1>8, OthersEndRows, ExpiryFrame DEF EndsRows
<1>9. CASE UNCHANGED <<made, project, jobName, previous>>
  <2>1. ASSUME NEW r \in Request, RequestStart(r) \/ RequestStep(r)
        PROVE  status' \in [Dep -> Status]
    BY <1>0, <1>5, <1>9, <2>1, RequestStartFrame, OthersEndRows DEF EndsRows
  <2>2. ASSUME ProjectStep PROVE status' \in [Dep -> Status]
    <3>1. ASSUME NEW p \in Project, NEW n \in Name, CreateProject(p, n)
          PROVE  FALSE
      BY <1>0, <1>9, <3>1 DEF CreateProject, AddRow
    <3> QED BY <1>0, <1>4, <2>2, <3>1 DEF ProjectStep
  <2>3. WaitForJob \/ FirstCheck \/ Phases \/ GetObject \/ PutObject
        \/ CancelCleanup \/ ClearCancelSignal
          => UNCHANGED status
    BY DEF WaitForJob, FirstCheck, Phases, GetObject, PutObject, CancelCleanup,
           ClearCancelSignal
  <2> QED BY <1>0, <1>3, <1>6, <1>7, <1>8, <1>9, <2>1, <2>2, <2>3, CleanupFrame,
             CrashFrame, StutterFrame DEF Next, BuildStep
<1> QED BY <1>2, <1>9, RowsAdded

\* What BRPOP leaves.
LEMMA RemainingElements ==
  ASSUME queue \in Seq(Dep), queue # <<>>
  PROVE  /\ Remaining(queue) \in Seq(Dep) /\ Len(queue) \in Nat \ {0}
         /\ Len(Remaining(queue)) = Len(queue) - 1
         /\ \A i \in 1 .. Len(queue) - 1 : Remaining(queue)[i] = queue[i]
<1> DEFINE m == Len(queue) - 1
           rest == SubSeq(queue, 1, m)
<1>1. Len(queue) \in Nat \ {0}
  BY EmptySeq, LenProperties
<1>2. /\ m \in Int /\ m - 1 + 1 = m
      /\ (IF 1 <= m THEN m - 1 + 1 ELSE 0) = m
      /\ \A i \in 1 .. m : 1 + i - 1 = i /\ i \in 1 .. Len(queue)
  <2>1. m \in Nat /\ m < Len(queue)
    BY <1>1
  <2> HIDE DEF m
  <2> QED BY <1>1, <2>1
<1>3. \A i \in 1 .. m : queue[i] \in Dep
  BY <1>2, ElementOfSeq
<1> HIDE DEF m
<1>4. /\ rest \in Seq(Dep)
      /\ Len(rest) = IF 1 <= m THEN m - 1 + 1 ELSE 0
      /\ \A i \in 1 .. m - 1 + 1 : rest[i] = queue[1 + i - 1]
  BY <1>2, <1>3, 1 \in Int, SubSeqProperties
<1> HIDE DEF rest
<1>5. Len(rest) = m
  BY <1>2, <1>4
<1>6. \A i \in 1 .. m : rest[i] = queue[i]
  BY <1>2, <1>4
<1> QED BY <1>1, <1>4, <1>5, <1>6 DEF Remaining, rest, m

\* What RPUSH adds.
LEMMA PushedElements ==
  ASSUME queue \in Seq(Dep), NEW d \in Dep, queue' = Append(queue, d)
  PROVE  /\ queue' \in Seq(Dep) /\ Len(queue) \in Nat
         /\ Len(queue') = Len(queue) + 1
         /\ \A i \in 1 .. Len(queue) : queue'[i] = queue[i]
         /\ queue'[Len(queue) + 1] = d
         /\ \A i \in 1 .. Len(queue') : i \in 1 .. Len(queue) \/ i = Len(queue) + 1
         /\ \A i \in 1 .. Len(queue) + 1 : i \in 1 .. Len(queue')
<1>1. /\ queue' \in Seq(Dep) /\ Len(queue') = Len(queue) + 1
      /\ \A i \in 1 .. Len(queue) : queue'[i] = queue[i]
      /\ queue'[Len(queue) + 1] = d
  BY AppendProperties
<1>2. Len(queue) \in Nat
  BY LenProperties
<1> QED BY <1>1, <1>2

\* Who pushes, and which row: the one just made by a transaction, or the one
\* that a request has made.
LEMMA Pushes ==
  ASSUME Types, [Next]_vars
  PROVE  \/ UNCHANGED queue
         \/ WaitForJob
         \/ \E d \in 1 .. made' :
              /\ queue' = Append(queue, d)
              /\ \/ \E p \in Project, n \in Name : CreateProject(p, n) /\ d = made'
                 \/ \E r \in Request : AddBuildJob(r) /\ d = request[r].dep
<1> USE DEF rowVars, redisVars
<1>1. ASSUME NEW p \in Project, NEW n \in Name, CreateProject(p, n)
      PROVE  queue' = Append(queue, made') /\ made' \in 1 .. made'
  <2>1. AddRow(p, n, NoDep) /\ queue' = Append(queue, made + 1)
    BY <1>1 DEF CreateProject
  <2> QED BY <2>1, AddRowWrites
<1>2. ASSUME NEW r \in Request, AddBuildJob(r)
      PROVE  queue' = Append(queue, request[r].dep) /\ request[r].dep \in 1 .. made'
  BY <1>2 DEF AddBuildJob, Types, RequestOK
<1>3. ASSUME NEW p \in Project,
             \/ EndTransaction(p) \/ RemoveRead(p) \/ RemovalStep(p)
             \/ RemovalDies(p) \/ \E n \in Name : UpdateName(p, n)
      PROVE  UNCHANGED queue
  BY <1>3 DEF EndTransaction, RemoveRead, RemovalStep, RemoveSignal, RemovePush,
     RemoveDelete, RemovalDies, UpdateName
<1>4. ASSUME NEW r \in Request, RequestStep(r), ~ AddBuildJob(r)
      PROVE  UNCHANGED queue
  BY <1>4 DEF RequestStep, PushSignal, PushOverwrite, CreateRow, CancelWrite,
     CancelPublish, RequestDies
<1>5. FirstCheck \/ MarkBuilding \/ Phases \/ MarkDeploying \/ GetObject
      \/ PutObject \/ MarkReady \/ Supersede \/ FailJob \/ MarkCancelled
      \/ CancelCleanup \/ ClearCancelSignal
        => UNCHANGED queue
  BY DEF FirstCheck, MarkBuilding, Phases, MarkDeploying, GetObject, PutObject,
         MarkReady, Supersede, FailJob, MarkCancelled, CancelCleanup,
         ClearCancelSignal
<1>6. BuildStep => WaitForJob \/ UNCHANGED queue
  BY <1>5 DEF BuildStep
<1>7. CASE ProjectStep
  BY <1>1, <1>3, <1>7 DEF ProjectStep
<1>8. ASSUME NEW r \in Request, RequestStart(r) \/ RequestStep(r)
      PROVE  UNCHANGED queue \/ AddBuildJob(r)
  BY <1>4, <1>8, RequestStartFrame
<1>9. CASE \E r \in Request : RequestStart(r) \/ RequestStep(r)
  BY <1>2, <1>8, <1>9
<1> QED BY <1>6, <1>7, <1>9, CleanupFrame, ExpiryFrame, CrashFrame, StutterFrame
        DEF Next

\* A signal is about a deployment.
LEMMA NextSignal ==
  ASSUME Types, [Next]_vars
  PROVE  signal' \subseteq Dep
<1> USE DEF redisVars
<1>0. signal \subseteq Dep
  BY DEF Types, QueueOK
<1>1. ASSUME NEW p \in Project, RemoveSignal(p) PROVE signal' \subseteq Dep
  <2>1. removal[p].todo \subseteq Dep
    BY DEF Types, RemovalOK, Removal
  <2>2. UNCHANGED signal \/ \E d \in removal[p].todo : signal' = signal \cup {d}
    BY <1>1 DEF RemoveSignal
  <2> QED BY <1>0, <2>1, <2>2
<1>2. ASSUME NEW r \in Request, PushSignal(r) \/ CancelPublish(r)
      PROVE  signal' \subseteq Dep
  BY <1>0, <1>2 DEF PushSignal, CancelPublish, Types, RequestOK
<1>3. ASSUME NEW r \in Request,
             \/ PushOverwrite(r) \/ CreateRow(r) \/ AddBuildJob(r)
             \/ CancelWrite(r) \/ RequestDies(r)
      PROVE  UNCHANGED signal
  BY <1>3 DEF PushOverwrite, CreateRow, AddBuildJob, CancelWrite, RequestDies
<1>4. ASSUME NEW p \in Project,
             \/ EndTransaction(p) \/ RemoveRead(p) \/ RemovePush(p)
             \/ RemoveDelete(p) \/ RemovalDies(p)
             \/ \E n \in Name : CreateProject(p, n) \/ UpdateName(p, n)
      PROVE  UNCHANGED signal
  BY <1>4 DEF EndTransaction, RemoveRead, RemovePush, RemoveDelete, RemovalDies,
     CreateProject, UpdateName
<1>5. BuildStep => signal' \subseteq signal
  BY DEF BuildStep, WaitForJob, FirstCheck, MarkBuilding, Phases, MarkDeploying,
     GetObject, PutObject, MarkReady, Supersede, FailJob, MarkCancelled,
     CancelCleanup, ClearCancelSignal
<1>6. CASE ProjectStep
  BY <1>0, <1>1, <1>4, <1>6 DEF ProjectStep, RemovalStep
<1>7. CASE \E r \in Request : RequestStart(r) \/ RequestStep(r)
  BY <1>0, <1>2, <1>3, <1>7, RequestStartFrame DEF RequestStep
<1> QED BY <1>0, <1>5, <1>6, <1>7, CleanupFrame, ExpiryFrame, CrashFrame,
           StutterFrame DEF Next

\* Only a push and a pop change the list of cleanups.
LEMMA ListSteps ==
  ASSUME [Next]_vars
  PROVE  PopProjectCleanup \/ UNCHANGED cleanups \/ \E q \in Project : RemovePush(q)
<1> USE DEF rowVars, redisVars
<1>1. ASSUME NEW q \in Project,
             \/ EndTransaction(q) \/ RemoveRead(q)
             \/ RemoveSignal(q) \/ RemoveDelete(q) \/ RemovalDies(q)
             \/ \E x \in Name : CreateProject(q, x) \/ UpdateName(q, x)
      PROVE  UNCHANGED cleanups
  BY <1>1 DEF EndTransaction, RemoveRead, RemoveSignal, RemoveDelete,
     RemovalDies, CreateProject, UpdateName
<1>2. CleanupProject => UNCHANGED cleanups
  BY DEF CleanupProject
<1>3. CASE ProjectStep
  BY <1>1, <1>3 DEF ProjectStep, RemovalStep
<1> QED BY <1>2, <1>3, RequestStartFrame, RequestStepFrame, BuildFrame,
           ExpiryFrame, CrashFrame, StutterFrame DEF Next, CleanupStep

LEMMA NextQueue ==
  ASSUME Types, [Next]_vars
  PROVE  QueueOK'
<1>0. /\ queue \in Seq(Dep) /\ cleanups \in Seq(CleanupJob)
      /\ \A i \in 1 .. Len(queue) : queue[i] <= made
      /\ Len(queue) \in Nat /\ made \in Nat /\ made' \in Nat /\ made <= made'
      /\ made' \in 0 .. MaxDep
  BY NextRows, LenProperties, RowsGrow DEF Types, QueueOK, RowsOK
<1>1. ASSUME NEW d \in 1 .. made', queue' = Append(queue, d)
      PROVE  queue' \in Seq(Dep) /\ \A i \in 1 .. Len(queue') : queue'[i] <= made'
  <2>1. d \in Dep /\ d <= made'
    BY <1>0
  <2>2. /\ queue' \in Seq(Dep) /\ queue'[Len(queue) + 1] = d
        /\ \A i \in 1 .. Len(queue) : queue'[i] = queue[i]
        /\ \A i \in 1 .. Len(queue') : i \in 1 .. Len(queue) \/ i = Len(queue) + 1
    BY <1>0, <1>1, <2>1, PushedElements
  <2>3. ASSUME NEW i \in 1 .. Len(queue) PROVE queue'[i] <= made'
    <3>1. queue'[i] = queue[i] /\ queue[i] <= made /\ queue[i] \in Dep
      BY <1>0, <2>2, ElementOfSeq
    <3> QED BY <1>0, <3>1
  <2> QED BY <2>1, <2>2, <2>3
<1>2. ASSUME UNCHANGED queue
      PROVE  queue' \in Seq(Dep) /\ \A i \in 1 .. Len(queue') : queue'[i] <= made'
  <2>1. ASSUME NEW i \in 1 .. Len(queue) PROVE queue[i] <= made'
    <3>1. queue[i] <= made /\ queue[i] \in Dep
      BY <1>0, ElementOfSeq
    <3> QED BY <1>0, <3>1
  <2> QED BY <1>0, <1>2, <2>1
<1>3. ASSUME WaitForJob
      PROVE  queue' \in Seq(Dep) /\ \A i \in 1 .. Len(queue') : queue'[i] <= made'
  <2>1. queue # <<>> /\ queue' = Remaining(queue) /\ UNCHANGED made
    BY <1>3 DEF WaitForJob, rowVars
  <2>2. /\ queue' \in Seq(Dep) /\ Len(queue) \in Nat \ {0}
        /\ Len(queue') = Len(queue) - 1
        /\ \A i \in 1 .. Len(queue) - 1 : queue'[i] = queue[i]
    BY <1>0, <2>1, RemainingElements
  <2>3. ASSUME NEW i \in 1 .. Len(queue') PROVE queue'[i] <= made'
    <3>1. i \in 1 .. Len(queue) - 1 /\ i \in 1 .. Len(queue)
      BY <2>2
    <3> QED BY <1>0, <2>1, <2>2, <3>1
  <2> QED BY <2>2, <2>3
<1>4. cleanups' \in Seq(CleanupJob)
  <2>1. CASE PopProjectCleanup
    BY <1>0, <2>1, HeadTailProperties DEF PopProjectCleanup
  <2>2. ASSUME NEW p \in Project, RemovePush(p)
        PROVE  cleanups' \in Seq(CleanupJob)
    <3> DEFINE job == [project |-> p, name |-> removal[p].name]
    <3>1. cleanups' = Append(cleanups, job) \/ cleanups' = cleanups
      BY <2>2 DEF RemovePush
    <3>2. job \in CleanupJob
      BY <2>2 DEF RemovePush, Types, RemovalOK, CleanupJob
    <3> HIDE DEF job
    <3>3. Append(cleanups, job) \in Seq(CleanupJob)
      BY <1>0, <3>2, AppendProperties
    <3> QED BY <1>0, <3>1, <3>3
  <2> QED BY <1>0, <2>1, <2>2, ListSteps
<1> QED BY <1>1, <1>2, <1>3, <1>4, Pushes, NextSignal DEF QueueOK

LEMMA NextRemoval ==
  ASSUME Types, [Next]_vars
  PROVE  RemovalOK'
<1> USE DEF rowVars
<1>0. /\ removal \in [Project -> Removal] /\ NoRemoval \in Removal
      /\ NoRemoval.pc = "idle"
      /\ \A q \in Project : removal[q].pc # "idle" =>
                              phase[q] = "live" /\ removal[q].name \in Name
  BY DEF Types, RemovalOK, Removal, NoRemoval
<1>1. ASSUME NEW p \in Project, removal' \in [Project -> Removal],
             \A q \in Project \ {p} : removal'[q] = removal[q]
                                      /\ phase'[q] = phase[q],
             removal'[p].pc # "idle" =>
               phase'[p] = "live" /\ removal'[p].name \in Name
      PROVE  RemovalOK'
  BY <1>0, <1>1 DEF RemovalOK
<1>2. ASSUME NEW p \in Project, RemoveRead(p) PROVE RemovalOK'
  <2> DEFINE list == RowsOf(p, Active)
             todo == RowsOf(p, Active \cap InProgress)
             r == [pc |-> IF todo # {} THEN "signal"
                          ELSE IF list # {} THEN "push" ELSE "delete",
                   todo |-> todo, list |-> list, name |-> name[p]]
  <2>1. removal' = [removal EXCEPT ![p] = r] /\ phase[p] = "live"
        /\ UNCHANGED phase
    BY <1>2 DEF RemoveRead
  <2>2. name[p] \in Name
    BY <2>1 DEF Types, RowsOK
  <2>3. r \in Removal /\ r.name \in Name
    BY <2>2 DEF RowsOf, Removal
  <2> HIDE DEF r
  <2> QED BY <1>0, <1>1, <2>1, <2>3
<1>3. ASSUME NEW p \in Project, RemoveSignal(p) PROVE RemovalOK'
  <2>1. CASE removal' = [removal EXCEPT ![p] = NoRemoval]
    <3>1. /\ removal' \in [Project -> Removal] /\ removal'[p].pc = "idle"
          /\ \A q \in Project \ {p} : removal'[q] = removal[q]
      BY <1>0, <2>1
    <3>2. UNCHANGED phase
      BY <1>3 DEF RemoveSignal
    <3> QED BY <1>1, <3>1, <3>2
  <2>2. ASSUME NEW d \in removal[p].todo,
               removal' = [removal EXCEPT
                 ![p].todo = @ \ {d},
                 ![p].pc = IF removal[p].todo = {d} THEN "push" ELSE "signal"]
        PROVE  RemovalOK'
    <3> DEFINE r == [pc |-> IF removal[p].todo = {d} THEN "push" ELSE "signal",
                     todo |-> removal[p].todo \ {d}, list |-> removal[p].list,
                     name |-> removal[p].name]
    <3>1. r \in Removal /\ r.name \in Name /\ phase[p] = "live"
      BY <1>0, <1>3 DEF RemoveSignal, Removal
    <3>2. removal'[p] = r /\ \A q \in Project \ {p} : removal'[q] = removal[q]
      BY <1>0, <2>2 DEF Removal
    <3>3. removal' \in [Project -> Removal]
      BY <1>0, <2>2, <3>1, <3>2
    <3> HIDE DEF r
    <3> QED BY <1>1, <1>3, <3>1, <3>2, <3>3 DEF RemoveSignal
  <2> QED BY <1>3, <2>1, <2>2 DEF RemoveSignal
<1>4. ASSUME NEW p \in Project, RemovePush(p) PROVE RemovalOK'
  <2>1. removal' = [removal EXCEPT ![p].pc = "delete"] /\ UNCHANGED phase
        /\ phase[p] = "live" /\ removal[p].name \in Name
    BY <1>0, <1>4 DEF RemovePush
  <2> DEFINE r == [pc |-> "delete", todo |-> removal[p].todo,
                   list |-> removal[p].list, name |-> removal[p].name]
  <2>2. removal'[p] = r /\ \A q \in Project \ {p} : removal'[q] = removal[q]
    BY <1>0, <2>1 DEF Removal
  <2>3. r \in Removal /\ r.name \in Name
    BY <1>0, <2>1 DEF Removal
  <2>4. removal' \in [Project -> Removal]
    BY <1>0, <2>1, <2>2, <2>3
  <2> HIDE DEF r
  <2> QED BY <1>1, <2>1, <2>2, <2>3, <2>4
<1>5. ASSUME NEW p \in Project, RemoveDelete(p) \/ RemovalDies(p)
      PROVE  RemovalOK'
  <2>1. removal' = [removal EXCEPT ![p] = NoRemoval]
        /\ \A q \in Project \ {p} : phase'[q] = phase[q]
    BY <1>5 DEF RemoveDelete, RemovalDies, Types, RowsOK
  <2> QED BY <1>0, <1>1, <2>1
<1>6. ASSUME NEW p \in Project,
             EndTransaction(p) \/ \E n \in Name : CreateProject(p, n)
      PROVE  RemovalOK'
  <2>1. UNCHANGED removal /\ phase[p] # "live"
        /\ \A q \in Project \ {p} : phase'[q] = phase[q]
    BY <1>6 DEF EndTransaction, CreateProject, Types, RowsOK
  <2> QED BY <1>0, <1>1, <2>1
<1>7. ASSUME NEW p \in Project, NEW n \in Name, UpdateName(p, n)
      PROVE  UNCHANGED <<phase, removal>>
  BY <1>7 DEF UpdateName
<1>8. UNCHANGED <<phase, removal>> => RemovalOK'
  BY <1>0 DEF RemovalOK
<1>9. CASE ProjectStep
  BY <1>2, <1>3, <1>4, <1>5, <1>6, <1>7, <1>8, <1>9 DEF ProjectStep, RemovalStep
<1> QED BY <1>8, <1>9, RequestStartFrame, RequestStepFrame, BuildFrame,
           CleanupFrame, ExpiryFrame, CrashFrame, StutterFrame DEF Next

\* How a request starts: with a project that is there, and its name.
StartsAs(r, x) ==
  /\ request[r].pc = "idle" /\ x.pc \in {"row", "signal", "cancel"}
  /\ x.project \in Project /\ phase[x.project] = "live"
  /\ x.name = name[x.project]
  /\ x.pc \in {"signal", "cancel"} => x.dep \in Dep

\* How it goes on: with what it has read, and the row it has made.
GoesOnAs(r, x) ==
  /\ request[r].pc \notin {"idle", "enqueue"}
  /\ x.project = request[r].project /\ x.name = request[r].name
  /\ \/ /\ x.pc \in {"overwrite", "publish"} /\ x.dep = request[r].dep
        /\ request[r].pc \in {"signal", "cancel"}
     \/ x.pc = "row"
     \/ /\ x.pc = "enqueue" /\ CreateRow(r) /\ x.dep = made + 1
        /\ made' = made + 1

LEMMA RequestMoves ==
  ASSUME Types, NEW r \in Request, RequestStart(r) \/ RequestStep(r)
  PROVE  \E x \in Requests :
           /\ request' = [request EXCEPT ![r] = x]
           /\ x = NoRequest \/ StartsAs(r, x) \/ GoesOnAs(r, x)
<1>0. /\ request[r] \in Requests /\ NoRequest \in Requests
      /\ request[r].pc # "idle" =>
           request[r].project \in Project /\ request[r].name \in Name
      /\ request[r].pc \in {"signal", "overwrite", "cancel", "publish"} =>
           request[r].dep \in Dep
  BY DEF Types, RequestOK, Requests, RequestPc, NoRequest
<1>1. ASSUME NEW pc \in RequestPc, NEW p \in Project, NEW d \in Dep \cup {NoDep},
             NEW prev \in Dep \cup {NoDep}, NEW n \in Name,
             Proceed(r, pc, p, d, prev, n)
      PROVE  \E x \in Requests :
               /\ request' = [request EXCEPT ![r] = x]
               /\ x.pc = pc /\ x.project = p /\ x.dep = d /\ x.name = n
  <2> DEFINE x == [pc |-> pc, project |-> p, dep |-> d, previous |-> prev,
                   name |-> n]
  <2>1. request' = [request EXCEPT ![r] = x]
    BY <1>1 DEF Proceed
  <2>2. x \in Requests /\ x.pc = pc /\ x.project = p /\ x.dep = d /\ x.name = n
    BY DEF Requests
  <2> HIDE DEF x
  <2> QED BY <2>1, <2>2
<1>2. \A p \in Project : phase[p] = "live" => name[p] \in Name
  BY DEF Types, RowsOK
<1>3. {"row", "signal", "cancel", "overwrite", "publish", "enqueue"} \subseteq RequestPc
  BY DEF RequestPc
<1>4. CASE End(r)
  BY <1>0, <1>4 DEF End
<1>5. ASSUME NEW p \in Project, RedeployRead(r, p) \/ PushRead(r, p)
      PROVE  \E x \in Requests : /\ request' = [request EXCEPT ![r] = x]
                                 /\ StartsAs(r, x)
  <2>1. /\ request[r].pc = "idle" /\ phase[p] = "live"
        /\ \E d \in Dep \cup {NoDep}, prev \in Dep \cup {NoDep},
              pc \in {"row", "signal"} :
             /\ Proceed(r, pc, p, d, prev, name[p])
             /\ pc = "signal" => d \in Dep
    BY <1>5 DEF RedeployRead, PushRead, RowsOf
  <2>2. PICK d \in Dep \cup {NoDep}, prev \in Dep \cup {NoDep},
             pc \in {"row", "signal"} :
               /\ Proceed(r, pc, p, d, prev, name[p])
               /\ pc = "signal" => d \in Dep
    BY <2>1
  <2>3. name[p] \in Name /\ pc \in RequestPc
    BY <1>2, <1>3, <2>1
  <2>4. PICK x \in Requests : /\ request' = [request EXCEPT ![r] = x]
                              /\ x.pc = pc /\ x.project = p /\ x.dep = d
                              /\ x.name = name[p]
    BY <1>1, <2>2, <2>3
  <2> QED BY <2>1, <2>2, <2>4 DEF StartsAs
<1>6. ASSUME NEW d \in Dep, CancelRead(r, d)
      PROVE  \E x \in Requests : /\ request' = [request EXCEPT ![r] = x]
                                 /\ StartsAs(r, x)
  <2>1. /\ request[r].pc = "idle" /\ project[d] \in Project
        /\ phase[project[d]] = "live"
        /\ Proceed(r, "cancel", project[d], d, NoDep, name[project[d]])
    BY <1>6 DEF CancelRead, Visible, Types, RowsOK
  <2>2. PICK x \in Requests : /\ request' = [request EXCEPT ![r] = x]
                              /\ x.pc = "cancel" /\ x.project = project[d]
                              /\ x.dep = d /\ x.name = name[project[d]]
    BY <1>1, <1>2, <1>3, <2>1
  <2> QED BY <2>1, <2>2 DEF StartsAs
<1>7. CASE PushSignal(r) \/ PushOverwrite(r) \/ CancelWrite(r)
  <2>1. /\ request[r].pc \in {"signal", "overwrite", "cancel"}
        /\ \/ End(r)
           \/ \E pc \in {"overwrite", "row", "publish"},
                 d \in {request[r].dep, NoDep} :
                /\ Proceed(r, pc, request[r].project, d, NoDep, request[r].name)
                /\ pc # "row" => /\ d = request[r].dep
                                 /\ request[r].pc \in {"signal", "cancel"}
    BY <1>7 DEF PushSignal, PushOverwrite, CancelWrite
  <2>2. ASSUME NEW pc \in {"overwrite", "row", "publish"},
               NEW d \in {request[r].dep, NoDep},
               Proceed(r, pc, request[r].project, d, NoDep, request[r].name),
               pc # "row" => /\ d = request[r].dep
                             /\ request[r].pc \in {"signal", "cancel"}
        PROVE  \E x \in Requests : /\ request' = [request EXCEPT ![r] = x]
                                   /\ GoesOnAs(r, x)
    <3>1. /\ request[r].project \in Project /\ request[r].name \in Name
          /\ d \in Dep \cup {NoDep} /\ pc \in RequestPc
      BY <1>0, <1>3, <2>1
    <3>2. PICK x \in Requests : /\ request' = [request EXCEPT ![r] = x]
                                /\ x.pc = pc /\ x.project = request[r].project
                                /\ x.dep = d /\ x.name = request[r].name
      BY <1>1, <2>2, <3>1
    <3> QED BY <2>1, <2>2, <3>2 DEF GoesOnAs
  <2> QED BY <1>4, <2>1, <2>2
<1>8. CASE CreateRow(r)
  <2>1. ASSUME made' = made + 1,
               AddRow(request[r].project, request[r].name, request[r].previous),
               Proceed(r, "enqueue", request[r].project, made + 1, NoDep,
                       request[r].name)
        PROVE  \E x \in Requests : /\ request' = [request EXCEPT ![r] = x]
                                   /\ GoesOnAs(r, x)
    <3>1. /\ request[r].project \in Project /\ request[r].name \in Name
          /\ request[r].pc = "row" /\ request[r].previous \in Dep \cup {NoDep}
      BY <1>0, <1>8 DEF CreateRow, Requests
    <3>2. made + 1 \in Dep
      BY <2>1, <3>1, AddRowWrites
    <3>3. PICK x \in Requests : /\ request' = [request EXCEPT ![r] = x]
                                /\ x.pc = "enqueue" /\ x.project = request[r].project
                                /\ x.dep = made + 1 /\ x.name = request[r].name
      BY <1>1, <1>3, <2>1, <3>1, <3>2
    <3> QED BY <1>8, <2>1, <3>1, <3>3 DEF GoesOnAs
  <2> QED BY <1>4, <1>8, <2>1 DEF CreateRow, AddRow
<1>9. CASE AddBuildJob(r) \/ CancelPublish(r) \/ RequestDies(r)
  BY <1>4, <1>9 DEF AddBuildJob, CancelPublish, RequestDies
<1> QED BY <1>5, <1>6, <1>7, <1>8, <1>9 DEF RequestStart, RequestStep

\* A step of the specification is one of a request, or none of them moves.
LEMMA RequestSteps ==
  ASSUME [Next]_vars
  PROVE  \/ UNCHANGED request
         \/ \E r \in Request : RequestStart(r) \/ RequestStep(r)
  BY ProjectFrame, BuildFrame, CleanupFrame, ExpiryFrame, CrashFrame,
     StutterFrame DEF Next

LEMMA NextRequest ==
  ASSUME Types, [Next]_vars
  PROVE  RequestOK'
<1>0. /\ request \in [Request -> Requests] /\ made \in Nat /\ made' \in Nat
      /\ made <= made' /\ \A d \in 1 .. made : d \in 1 .. made'
  BY RowsGrow DEF Types, RequestOK
<1> DEFINE Fine(q) ==
      /\ request[q].pc # "idle" =>
           request[q].project \in Project /\ request[q].name \in Name
      /\ request[q].pc \in {"signal", "overwrite", "cancel", "publish"} =>
           request[q].dep \in Dep
      /\ request[q].pc = "enqueue" => request[q].dep \in 1 .. made
<1>1. \A q \in Request : Fine(q)
  BY DEF Types, RequestOK
<1>2. ASSUME NEW q \in Request, request'[q] = request[q] PROVE Fine(q)'
  BY <1>0, <1>1, <1>2
<1>3. ASSUME NEW r \in Request, RequestStart(r) \/ RequestStep(r),
             NEW x \in Requests, request' = [request EXCEPT ![r] = x],
             x = NoRequest \/ StartsAs(r, x) \/ GoesOnAs(r, x)
      PROVE  RequestOK'
  <2>1. /\ request' \in [Request -> Requests] /\ request'[r] = x
        /\ \A q \in Request \ {r} : request'[q] = request[q]
    BY <1>0, <1>3
  <2>2. CASE x = NoRequest
    <3>1. Fine(r)'
      BY <2>1, <2>2 DEF NoRequest
    <3> QED BY <1>2, <2>1, <3>1 DEF RequestOK
  <2>3. CASE StartsAs(r, x)
    <3>1. name[x.project] \in Name
      BY <2>3 DEF StartsAs, Types, RowsOK
    <3>2. Fine(r)'
      BY <2>1, <2>3, <3>1 DEF StartsAs
    <3> QED BY <1>2, <2>1, <3>2 DEF RequestOK
  <2>4. CASE GoesOnAs(r, x)
    <3>1. /\ x.project \in Project /\ x.name \in Name
          /\ x.pc \in {"signal", "overwrite", "cancel", "publish"} => x.dep \in Dep
      BY <1>1, <2>4 DEF GoesOnAs
    <3>2. x.pc = "enqueue" => x.dep \in 1 .. made'
      BY <1>0, <2>4 DEF GoesOnAs
    <3>3. Fine(r)'
      BY <2>1, <3>1, <3>2
    <3> QED BY <1>2, <2>1, <3>3 DEF RequestOK
  <2> QED BY <1>3, <2>2, <2>3, <2>4
<1>4. ASSUME UNCHANGED request PROVE RequestOK'
  BY <1>0, <1>2, <1>4 DEF RequestOK
<1>5. ASSUME NEW r \in Request, RequestStart(r) \/ RequestStep(r) PROVE RequestOK'
  BY <1>3, <1>5, RequestMoves
<1> QED BY <1>4, <1>5, RequestSteps

LEMMA NextLoop ==
  ASSUME Types, [Next]_vars
  PROVE  LoopOK'
<1>0. /\ made \in Nat /\ wjob \in Dep \cup {NoDep} /\ wjob <= made
      /\ wkind \in 0 .. NumKind + 1 /\ wsaw \in BOOLEAN
      /\ (wpc = "idle") = (wjob = NoDep)
      /\ wpc \in {"get", "put", "tear"} => wkind \in Kind
      /\ made' \in Nat /\ made <= made'
      /\ 0 \in 0 .. NumKind + 1
  BY RowsGrow DEF Types, LoopOK
<1>1. ASSUME UNCHANGED <<wpc, wjob, wkind, wsaw>> PROVE LoopOK'
  <2>1. wpc' = wpc /\ wjob' = wjob /\ wkind' = wkind /\ wsaw' = wsaw
    BY <1>1
  <2>2. wjob' <= made'
    BY <1>0, <2>1
  <2> QED BY <2>1, <2>2 DEF LoopOK, Types
<1>2. ASSUME Stop PROVE LoopOK'
  <2>1. wpc' = "idle" /\ wjob' = 0 /\ wkind' = 0 /\ wsaw' = FALSE
    BY <1>2 DEF Stop
  <2>2. 0 <= made'
    BY <1>0
  <2> QED BY <1>0, <2>1, <2>2 DEF LoopOK
\* The job stays, and the loop goes on with it.
<1>3. ASSUME wpc # "idle", UNCHANGED wjob,
             wpc' \in {"check", "building", "phases", "deploying", "get", "put",
                       "ready", "supersede", "fail", "cancelled", "tear", "clear"},
             wkind' \in 0 .. NumKind + 1, wsaw' \in BOOLEAN,
             wpc' \in {"get", "put", "tear"} => wkind' \in Kind
      PROVE  LoopOK'
  BY <1>0, <1>3 DEF LoopOK
<1>4. CASE WaitForJob
  <2>1. queue # <<>> /\ queue \in Seq(Dep) /\ wjob' = queue[Len(queue)]
        /\ wpc' = "check" /\ wkind' = 0 /\ wsaw' = FALSE
        /\ \A i \in 1 .. Len(queue) : queue[i] <= made
    BY <1>4 DEF WaitForJob, Types, QueueOK
  <2>2. Len(queue) \in 1 .. Len(queue)
    BY <2>1, EmptySeq, LenProperties
  <2>3. wjob' \in Dep /\ wjob' <= made
    BY <2>1, <2>2, ElementOfSeq
  <2>4. wjob' <= made' /\ wjob' # NoDep
    BY <1>0, <2>3
  <2> QED BY <1>0, <2>1, <2>3, <2>4 DEF LoopOK
<1>5. CASE FirstCheck \/ Phases
  <2>1. /\ wpc \in {"check", "phases"} /\ UNCHANGED <<wjob, wkind, wsaw>>
        /\ wpc' \in {"cancelled", "building", "deploying", "fail"}
    BY <1>5 DEF FirstCheck, Phases, CheckCancelled
  <2> QED BY <1>0, <1>3, <2>1
<1>6. CASE MarkBuilding \/ MarkDeploying
  <2>1. /\ UNCHANGED <<wjob, wsaw>> /\ wkind' \in {wkind, 1}
        /\ wpc \in {"building", "deploying"}
        /\ \/ wpc' \in {"phases", "fail"}
           \/ wpc' = "get" /\ wkind' = 1
    BY <1>6 DEF MarkBuilding, MarkDeploying, StatusCall
  <2>2. 1 \in Kind /\ 1 \in 0 .. NumKind + 1
    OBVIOUS
  <2> QED BY <1>0, <1>3, <2>1, <2>2
<1>7. CASE GetObject
  <2>1. /\ UNCHANGED <<wjob, wkind>> /\ wpc = "get" /\ wpc' \in {"put", "fail"}
        /\ wsaw' \in BOOLEAN
    BY <1>0, <1>7 DEF GetObject
  <2> QED BY <1>0, <1>3, <2>1
<1>8. CASE PutObject
  <2>1. /\ wpc = "put" /\ UNCHANGED <<wjob, wsaw>>
        /\ wpc' \in {AfterPut(TRUE), AfterPut(FALSE)}
        /\ wkind' = IF wpc' = "get" THEN wkind + 1 ELSE wkind
    BY <1>8 DEF PutObject
  <2>2. /\ wpc' \in {"get", "ready", "fail"}
        /\ wpc' = "get" => wkind # NumKind
    BY <2>1 DEF AfterPut
  <2>3. wkind \in Kind
    BY <1>0, <2>1
  <2>4. /\ wkind' \in 0 .. NumKind + 1
        /\ wpc' \in {"get", "put", "tear"} => wkind' \in Kind
    BY <2>1, <2>2, <2>3
  <2> QED BY <1>0, <1>3, <2>1, <2>2, <2>4
<1>9. CASE MarkReady
  <2>1. CASE wpc' \in {"fail", "supersede"} /\ UNCHANGED <<wjob, wkind, wsaw>>
    BY <1>0, <1>3, <1>9, <2>1 DEF MarkReady
  <2> QED BY <1>2, <1>9, <2>1 DEF MarkReady
<1>10. CASE Supersede \/ FailJob \/ ClearCancelSignal \/ WorkerCrash
  BY <1>2, <1>10 DEF Supersede, FailJob, ClearCancelSignal, WorkerCrash
<1>11. CASE MarkCancelled
  <2>1. /\ wpc = "cancelled" /\ wpc' = "tear" /\ wkind' = NumKind
        /\ UNCHANGED <<wjob, wsaw>>
    BY <1>11 DEF MarkCancelled
  <2>2. NumKind \in Kind /\ NumKind \in 0 .. NumKind + 1
    OBVIOUS
  <2> QED BY <1>0, <1>3, <2>1, <2>2
<1>12. CASE CancelCleanup
  <2>1. /\ wpc = "tear" /\ wkind' = wkind - 1 /\ UNCHANGED <<wjob, wsaw>>
        /\ wpc' = IF wkind = 1 THEN "clear" ELSE "tear"
    BY <1>12 DEF CancelCleanup
  <2>2. wkind \in Kind
    BY <1>0, <2>1
  <2>3. /\ wkind' \in 0 .. NumKind + 1 /\ wpc' \in {"tear", "clear"}
        /\ wpc' = "tear" => wkind' \in Kind
    BY <2>1, <2>2
  <2> QED BY <1>0, <1>3, <2>1, <2>3
<1> QED BY <1>1, <1>4, <1>5, <1>6, <1>7, <1>8, <1>9, <1>10, <1>11, <1>12,
           ProjectFrame, RequestStartFrame, RequestStepFrame, CleanupFrame,
           ExpiryFrame, StutterFrame DEF Next, BuildStep

LEMMA NextCleaner ==
  ASSUME Types, [Next]_vars
  PROVE  CleanerOK'
<1>1. UNCHANGED <<cpc, cjob, ckind>> => CleanerOK'
  BY DEF Types, CleanerOK
<1>2. cpc' = "idle" /\ cjob' = NoCleanup /\ ckind' = 0 => CleanerOK'
  BY DEF CleanerOK
<1>3. CASE PopProjectCleanup
  <2>1. /\ cleanups \in Seq(CleanupJob) /\ cleanups # <<>>
        /\ cjob' = Head(cleanups) /\ cpc' = "delete" /\ ckind' = NumKind
    BY <1>3 DEF PopProjectCleanup, Types, QueueOK
  <2>2. cjob' \in CleanupJob
    BY <2>1, HeadTailProperties
  <2> QED BY <2>1, <2>2 DEF CleanerOK
<1>4. CASE CleanupProject
  <2>1. CASE CleanupEnds
    BY <1>2, <1>4, <2>1 DEF CleanupProject
  <2>2. CASE ~ CleanupEnds
    <3>1. /\ cpc = "delete" /\ ckind \in Kind /\ ckind # 1
          /\ ckind' = ckind - 1 /\ UNCHANGED <<cpc, cjob>>
      BY <1>4, <2>2 DEF CleanupProject, CleanupEnds, Types, CleanerOK
    <3>2. ckind' \in Kind /\ ckind' \in 0 .. NumKind
      BY <3>1
    <3> QED BY <3>1, <3>2 DEF CleanerOK, Types
  <2> QED BY <2>1, <2>2
<1>5. CASE WorkerCrash
  BY <1>2, <1>5 DEF WorkerCrash
<1> QED BY <1>1, <1>3, <1>4, <1>5, ProjectFrame, RequestStartFrame,
           RequestStepFrame, BuildFrame, ExpiryFrame, StutterFrame
        DEF Next, CleanupStep

LEMMA NextExpiry ==
  ASSUME Types, [Next]_vars
  PROVE  ExpiryOK'
<1> USE DEF expiryVars
<1>0. /\ epc \in {"idle", "delete", "mark"} /\ elist \subseteq ExpiryJob
      /\ ecur \in ExpiryJob \cup {NoExpiry} /\ ekind \in 0 .. NumKind
      /\ epc # "idle" => ecur \in ExpiryJob
      /\ epc = "delete" => ekind \in Kind
  BY DEF Types, ExpiryOK
<1>1. UNCHANGED <<epc, elist, ecur, ekind>> => ExpiryOK'
  BY <1>0 DEF ExpiryOK
<1>2. CASE ExpiryFetch
  <2>1. PICK cut \in [Project -> 0 .. MaxDep] :
          elist' = {[dep |-> d, name |-> name[project[d]]] : d \in Expired(cut)}
    BY <1>2 DEF ExpiryFetch
  <2>2. ASSUME NEW d \in Expired(cut)
        PROVE  [dep |-> d, name |-> name[project[d]]] \in ExpiryJob
    <3>1. d \in Dep /\ project[d] \in Project /\ phase[project[d]] = "live"
      BY DEF Expired, Visible, Types, RowsOK
    <3>2. name[project[d]] \in Name
      BY <3>1 DEF Types, RowsOK
    <3> QED BY <3>1, <3>2 DEF ExpiryJob
  <2>3. elist' \subseteq ExpiryJob /\ UNCHANGED <<epc, ecur, ekind>>
    BY <1>2, <2>1, <2>2 DEF ExpiryFetch
  <2> QED BY <1>0, <2>3 DEF ExpiryOK
<1>3. CASE ExpiryNext
  BY <1>0, <1>3 DEF ExpiryNext, ExpiryOK
<1>4. CASE ExpiryCleanup
  <2>1. /\ epc = "delete" /\ ekind \in Kind /\ ekind' = ekind - 1
        /\ epc' = IF ekind = 1 THEN "mark" ELSE "delete"
        /\ UNCHANGED <<elist, ecur>>
    BY <1>0, <1>4 DEF ExpiryCleanup
  <2>2. ekind' \in 0 .. NumKind /\ (epc' = "delete" => ekind' \in Kind)
    BY <2>1
  <2> QED BY <1>0, <2>1, <2>2 DEF ExpiryOK
<1>5. CASE ExpiryMark
  BY <1>0, <1>5 DEF ExpiryMark, ExpiryOK
<1>6. CASE WorkerCrash
  BY <1>6 DEF WorkerCrash, ExpiryOK
<1> QED BY <1>1, <1>2, <1>3, <1>4, <1>5, <1>6, ProjectFrame, RequestStartFrame,
           RequestStepFrame, BuildFrame, CleanupFrame, StutterFrame
        DEF Next, ExpiryStep

\* The job in hand has its project and a name in the cluster.
LEMMA JobInHand ==
  ASSUME Types, wpc # "idle"
  PROVE  /\ wjob \in Dep /\ wjob \in 1 .. made /\ project[wjob] \in Project
         /\ jobName[wjob] \in Name /\ Target \in K8sName
<1>1. wjob \in Dep /\ wjob \in 1 .. made
  BY DEF Types, LoopOK, RowsOK
<1>2. project[wjob] \in Project /\ jobName[wjob] \in Name
  BY <1>1 DEF Types, RowsOK
<1> QED BY <1>1, <1>2 DEF Target

LEMMA DeleteObjectTypes ==
  ASSUME Types, NEW n \in K8sName, NEW k \in Kind, DeleteObject(n, k)
  PROVE  /\ ObjectsOK' /\ excused' \subseteq Project
         /\ \A m \in K8sName, j \in Kind :
              object'[m][j] \in {object[m][j], NoProject}
<1>1. object[n][k] \in Project \cup {NoProject}
  BY DEF Types, ObjectsOK
<1>2. object' = [object EXCEPT ![n][k] = NoProject] \/ UNCHANGED object
  BY DEF DeleteObject
<1>3. \A m \in K8sName, j \in Kind : object'[m][j] \in {object[m][j], NoProject}
  BY <1>2 DEF Types, ObjectsOK
<1>4. ObjectsOK'
  <2>1. CASE object' = [object EXCEPT ![n][k] = NoProject]
    BY <2>1 DEF Types, ObjectsOK
  <2>2. CASE UNCHANGED object
    BY <2>2 DEF Types, ObjectsOK
  <2> QED BY <1>2, <2>1, <2>2
<1>5. excused' \subseteq Project
  BY <1>1 DEF DeleteObject, Types, GhostsOK
<1> QED BY <1>3, <1>4, <1>5

LEMMA TearDownTypes ==
  ASSUME Types, NEW p \in Project \cup {NoProject}, NEW n \in K8sName,
         NEW k \in Kind, TearDown(p, n, k)
  PROVE  /\ ObjectsOK' /\ torn \subseteq torn' /\ torn' \subseteq Dep
         /\ \A m \in K8sName, j \in Kind :
              \/ object'[m][j] = object[m][j]
              \/ /\ m = n /\ j = k /\ object'[m][j] = NoProject
                 /\ object[m][j] = p => Served(p, m, j) \subseteq torn'
<1>0. object \in [K8sName -> [Kind -> Project \cup {NoProject}]] /\ torn \subseteq Dep
  BY DEF Types, ObjectsOK, GhostsOK
<1>1. CASE UNCHANGED <<object, torn>>
  BY <1>0, <1>1 DEF ObjectsOK
<1>2. CASE /\ object' = [object EXCEPT ![n][k] = NoProject]
           /\ torn' = IF object[n][k] = p THEN torn \cup Served(p, n, k) ELSE torn
  <2>1. ObjectsOK'
    BY <1>0, <1>2 DEF ObjectsOK
  <2>2. Served(p, n, k) \subseteq Dep
    BY DEF Served
  <2>3. torn \subseteq torn' /\ torn' \subseteq Dep
        /\ (object[n][k] = p => Served(p, n, k) \subseteq torn')
    BY <1>0, <1>2, <2>2
  <2>4. ASSUME NEW m \in K8sName, NEW j \in Kind
        PROVE  \/ object'[m][j] = object[m][j]
               \/ m = n /\ j = k /\ object'[m][j] = NoProject
    BY <1>0, <1>2
  <2> QED BY <2>1, <2>3, <2>4
<1> QED BY <1>1, <1>2 DEF TearDown

\* What the cleanup goroutine and the expiry goroutine delete.
LEMMA CleanupInHand ==
  ASSUME Types, cpc = "delete"
  PROVE  k8sNameOf[cjob.name] \in K8sName /\ ckind \in Kind
  BY DEF Types, CleanerOK, CleanupJob

LEMMA ExpiryInHand ==
  ASSUME Types, epc = "delete"
  PROVE  /\ k8sNameOf[ecur.name] \in K8sName /\ ekind \in Kind
         /\ project[ecur.dep] \in Project \cup {NoProject}
  BY DEF Types, ExpiryOK, ExpiryJob, RowsOK

\* Four steps write objects: one creates or updates, three delete.
ObjectWritten(n, k) ==
  \/ object'[n][k] = object[n][k]
  \/ /\ PutObject /\ Put /\ wpc = "put" /\ n = Target /\ k = wkind
     /\ object'[n][k] = project[wjob]
  \/ /\ CancelCleanup /\ wpc = "tear" /\ n = Target /\ k = wkind
     /\ object'[n][k] = NoProject
     /\ object[n][k] = project[wjob] => Served(project[wjob], n, k) \subseteq torn'
  \/ /\ ExpiryCleanup /\ epc = "delete" /\ n = k8sNameOf[ecur.name] /\ k = ekind
     /\ object'[n][k] = NoProject
     /\ object[n][k] = project[ecur.dep]
          => Served(project[ecur.dep], n, k) \subseteq torn'
  \/ /\ CleanupProject /\ cpc = "delete" /\ n = k8sNameOf[cjob.name] /\ k = ckind
     /\ object'[n][k] = NoProject

LEMMA NextObjects ==
  ASSUME Types, [Next]_vars
  PROVE  /\ ObjectsOK' /\ torn' \subseteq Dep /\ torn \subseteq torn'
         /\ \A n \in K8sName, k \in Kind : ObjectWritten(n, k)
<1> DEFINE Goal == /\ ObjectsOK' /\ torn' \subseteq Dep /\ torn \subseteq torn'
                   /\ \A n \in K8sName, k \in Kind : ObjectWritten(n, k)
<1>0. /\ object \in [K8sName -> [Kind -> Project \cup {NoProject}]]
      /\ torn \subseteq Dep
  BY DEF Types, ObjectsOK, GhostsOK
<1>1. UNCHANGED <<object, torn>> => Goal
  BY <1>0 DEF ObjectsOK, ObjectWritten
<1>2. ASSUME CancelCleanup PROVE Goal
  <2>1. wpc = "tear" /\ TearDown(project[wjob], Target, wkind)
    BY <1>2 DEF CancelCleanup
  <2>2. Target \in K8sName /\ wkind \in Kind
        /\ project[wjob] \in Project \cup {NoProject}
    BY <2>1, JobInHand DEF Types, LoopOK
  <2>3. /\ ObjectsOK' /\ torn \subseteq torn' /\ torn' \subseteq Dep
        /\ \A m \in K8sName, j \in Kind :
             \/ object'[m][j] = object[m][j]
             \/ /\ m = Target /\ j = wkind
                /\ object'[m][j] = NoProject
                /\ object[m][j] = project[wjob]
                     => Served(project[wjob], m, j) \subseteq torn'
    BY <2>1, <2>2, TearDownTypes
  <2>4. ASSUME NEW n \in K8sName, NEW k \in Kind PROVE ObjectWritten(n, k)
    BY <1>2, <2>1, <2>3 DEF ObjectWritten
  <2> QED BY <2>3, <2>4
<1>3. ASSUME ExpiryCleanup PROVE Goal
  <2>1. epc = "delete" /\ TearDown(project[ecur.dep], k8sNameOf[ecur.name], ekind)
    BY <1>3 DEF ExpiryCleanup
  <2>2. k8sNameOf[ecur.name] \in K8sName /\ ekind \in Kind
        /\ project[ecur.dep] \in Project \cup {NoProject}
    BY <2>1, ExpiryInHand
  <2>3. /\ ObjectsOK' /\ torn \subseteq torn' /\ torn' \subseteq Dep
        /\ \A m \in K8sName, j \in Kind :
             \/ object'[m][j] = object[m][j]
             \/ /\ m = k8sNameOf[ecur.name] /\ j = ekind
                /\ object'[m][j] = NoProject
                /\ object[m][j] = project[ecur.dep]
                     => Served(project[ecur.dep], m, j) \subseteq torn'
    BY <2>1, <2>2, TearDownTypes
  <2>4. ASSUME NEW n \in K8sName, NEW k \in Kind PROVE ObjectWritten(n, k)
    BY <1>3, <2>1, <2>3 DEF ObjectWritten
  <2> QED BY <2>3, <2>4
<1>4. ASSUME CleanupProject PROVE Goal
  <2>1. cpc = "delete" /\ DeleteObject(k8sNameOf[cjob.name], ckind)
        /\ UNCHANGED torn
    BY <1>4 DEF CleanupProject
  <2>2. k8sNameOf[cjob.name] \in K8sName /\ ckind \in Kind
    BY <2>1, CleanupInHand
  <2>3. ObjectsOK'
    BY <2>1, <2>2, DeleteObjectTypes
  <2>4. ASSUME NEW n \in K8sName, NEW k \in Kind,
               object'[n][k] # object[n][k]
        PROVE  n = k8sNameOf[cjob.name] /\ k = ckind /\ object'[n][k] = NoProject
    <3>1. object' = [object EXCEPT ![k8sNameOf[cjob.name]][ckind] = NoProject]
      BY <2>1, <2>4 DEF DeleteObject
    <3> QED BY <1>0, <2>2, <2>4, <3>1
  <2> QED BY <1>0, <1>4, <2>1, <2>3, <2>4 DEF ObjectWritten
<1>5. ASSUME PutObject PROVE Goal
  <2>1. wpc = "put" /\ UNCHANGED torn /\ (Put \/ UNCHANGED object)
    BY <1>5 DEF PutObject
  <2>2. Target \in K8sName /\ wkind \in Kind /\ project[wjob] \in Project
    BY <2>1, JobInHand DEF Types, LoopOK
  <2>3. CASE Put
    <3>1. object' = [object EXCEPT ![Target][wkind] = project[wjob]]
      BY <2>3 DEF Put
    <3>2. ObjectsOK'
      BY <1>0, <2>2, <3>1 DEF ObjectsOK
    <3>3. ASSUME NEW n \in K8sName, NEW k \in Kind, object'[n][k] # object[n][k]
          PROVE  n = Target /\ k = wkind /\ object'[n][k] = project[wjob]
      BY <1>0, <2>2, <3>1, <3>3
    <3> QED BY <1>0, <1>5, <2>1, <2>3, <3>2, <3>3 DEF ObjectWritten
  <2>4. CASE UNCHANGED object
    BY <1>1, <2>1, <2>4
  <2> QED BY <2>1, <2>3, <2>4
<1>6. WaitForJob \/ FirstCheck \/ MarkBuilding \/ Phases \/ MarkDeploying
      \/ GetObject \/ MarkReady \/ Supersede \/ FailJob \/ MarkCancelled
      \/ ClearCancelSignal
        => UNCHANGED <<object, torn>>
  BY DEF WaitForJob, FirstCheck, MarkBuilding, Phases, MarkDeploying, GetObject,
     MarkReady, Supersede, FailJob, MarkCancelled, ClearCancelSignal, ghostVars
<1>7. PopProjectCleanup \/ ExpiryFetch \/ ExpiryNext \/ ExpiryMark
        => UNCHANGED <<object, torn>>
  BY DEF PopProjectCleanup, ExpiryFetch, ExpiryNext, ExpiryMark, ghostVars
<1> HIDE DEF Goal
<1>8. Goal
  BY <1>1, <1>2, <1>3, <1>4, <1>5, <1>6, <1>7, ProjectFrame, RequestStartFrame,
     RequestStepFrame, CrashFrame, StutterFrame
     DEF Next, BuildStep, CleanupStep, ExpiryStep
<1> QED BY <1>8 DEF Goal

\* Names are added to a project's, and nothing of the histories is taken back.
LEMMA NextGhosts ==
  ASSUME Types, [Next]_vars
  PROVE  GhostsOK' /\ dropped \subseteq dropped' /\ removing \subseteq removing'
         /\ excused \subseteq excused'
<1> USE DEF ghostVars
<1>0. /\ held \in [Project -> SUBSET K8sName] /\ removing \subseteq Project
      /\ dropped \subseteq Dep /\ excused \subseteq Project
      /\ torn' \subseteq Dep
  BY NextObjects DEF Types, GhostsOK
<1> DEFINE Goal == /\ GhostsOK' /\ dropped \subseteq dropped'
                   /\ removing \subseteq removing' /\ excused \subseteq excused'
<1>1. ASSUME held' \in [Project -> SUBSET K8sName], UNCHANGED dropped,
             \E p \in Project : removing' \in {removing, removing \cup {p}},
             \E p \in Project : excused' \in {excused, excused \cup {p}}
      PROVE  Goal
  BY <1>0, <1>1 DEF GhostsOK
<1>2. ASSUME NEW p \in Project, NEW n \in Name,
             CreateProject(p, n) \/ UpdateName(p, n)
      PROVE  Goal
  <2>1. k8sNameOf[n] \in K8sName /\ UNCHANGED <<removing, dropped>>
        /\ held' \in [Project -> SUBSET K8sName]
        /\ excused' \in {excused, excused \cup {p}}
    BY <1>0, <1>2 DEF CreateProject, UpdateName
  <2> QED BY <1>1, <2>1
<1>3. ASSUME NEW p \in Project,
             EndTransaction(p) \/ RemoveRead(p) \/ RemovalStep(p) \/ RemovalDies(p)
      PROVE  Goal
  <2>1. /\ UNCHANGED <<held, dropped>> /\ removing' \in {removing, removing \cup {p}}
        /\ excused' \in {excused, excused \cup {p}}
    BY <1>3 DEF EndTransaction, RemoveRead, RemovalStep, RemoveSignal, RemovePush,
       RemoveDelete, RemovalDies
  <2> QED BY <1>0, <1>1, <2>1
\* The worker's steps and those of requests.
<1>4. ASSUME UNCHANGED <<held, removing>>, dropped \subseteq dropped',
             dropped' \subseteq Dep, excused \subseteq excused',
             excused' \subseteq Project
      PROVE  Goal
  BY <1>0, <1>4 DEF GhostsOK
<1>5. wjob \in Dep \cup {NoDep} /\ (wpc # "idle" => wjob \in Dep)
      /\ (wpc # "idle" => project[wjob] \in Project)
  BY JobInHand DEF Types, LoopOK
<1>6. ASSUME FailJob \/ MarkCancelled PROVE Goal
  <2>1. wjob \in Dep /\ dropped' \in {dropped, dropped \cup {wjob}}
        /\ UNCHANGED <<held, removing, excused>>
    BY <1>5, <1>6 DEF FailJob, MarkCancelled
  <2> QED BY <1>0, <1>4, <2>1
<1>7. ASSUME PutObject PROVE Goal
  <2>1. project[wjob] \in Project /\ UNCHANGED <<held, removing, dropped>>
        /\ excused' \in {excused, excused \cup {project[wjob]}}
    BY <1>5, <1>7 DEF PutObject, Put
  <2> QED BY <1>0, <1>4, <2>1
<1>8. ASSUME CleanupProject PROVE Goal
  <2>1. k8sNameOf[cjob.name] \in K8sName /\ ckind \in Kind
    BY <1>8, CleanupInHand DEF CleanupProject
  <2>2. /\ DeleteObject(k8sNameOf[cjob.name], ckind)
        /\ UNCHANGED <<held, removing, dropped>>
    BY <1>8 DEF CleanupProject
  <2>3. excused' \subseteq Project
    BY <2>1, <2>2, DeleteObjectTypes
  <2>4. excused \subseteq excused'
    BY <2>2 DEF DeleteObject
  <2> QED BY <1>0, <1>4, <2>2, <2>3, <2>4
<1>9. ASSUME WorkerCrash PROVE Goal
  <2>1. cjob.project \in Project \cup {NoProject}
    BY DEF Types, CleanerOK, CleanupJob, NoCleanup
  <2>2. /\ dropped' = dropped \cup ({wjob} \ {NoDep})
        /\ excused' = excused \cup ({cjob.project} \ {NoProject})
        /\ UNCHANGED <<held, removing>>
    BY <1>9 DEF WorkerCrash
  <2>3. /\ dropped \subseteq dropped' /\ dropped' \subseteq Dep
        /\ excused \subseteq excused' /\ excused' \subseteq Project
    BY <1>0, <1>5, <2>1, <2>2
  <2> QED BY <1>4, <2>2, <2>3
<1>10. ASSUME NEW r \in Request, RequestStep(r)
       PROVE  dropped' \subseteq Dep /\ dropped \subseteq dropped'
  <2>1. CASE RequestDies(r)
    <3>1. request[r].pc = "enqueue" => request[r].dep \in Dep
      BY DEF Types, RequestOK, RowsOK
    <3> QED BY <1>0, <2>1, <3>1 DEF RequestDies
  <2>2. PushSignal(r) \/ PushOverwrite(r) \/ CreateRow(r) \/ AddBuildJob(r)
        \/ CancelWrite(r) \/ CancelPublish(r)
          => UNCHANGED dropped
    BY DEF PushSignal, PushOverwrite, CreateRow, AddBuildJob, CancelWrite,
       CancelPublish
  <2> QED BY <1>0, <1>10, <2>1, <2>2 DEF RequestStep
<1>11. ASSUME NEW r \in Request, RequestStart(r) \/ RequestStep(r) PROVE Goal
  BY <1>0, <1>4, <1>10, <1>11, RequestStartFrame, RequestStepFrame
<1>12. UNCHANGED <<held, removing, dropped, excused>> => Goal
  BY <1>0, <1>4
<1>13. WaitForJob \/ FirstCheck \/ MarkBuilding \/ Phases \/ MarkDeploying
      \/ GetObject \/ MarkReady \/ Supersede \/ CancelCleanup
      \/ ClearCancelSignal \/ PopProjectCleanup
        => UNCHANGED <<held, removing, dropped, excused>>
  BY DEF WaitForJob, FirstCheck, MarkBuilding, Phases, MarkDeploying, GetObject,
     MarkReady, Supersede, CancelCleanup, ClearCancelSignal, PopProjectCleanup
<1> HIDE DEF Goal
<1>14. Goal
  BY <1>2, <1>3, <1>6, <1>7, <1>8, <1>9, <1>11, <1>12, <1>13, ExpiryFrame,
     StutterFrame DEF Next, BuildStep, CleanupStep, ProjectStep
<1> QED BY <1>14 DEF Goal

LEMMA NextTypes == Types /\ [Next]_vars => Types'
  BY NextRows, NextQueue, NextRemoval, NextRequest, NextLoop, NextCleaner,
     NextExpiry, NextObjects, NextGhosts DEF Types

LEMMA TypesAlways == Spec => []Types
  BY InitTypes, NextTypes, PTL DEF Spec

\* Type correctness: in particular every object that exists is labelled with a
\* project, and every cleanup job names one.
THEOREM LifecycleTypeCorrect == Spec => []TypeOK
<1>1. Types => TypeOK
  BY DEF Types, TypeOK, RowsOK, QueueOK, RemovalOK, Removal, RequestOK, Requests,
     LoopOK, CleanerOK, ExpiryOK, ObjectsOK, GhostsOK, Status, Ended
<1> QED BY <1>1, TypesAlways, PTL

-----------------------------------------------------------------------------
(* Only builds of committed projects get as far as Deploy. *)

Kept == {"live", "gone"}

\* Phases of the loop that a build reaches by a status call that found its row.
Committed ==
  wpc \in {"phases", "deploying", "get", "put", "ready"} =>
    phase[project[wjob]] \in Kept

\* A project that is committed remains so.
LEMMA CommittedForEver ==
  ASSUME Types, [Next]_vars
  PROVE  \A p \in Project : phase[p] \in Kept => phase'[p] \in Kept
<1> USE DEF rowVars
<1>0. phase \in [Project -> {"none", "open", "live", "gone", "aborted"}]
  BY DEF Types, RowsOK
<1>1. ASSUME NEW p \in Project,
             \/ EndTransaction(p) \/ RemoveDelete(p)
             \/ \E n \in Name : CreateProject(p, n)
      PROVE  \A q \in Project : phase[q] \in Kept => phase'[q] \in Kept
  <2>1. /\ \E s \in {"open", "live", "aborted", "gone"} :
             phase' = [phase EXCEPT ![p] = s]
        /\ phase[p] \notin Kept \/ phase' = [phase EXCEPT ![p] = "gone"]
    BY <1>1 DEF EndTransaction, RemoveDelete, CreateProject, Kept
  <2> QED BY <1>0, <2>1 DEF Kept
<1>2. ASSUME NEW p \in Project,
             \/ RemoveRead(p) \/ RemoveSignal(p) \/ RemovePush(p)
             \/ RemovalDies(p) \/ \E n \in Name : UpdateName(p, n)
      PROVE  UNCHANGED phase
  BY <1>2 DEF RemoveRead, RemoveSignal, RemovePush, RemovalDies, UpdateName
<1>3. CASE ProjectStep
  BY <1>1, <1>2, <1>3 DEF ProjectStep, RemovalStep
<1> QED BY <1>3, RequestStartFrame, RequestStepFrame, BuildFrame, CleanupFrame,
           ExpiryFrame, CrashFrame, StutterFrame DEF Next

LEMMA NextCommitted ==
  ASSUME Types, Committed, [Next]_vars
  PROVE  Committed'
<1>0. /\ \A p \in Project : phase[p] \in Kept => phase'[p] \in Kept
      /\ \A d \in 1 .. made : project'[d] = project[d]
  BY CommittedForEver, RowsGrow
<1>1. ASSUME UNCHANGED wjob, wpc # "idle", phase[project[wjob]] \in Kept
      PROVE  Committed'
  BY <1>0, <1>1, JobInHand DEF Committed
<1>2. CASE UNCHANGED <<wpc, wjob>>
  BY <1>1, <1>2 DEF Committed
<1>3. CASE wpc' \notin {"phases", "deploying", "get", "put", "ready"}
  BY <1>3 DEF Committed
<1>4. CASE MarkBuilding
  <2>1. wpc = "building" /\ UNCHANGED wjob /\ StatusCall("BUILDING", "phases")
    BY <1>4 DEF MarkBuilding
  <2>2. wpc' = "fail" \/ Visible(wjob)
    BY <2>1 DEF StatusCall
  <2> QED BY <1>1, <1>3, <2>1, <2>2 DEF Visible, Kept
<1>5. CASE Phases \/ MarkDeploying \/ GetObject \/ PutObject \/ MarkReady
  <2>1. /\ wpc \in {"phases", "deploying", "get", "put", "ready"}
        /\ UNCHANGED wjob \/ wpc' = "idle"
    BY <1>5 DEF Phases, MarkDeploying, GetObject, PutObject, MarkReady, Stop
  <2> QED BY <1>1, <1>3, <2>1 DEF Committed
<1>6. WaitForJob \/ FirstCheck \/ Supersede \/ FailJob \/ MarkCancelled
      \/ CancelCleanup \/ ClearCancelSignal \/ WorkerCrash
        => wpc' \in {"check", "cancelled", "building", "idle", "tear", "clear"}
  BY DEF WaitForJob, FirstCheck, CheckCancelled, Supersede, FailJob,
     MarkCancelled, CancelCleanup, ClearCancelSignal, WorkerCrash, Stop
<1> QED BY <1>2, <1>3, <1>4, <1>5, <1>6, ProjectFrame, RequestStartFrame,
           RequestStepFrame, CleanupFrame, ExpiryFrame, StutterFrame
        DEF Next, BuildStep

LEMMA NextObjectsCommitted ==
  ASSUME Types, Committed, UncommittedNeverDeploys, [Next]_vars
  PROVE  UncommittedNeverDeploys'
<1>1. /\ \A p \in Project : phase[p] \in Kept => phase'[p] \in Kept
      /\ \A m \in K8sName, j \in Kind :
           \/ object'[m][j] \in {object[m][j], NoProject}
           \/ wpc = "put" /\ object'[m][j] = project[wjob]
  BY CommittedForEver, NextObjects DEF ObjectWritten
<1>2. ASSUME NEW m \in K8sName, NEW j \in Kind, object'[m][j] # NoProject
      PROVE  phase'[object'[m][j]] \in Kept
  <2>1. CASE object'[m][j] = object[m][j]
    <3>1. object[m][j] \in Project /\ phase[object[m][j]] \in Kept
      BY <1>2, <2>1 DEF UncommittedNeverDeploys, Types, ObjectsOK, Kept
    <3> QED BY <1>1, <2>1, <3>1
  <2>2. CASE wpc = "put" /\ object'[m][j] = project[wjob]
    BY <1>1, <2>2, JobInHand DEF Committed
  <2> QED BY <1>1, <1>2, <2>1, <2>2
<1> QED BY <1>2 DEF UncommittedNeverDeploys, Kept

\* A job is in the list before its project is committed; whatever the order,
\* no object is made for one that is rolled back (projects.service.ts:117).
THEOREM OnlyCommittedDeploy == Spec => []UncommittedNeverDeploys
<1>1. Init => Committed /\ UncommittedNeverDeploys
  BY DEF Init, Committed, UncommittedNeverDeploys
<1>2. Types /\ Committed /\ [Next]_vars => Committed'
  BY NextCommitted
<1>3. Types /\ Committed /\ UncommittedNeverDeploys /\ [Next]_vars
        => UncommittedNeverDeploys'
  BY NextObjectsCommitted
<1> QED BY <1>1, <1>2, <1>3, TypesAlways, PTL DEF Spec

-----------------------------------------------------------------------------
(* A row in progress has its job. *)

Listed(d) == \E i \in 1 .. Len(queue) : queue[i] = d
Handed(d) == \E r \in Request : request[r].pc = "enqueue" /\ request[r].dep = d

Owners ==
  /\ \A d \in Dep : status[d] \in InProgress =>
       d \in dropped \/ d = wjob \/ Listed(d) \/ Handed(d)
  /\ wpc \in {"supersede", "tear", "clear"} =>
       status[wjob] \notin InProgress \/ wjob \in dropped

\* The job of a row that ends leaves the loop; others stay as they are, or end.
LEMMA LoopOwners ==
  ASSUME Types, Owners, UNCHANGED queue, dropped \subseteq dropped',
         \A d \in Dep : Handed(d) => Handed(d)' \/ d \in dropped',
         \A d \in Dep \ {wjob} : status'[d] \in InProgress => status'[d] = status[d],
         \/ UNCHANGED wjob
         \/ wjob' = NoDep /\ (wpc = "idle" \/ status'[wjob] \notin InProgress
                                \/ wjob \in dropped'),
         \/ wpc' \notin {"supersede", "tear", "clear"}
         \/ status'[wjob'] \notin InProgress \/ wjob' \in dropped'
  PROVE  Owners'
<1>1. wpc = "idle" => wjob = NoDep
  BY DEF Types, LoopOK
<1>2. ASSUME NEW d \in Dep, status'[d] \in InProgress
      PROVE  d \in dropped' \/ d = wjob' \/ Listed(d)' \/ Handed(d)'
  <2>1. CASE d = wjob
    BY <1>1, <1>2, <2>1
  <2>2. CASE d # wjob
    <3>1. d \in dropped \/ Listed(d) \/ Handed(d)
      BY <1>2, <2>2 DEF Owners
    <3>2. Listed(d) => Listed(d)'
      BY DEF Listed
    <3> QED BY <3>1, <3>2
  <2> QED BY <2>1, <2>2
<1> QED BY <1>2 DEF Owners

\* Requests keep the rows they have made until they push their jobs or die.
LEMMA HandedStays ==
  ASSUME Types, [Next]_vars, NEW d \in Dep, Handed(d)
  PROVE  Handed(d)' \/ d \in dropped' \/ \E r \in Request :
           AddBuildJob(r) /\ request[r].dep = d
<1> SUFFICES ASSUME NEW q \in Request, request[q].pc = "enqueue",
                    request[q].dep = d, ~ Handed(d)'
             PROVE  d \in dropped' \/ AddBuildJob(q)
  BY DEF Handed
<1>1. request'[q] # request[q]
  BY DEF Handed
<1>2. PICK r \in Request : RequestStart(r) \/ RequestStep(r)
  BY <1>1, RequestSteps
<1>3. r = q
  <2>1. \E x \in Requests : request' = [request EXCEPT ![r] = x]
    BY <1>2, RequestMoves
  <2> QED BY <1>1, <2>1 DEF Types, RequestOK
<1>4. AddBuildJob(q) \/ RequestDies(q)
  BY <1>2, <1>3 DEF RequestStart, RedeployRead, PushRead, CancelRead, RequestStep,
     PushSignal, PushOverwrite, CreateRow, CancelWrite, CancelPublish
<1> QED BY <1>4 DEF RequestDies

\* A new row is in the list, or with the request that made it.
LEMMA AddOwners ==
  ASSUME Types, Owners, NEW p \in Project, NEW n \in Name,
         NEW prev \in Dep \cup {NoDep}, AddRow(p, n, prev),
         UNCHANGED <<wpc, wjob, dropped>>,
         \A d \in Dep : Listed(d) \/ Handed(d) => Listed(d)' \/ Handed(d)',
         NEW e \in Dep, e = made + 1, Listed(e)' \/ Handed(e)'
  PROVE  Owners'
<1>1. /\ made \in Nat /\ wjob <= made /\ wjob \in Dep \cup {NoDep}
      /\ made + 1 \in Dep
      /\ \A d \in Dep \ {made + 1} : status'[d] = status[d]
  BY AddRowWrites DEF Types, LoopOK
<1>2. wjob # made + 1
  BY <1>1
<1>3. ASSUME NEW d \in Dep, status'[d] \in InProgress
      PROVE  d \in dropped' \/ d = wjob' \/ Listed(d)' \/ Handed(d)'
  <2>1. CASE d = made + 1
    BY <2>1
  <2>2. CASE d # made + 1
    BY <1>1, <1>3, <2>2 DEF Owners
  <2> QED BY <2>1, <2>2
<1>4. wpc \in {"supersede", "tear", "clear"} =>
        status'[wjob] \notin InProgress \/ wjob \in dropped
  BY <1>1, <1>2, JobInHand DEF Owners
<1> QED BY <1>3, <1>4 DEF Owners

\* RPUSH keeps what is in the list.
LEMMA PushListed ==
  ASSUME Types, NEW e \in Dep, queue' = Append(queue, e)
  PROVE  /\ \A d : Listed(d) => Listed(d)'
         /\ Listed(e)'
<1>1. /\ Len(queue) \in Nat /\ Len(queue') = Len(queue) + 1
      /\ \A i \in 1 .. Len(queue) : queue'[i] = queue[i]
      /\ queue'[Len(queue) + 1] = e
      /\ \A i \in 1 .. Len(queue) + 1 : i \in 1 .. Len(queue')
  BY PushedElements DEF Types, QueueOK
<1>2. \A i \in 1 .. Len(queue) : i \in 1 .. Len(queue')
  BY <1>1
<1>3. Len(queue) + 1 \in 1 .. Len(queue')
  BY <1>1
<1> QED BY <1>1, <1>2, <1>3 DEF Listed

LEMMA TakeOwners ==
  ASSUME Types, Owners, WaitForJob
  PROVE  Owners'
<1>1. /\ wpc = "idle" /\ wjob = NoDep /\ queue # <<>> /\ queue \in Seq(Dep)
      /\ wjob' = queue[Len(queue)] /\ queue' = Remaining(queue)
      /\ wpc' = "check" /\ UNCHANGED <<status, dropped, request>>
  BY DEF WaitForJob, Types, LoopOK, QueueOK, rowVars, ghostVars
<1>2. /\ Len(queue) \in Nat \ {0} /\ Len(queue') = Len(queue) - 1
      /\ \A i \in 1 .. Len(queue) - 1 : queue'[i] = queue[i]
  BY <1>1, RemainingElements
<1>3. \A i \in 1 .. Len(queue) : i = Len(queue) \/ i \in 1 .. Len(queue')
  BY <1>2
<1>4. ASSUME NEW d \in Dep, status'[d] \in InProgress
      PROVE  d \in dropped' \/ d = wjob' \/ Listed(d)' \/ Handed(d)'
  <2>1. d \in dropped \/ Listed(d) \/ Handed(d)
    BY <1>1, <1>4 DEF Owners, Dep, NoDep
  <2>2. ASSUME NEW i \in 1 .. Len(queue), queue[i] = d
        PROVE  d = wjob' \/ Listed(d)'
    <3>1. CASE i = Len(queue)
      BY <1>1, <2>2, <3>1
    <3>2. CASE i \in 1 .. Len(queue')
      <4>1. i \in 1 .. Len(queue) - 1
        BY <1>2, <3>2
      <4>2. queue'[i] = d
        BY <1>2, <2>2, <4>1
      <4> QED BY <3>2, <4>2 DEF Listed
    <3> QED BY <1>3, <3>1, <3>2
  <2>3. Handed(d) => Handed(d)'
    BY <1>1 DEF Handed
  <2> QED BY <1>1, <2>1, <2>2, <2>3 DEF Listed
<1> QED BY <1>1, <1>4 DEF Owners

LEMMA NextOwners ==
  ASSUME Types, Owners, [Next]_vars
  PROVE  Owners'
<1> USE DEF rowVars, redisVars, ghostVars
<1>0. dropped \subseteq dropped'
  BY NextGhosts
<1>1. ASSUME NEW p \in Project, NEW n \in Name, CreateProject(p, n)
      PROVE  Owners'
  <2>1. AddRow(p, n, NoDep) /\ queue' = Append(queue, made + 1) /\ ProjectStep
    BY <1>1 DEF CreateProject, ProjectStep
  <2>2. UNCHANGED <<wpc, wjob, dropped, request>>
    BY <2>1, ProjectFrame
  <2>3. PICK e \in Dep : e = made + 1
    BY <2>1, AddRowWrites
  <2>4. (\A d : Listed(d) => Listed(d)') /\ Listed(e)'
    BY <2>1, <2>3, PushListed
  <2>5. \A d \in Dep : Listed(d) \/ Handed(d) => Listed(d)' \/ Handed(d)'
    BY <2>2, <2>4 DEF Handed
  <2> QED BY <2>1, <2>2, <2>3, <2>4, <2>5, AddOwners
<1>2. ASSUME NEW r \in Request, CreateRow(r), NEW p \in Project, NEW n \in Name,
             NEW prev \in Dep \cup {NoDep}, AddRow(p, n, prev)
      PROVE  Owners'
  <2>1. RequestStep(r) /\ UNCHANGED queue
    BY <1>2 DEF CreateRow, RequestStep
  <2>2. UNCHANGED <<wpc, wjob>> /\ UNCHANGED dropped
    BY <1>2, <2>1, RequestStepFrame DEF CreateRow
  <2>3. ~ \E q \in Request : AddBuildJob(q)
    BY <1>2 DEF AddBuildJob, AddRow, Types, RowsOK
  <2>4. ASSUME NEW d \in Dep, Handed(d) PROVE Handed(d)'
    <3>1. CASE d \in dropped'
      <4>1. PICK q \in Request : request[q].pc = "enqueue" /\ request[q].dep = d
        BY <2>4 DEF Handed
      <4>2. q # r
        BY <1>2, <4>1 DEF CreateRow
      <4>3. request'[q] = request[q]
        <5>1. \E x \in Requests : request' = [request EXCEPT ![r] = x]
          BY <2>1, RequestMoves
        <5> QED BY <4>2, <5>1 DEF Types, RequestOK
      <4> QED BY <4>1, <4>3 DEF Handed
    <3> QED BY <2>3, <2>4, <3>1, HandedStays
  <2>5. \A d \in Dep : Listed(d) \/ Handed(d) => Listed(d)' \/ Handed(d)'
    BY <2>1, <2>4 DEF Listed
  <2>6. PICK e \in Dep : e = made + 1
    BY <1>2, AddRowWrites
  <2>7. Handed(e)'
    <3>1. Proceed(r, "enqueue", request[r].project, made + 1, NoDep, request[r].name)
      BY <1>2 DEF CreateRow, AddRow, Types, RowsOK
    <3>2. request'[r].pc = "enqueue" /\ request'[r].dep = e
      BY <2>6, <3>1 DEF Proceed, Types, RequestOK
    <3> QED BY <3>2 DEF Handed
  <2> QED BY <1>2, <2>2, <2>5, <2>6, <2>7, AddOwners
\* What the request pushes is in the list.
<1>3. ASSUME NEW r \in Request, AddBuildJob(r) PROVE Owners'
  <2>1. /\ request[r].dep \in Dep /\ queue' = Append(queue, request[r].dep)
        /\ UNCHANGED <<status, dropped>> /\ RequestStep(r)
    BY <1>3 DEF AddBuildJob, RequestStep, Types, RequestOK, RowsOK
  <2>2. UNCHANGED <<wpc, wjob>>
    BY <2>1, RequestStepFrame
  <2>3. PICK e \in Dep : e = request[r].dep
    BY <2>1
  <2>4. (\A d : Listed(d) => Listed(d)') /\ Listed(e)'
    BY <2>1, <2>3, PushListed
  <2>5. ASSUME NEW d \in Dep, Handed(d) PROVE Handed(d)' \/ Listed(d)'
    <3>1. PICK q \in Request : request[q].pc = "enqueue" /\ request[q].dep = d
      BY <2>5 DEF Handed
    <3>2. CASE q = r
      BY <2>3, <2>4, <3>1, <3>2
    <3>3. CASE q # r
      <4>1. request'[q] = request[q]
        BY <1>3, <3>3 DEF AddBuildJob, End, Types, RequestOK
      <4> QED BY <3>1, <4>1 DEF Handed
    <3> QED BY <3>2, <3>3
  <2>6. ASSUME NEW d \in Dep, status'[d] \in InProgress
        PROVE  d \in dropped' \/ d = wjob' \/ Listed(d)' \/ Handed(d)'
    BY <2>1, <2>2, <2>4, <2>5, <2>6 DEF Owners
  <2> QED BY <2>1, <2>2, <2>6 DEF Owners
<1>4. CASE WaitForJob
  BY <1>4, TakeOwners
\* Everything else pushes nothing and takes no job.
<1>5. ASSUME UNCHANGED queue, ~ \E r \in Request : AddBuildJob(r),
             \A d \in Dep \ {wjob} : status'[d] \in InProgress
                                       => status'[d] = status[d],
             \/ UNCHANGED wjob
             \/ wjob' = NoDep /\ (wpc = "idle" \/ status'[wjob] \notin InProgress
                                    \/ wjob \in dropped'),
             \/ wpc' \notin {"supersede", "tear", "clear"}
             \/ status'[wjob'] \notin InProgress \/ wjob' \in dropped'
      PROVE  Owners'
  BY <1>0, <1>5, HandedStays, LoopOwners
<1>6. ASSUME BuildStep \/ CleanupStep \/ ExpiryStep \/ WorkerCrash \/ ProjectStep
      PROVE  ~ \E r \in Request : AddBuildJob(r)
  <2>1. UNCHANGED request
    BY <1>6, BuildFrame, CleanupFrame, ExpiryFrame, CrashFrame, ProjectFrame
  <2>2. ASSUME NEW r \in Request, AddBuildJob(r) PROVE FALSE
    BY <2>1, <2>2 DEF AddBuildJob, End, NoRequest, Types, RequestOK
  <2> QED BY <2>2
<1>7. ASSUME UNCHANGED <<status, queue, wjob>>, ~ \E r \in Request : AddBuildJob(r),
             \/ wpc' \notin {"supersede", "tear", "clear"}
             \/ wpc \in {"supersede", "tear", "clear"}
      PROVE  Owners'
  BY <1>0, <1>5, <1>7 DEF Owners
<1>8. CASE FirstCheck \/ Phases \/ GetObject \/ PutObject \/ CancelCleanup
  <2>1. UNCHANGED <<status, queue, wjob>>
        /\ \/ wpc' \notin {"supersede", "tear", "clear"}
           \/ wpc \in {"supersede", "tear", "clear"}
    BY <1>8 DEF FirstCheck, Phases, CheckCancelled, GetObject, PutObject,
       AfterPut, CancelCleanup
  <2> QED BY <1>6, <1>7, <1>8, <2>1 DEF BuildStep
<1>9. CASE MarkBuilding \/ MarkDeploying \/ MarkReady \/ FailJob \/ MarkCancelled
  <2>1. \A d \in Dep \ {wjob} : status'[d] = status[d]
    BY <1>9, LoopWritesStatus DEF StatusOnly
  <2>2. wjob \in Dep /\ status \in [Dep -> Status]
    BY <1>9, JobInHand DEF MarkBuilding, MarkDeploying, MarkReady, FailJob,
       MarkCancelled, Types, RowsOK
  <2>3. UNCHANGED queue /\ ~ \E r \in Request : AddBuildJob(r)
    BY <1>6, <1>9 DEF BuildStep, MarkBuilding, MarkDeploying, MarkReady, FailJob,
       MarkCancelled
  <2>4. CASE MarkBuilding \/ MarkDeploying
    <3>1. UNCHANGED wjob /\ wpc' \in {"phases", "get", "fail"}
      BY <2>4 DEF MarkBuilding, MarkDeploying, StatusCall
    <3> QED BY <1>5, <2>1, <2>3, <3>1
  <2>5. CASE MarkReady
    <3>1. \/ /\ status'[wjob] \notin InProgress
             /\ \/ wjob' = NoDep /\ wpc' = "idle"
                \/ UNCHANGED wjob /\ wpc' = "supersede"
          \/ UNCHANGED wjob /\ wpc' = "fail"
      BY <2>2, <2>5 DEF MarkReady, Stop, InProgress
    <3> QED BY <1>5, <2>1, <2>3, <3>1
  <2>6. CASE FailJob \/ MarkCancelled
    <3>1. /\ status'[wjob] \notin InProgress \/ wjob \in dropped'
          /\ UNCHANGED wjob \/ (wjob' = NoDep /\ wpc' = "idle")
      BY <2>2, <2>6 DEF FailJob, MarkCancelled, Stop, InProgress
    <3> QED BY <1>5, <2>1, <2>3, <3>1
  <2> QED BY <1>9, <2>4, <2>5, <2>6
\* Rows end, ...
<1>10. Ended \cap InProgress = {}
  BY DEF Ended, InProgress
<1>11. CASE Supersede
  <2>1. /\ wpc = "supersede" /\ wjob' = NoDep /\ wpc' = "idle" /\ UNCHANGED queue
        /\ UNCHANGED dropped
    BY <1>11 DEF Supersede, Stop
  <2>2. \A d \in Dep : status'[d] \in InProgress => status'[d] = status[d]
    BY <1>10, <1>11, OthersEndRows DEF EndsRows
  <2>3. status'[wjob] \notin InProgress \/ wjob \in dropped'
    BY <2>1, <2>2, JobInHand DEF Owners
  <2>4. ~ \E r \in Request : AddBuildJob(r)
    BY <1>6, <1>11 DEF BuildStep
  <2> QED BY <1>5, <2>1, <2>2, <2>3, <2>4
<1>12. ASSUME UNCHANGED <<queue, wpc, wjob>>, ~ \E r \in Request : AddBuildJob(r),
              \A d \in Dep : status'[d] \in InProgress => status'[d] = status[d]
       PROVE  Owners'
  <2>1. \/ wpc' \notin {"supersede", "tear", "clear"}
        \/ status'[wjob'] \notin InProgress \/ wjob' \in dropped'
    BY <1>0, <1>12, JobInHand DEF Owners
  <2> QED BY <1>5, <1>12, <2>1
<1>13. CASE ExpiryStep
  BY <1>6, <1>10, <1>12, <1>13, OthersEndRows, ExpiryFrame DEF EndsRows
\* ... requests go on, ...
<1>14. ASSUME NEW r \in Request, RequestStart(r) \/ RequestStep(r) PROVE Owners'
  <2>1. ASSUME RequestStart(r) PROVE ~ \E q \in Request : AddBuildJob(q)
    <3>1. ASSUME NEW q \in Request, AddBuildJob(q) PROVE FALSE
      <4>1. Len(queue') = Len(queue) + 1 /\ Len(queue) \in Nat
        BY <3>1, PushedElements DEF AddBuildJob, Types, RequestOK, RowsOK, QueueOK
      <4> QED BY <2>1, <4>1, RequestStartFrame
    <3> QED BY <3>1
  <2>2. ASSUME RequestStep(r), ~ CreateRow(r), ~ AddBuildJob(r)
        PROVE  UNCHANGED queue /\ ~ \E q \in Request : AddBuildJob(q)
    <3>1. UNCHANGED queue
      BY <2>2 DEF RequestStep, PushSignal, PushOverwrite, CancelWrite,
         CancelPublish, RequestDies
    <3>2. ASSUME NEW q \in Request, AddBuildJob(q) PROVE FALSE
      <4>1. Len(queue') = Len(queue) + 1 /\ Len(queue) \in Nat
        BY <3>2, PushedElements DEF AddBuildJob, Types, RequestOK, RowsOK, QueueOK
      <4> QED BY <3>1, <4>1
    <3> QED BY <3>1, <3>2
  <2>3. CASE RequestStart(r)
    BY <1>12, <2>1, <2>3, RequestStartFrame
  <2>4. CASE RequestStep(r) /\ ~ CreateRow(r) /\ ~ AddBuildJob(r)
    BY <1>10, <1>12, <2>2, <2>4, RequestStepFrame, OthersEndRows DEF EndsRows
  <2>5. CASE CreateRow(r)
    <3>1. CASE phase[request[r].project] = "live"
      <4>1. /\ request[r].project \in Project /\ request[r].name \in Name
            /\ request[r].previous \in Dep \cup {NoDep}
            /\ AddRow(request[r].project, request[r].name, request[r].previous)
        BY <2>5, <3>1 DEF CreateRow, Types, RequestOK, Requests
      <4> QED BY <1>2, <2>5, <4>1
    <3>2. CASE phase[request[r].project] # "live"
      <4>1. UNCHANGED <<queue, status>> /\ RequestStep(r)
            /\ request[r].pc = "row" /\ End(r)
        BY <2>5, <3>2 DEF CreateRow, RequestStep
      <4>2. ASSUME NEW q \in Request, AddBuildJob(q) PROVE FALSE
        <5>1. Len(queue') = Len(queue) + 1 /\ Len(queue) \in Nat
          BY <4>2, PushedElements DEF AddBuildJob, Types, RequestOK, RowsOK,
             QueueOK
        <5> QED BY <4>1, <5>1
      <4> QED BY <1>12, <4>1, <4>2, RequestStepFrame
    <3> QED BY <3>1, <3>2
  <2> QED BY <1>3, <1>14, <2>3, <2>4, <2>5
\* ... and the loop ends.
<1>15. CASE ClearCancelSignal
  <2>1. /\ UNCHANGED <<status, queue, dropped>> /\ wjob' = NoDep
        /\ wpc = "clear" /\ wpc' = "idle"
    BY <1>15 DEF ClearCancelSignal, Stop
  <2>2. status'[wjob] \notin InProgress \/ wjob \in dropped'
    BY <2>1 DEF Owners
  <2> QED BY <1>5, <1>6, <1>15, <2>1, <2>2 DEF BuildStep
<1>16. CASE WorkerCrash
  <2>1. /\ UNCHANGED <<status, queue>> /\ wjob' = NoDep /\ wpc' = "idle"
        /\ wjob = NoDep \/ wjob \in dropped'
    BY <1>16 DEF WorkerCrash, Stop
  <2>2. wjob = NoDep => wpc = "idle"
    BY DEF Types, LoopOK
  <2> QED BY <1>5, <1>6, <1>16, <2>1, <2>2
<1>17. ASSUME NEW p \in Project,
              \/ EndTransaction(p) \/ RemoveRead(p) \/ RemovalStep(p)
              \/ RemovalDies(p) \/ \E n \in Name : UpdateName(p, n)
       PROVE  UNCHANGED <<status, queue>>
  BY <1>17 DEF EndTransaction, RemoveRead, RemovalStep, RemoveSignal, RemovePush,
     RemoveDelete, RemovalDies, UpdateName
<1>18. CASE ProjectStep
  <2>1. UNCHANGED <<wpc, wjob>> /\ ~ \E r \in Request : AddBuildJob(r)
    BY <1>6, <1>18, ProjectFrame
  <2>2. UNCHANGED <<status, queue>> \/ \E p \in Project, n \in Name : CreateProject(p, n)
    BY <1>17, <1>18 DEF ProjectStep
  <2> QED BY <1>1, <1>12, <2>1, <2>2
<1>19. CASE CleanupStep
  BY <1>6, <1>12, <1>19, CleanupFrame
<1>20. CASE UNCHANGED vars
  <2>1. UNCHANGED <<status, queue, wpc, wjob, dropped, request>>
    BY <1>20, StutterFrame
  <2> QED BY <2>1 DEF Owners, Listed, Handed
<1> QED BY <1>4, <1>8, <1>9, <1>11, <1>13, <1>14, <1>15, <1>16, <1>18, <1>19, <1>20
        DEF Next, BuildStep

\* A row in progress that can be seen has its job in the list, in the loop or
\* with the request that made it, unless the loop was too early for it or a
\* fault hit it (projects.service.ts:117, deployments.service.ts:109).
THEOREM InProgressHasAJob == Spec => []QueuedIsOwned
<1>1. Init => Owners
  BY DEF Init, Owners, InProgress
<1>2. Types /\ Owners /\ [Next]_vars => Owners'
  BY NextOwners
<1>3. Types /\ Owners => QueuedIsOwned
  <2> SUFFICES ASSUME Types, Owners PROVE QueuedIsOwned
    OBVIOUS
  <2>1. DOMAIN queue = 1 .. Len(queue)
    BY LenProperties DEF Types, QueueOK
  <2> QED BY <2>1 DEF Owners, Listed, Handed, QueuedIsOwned
<1> QED BY <1>1, <1>2, <1>3, TypesAlways, PTL DEF Spec

-----------------------------------------------------------------------------
(* A READY deployment keeps its objects. *)

\* The places in the cluster that a project's name and jobs lead to are held.
PlacesHeld ==
  /\ \A p \in Project : phase[p] = "none" => held[p] = {}
  /\ \A p \in Project : phase[p] # "none" => k8sNameOf[name[p]] \in held[p]
  /\ \A d \in Dep : d > made => project[d] = NoProject
  /\ \A d \in 1 .. made : k8sNameOf[jobName[d]] \in held[project[d]]

\* A removal, and the cleanup job it leaves, is of a project being removed.
RemovalsHeld ==
  /\ \A p \in Project : removal[p].pc # "idle" =>
       p \in removing /\ k8sNameOf[removal[p].name] \in held[p]
  /\ \A i \in 1 .. Len(cleanups) :
       /\ cleanups[i].project \in removing
       /\ k8sNameOf[cleanups[i].name] \in held[cleanups[i].project]
  /\ cpc = "delete" =>
       cjob.project \in removing /\ k8sNameOf[cjob.name] \in held[cjob.project]

\* A request, and an expired row, has a name that its project has carried.
RequestsHeld ==
  \A r \in Request : request[r].pc # "idle" =>
    k8sNameOf[request[r].name] \in held[request[r].project]

NameOfRow(x) == x.dep \in 1 .. made /\ k8sNameOf[x.name] \in held[project[x.dep]]
ExpiryHeld ==
  /\ \A x \in elist : NameOfRow(x)
  /\ epc # "idle" => NameOfRow(ecur)

\* Names are added to a project's.
LEMMA HistoryGrows ==
  ASSUME Types, PlacesHeld, [Next]_vars
  PROVE  \A p \in Project : held[p] \subseteq held'[p]
<1> USE DEF ghostVars
<1> DEFINE Goal == \A p \in Project : held[p] \subseteq held'[p]
<1>0. held \in [Project -> SUBSET K8sName]
  BY DEF Types, GhostsOK
<1>1. ASSUME NEW p \in Project, NEW n \in Name, CreateProject(p, n) PROVE Goal
  <2>1. phase[p] = "none" /\ held' = [held EXCEPT ![p] = {k8sNameOf[n]}]
    BY <1>1 DEF CreateProject
  <2>2. held[p] = {}
    BY <2>1 DEF PlacesHeld
  <2> QED BY <1>0, <2>1, <2>2
<1>2. ASSUME NEW p \in Project, NEW n \in Name, UpdateName(p, n) PROVE Goal
  <2>1. held' = [held EXCEPT ![p] = @ \cup {k8sNameOf[n]}]
    BY <1>2 DEF UpdateName
  <2> QED BY <1>0, <2>1
<1>3. ASSUME NEW p \in Project,
             EndTransaction(p) \/ RemoveRead(p) \/ RemovalStep(p) \/ RemovalDies(p)
      PROVE  Goal
  BY <1>3 DEF EndTransaction, RemoveRead, RemovalStep, RemoveSignal, RemovePush,
     RemoveDelete, RemovalDies
<1>4. ProjectStep => Goal
  BY <1>1, <1>2, <1>3 DEF ProjectStep
<1>5. UNCHANGED held => Goal
  OBVIOUS
<1> HIDE DEF Goal
<1>6. Goal
  BY <1>4, <1>5, RequestStartFrame, RequestStepFrame, BuildFrame, CleanupFrame,
     ExpiryFrame, CrashFrame, StutterFrame DEF Next
<1> QED BY <1>6 DEF Goal

LEMMA NextPlaces ==
  ASSUME Types, PlacesHeld, RequestsHeld, [Next]_vars
  PROVE  PlacesHeld'
<1> USE DEF ghostVars
<1>0. /\ \A p \in Project : held[p] \subseteq held'[p]
      /\ \A d \in 1 .. made : /\ project'[d] = project[d]
                              /\ jobName'[d] = jobName[d]
                              /\ project[d] \in Project
      /\ held \in [Project -> SUBSET K8sName]
      /\ phase \in [Project -> {"none", "open", "live", "gone", "aborted"}]
      /\ name \in [Project -> Name \cup {NoName}]
  BY HistoryGrows, RowsGrow DEF Types, RowsOK, GhostsOK
\* The rows of projects, ...
<1>1. /\ \A p \in Project : phase'[p] = "none" => held'[p] = {}
      /\ \A p \in Project : phase'[p] # "none" => k8sNameOf[name'[p]] \in held'[p]
  <2> DEFINE Goal ==
        /\ \A p \in Project : phase'[p] = "none" => held'[p] = {}
        /\ \A p \in Project : phase'[p] # "none" => k8sNameOf[name'[p]] \in held'[p]
  <2>1. ASSUME NEW p \in Project, NEW n \in Name, CreateProject(p, n)
        PROVE  Goal
    <3>1. /\ phase' = [phase EXCEPT ![p] = "open"]
          /\ name' = [name EXCEPT ![p] = n]
          /\ held' = [held EXCEPT ![p] = {k8sNameOf[n]}]
      BY <2>1 DEF CreateProject
    <3> QED BY <1>0, <3>1 DEF PlacesHeld
  <2>2. ASSUME NEW p \in Project, NEW n \in Name, UpdateName(p, n)
        PROVE  Goal
    <3>1. /\ held' = [held EXCEPT ![p] = @ \cup {k8sNameOf[n]}]
          /\ name' = [name EXCEPT ![p] = n] /\ phase[p] = "live"
          /\ UNCHANGED phase
      BY <2>2 DEF UpdateName
    <3> QED BY <1>0, <3>1 DEF PlacesHeld
  <2>3. ASSUME NEW p \in Project, EndTransaction(p) \/ RemoveDelete(p)
        PROVE  Goal
    <3>1. /\ phase[p] # "none"
          /\ \E s \in {"live", "aborted", "gone"} : phase' = [phase EXCEPT ![p] = s]
          /\ UNCHANGED <<name, held>>
      BY <2>3 DEF EndTransaction, RemoveDelete, Types, RemovalOK
    <3> QED BY <1>0, <3>1 DEF PlacesHeld
  <2>4. ASSUME NEW p \in Project,
               RemoveRead(p) \/ RemoveSignal(p) \/ RemovePush(p) \/ RemovalDies(p)
        PROVE  UNCHANGED <<phase, name, held>>
    BY <2>4 DEF RemoveRead, RemoveSignal, RemovePush, RemovalDies, rowVars
  <2>5. UNCHANGED <<phase, name, held>> => Goal
    BY DEF PlacesHeld
  <2>6. ProjectStep => Goal
    BY <2>1, <2>2, <2>3, <2>4, <2>5 DEF ProjectStep, RemovalStep
  <2> HIDE DEF Goal
  <2>7. Goal
    BY <2>5, <2>6, RequestStartFrame, RequestStepFrame, BuildFrame, CleanupFrame,
       ExpiryFrame, CrashFrame, StutterFrame DEF Next
  <2> QED BY <2>7 DEF Goal
\* ... and of deployments.
<1>2. ASSUME NEW p \in Project, NEW n \in Name, NEW prev \in Dep \cup {NoDep},
             AddRow(p, n, prev), k8sNameOf[n] \in held'[p]
      PROVE  /\ \A d \in Dep : d > made' => project'[d] = NoProject
             /\ \A d \in 1 .. made' : k8sNameOf[jobName'[d]] \in held'[project'[d]]
  <2>1. /\ made' = made + 1 /\ made \in Nat
        /\ project'[made + 1] = p /\ jobName'[made + 1] = n
        /\ \A d \in Dep \ {made + 1} : project'[d] = project[d]
        /\ \A d \in 1 .. made' : d \in 1 .. made \/ d = made + 1
    BY <1>2, AddRowWrites
  <2>2. \A d \in Int : d > made + 1 => d > made /\ d # made + 1
    BY <2>1
  <2>3. \A d \in Dep : d > made' => project'[d] = NoProject
    <3> SUFFICES ASSUME NEW d \in Dep, d > made' PROVE project'[d] = NoProject
      OBVIOUS
    <3>1. d \in Int /\ d > made + 1
      BY <2>1
    <3>2. d > made /\ d # made + 1
      BY <2>2, <3>1
    <3> QED BY <2>1, <3>2 DEF PlacesHeld
  <2>4. \A d \in 1 .. made : k8sNameOf[jobName'[d]] \in held'[project'[d]]
    BY <1>0 DEF PlacesHeld
  <2> QED BY <1>2, <2>1, <2>3, <2>4
<1>3. ASSUME NEW p \in Project, NEW n \in Name, NEW prev \in Dep \cup {NoDep},
             AddRow(p, n, prev),
             \/ CreateProject(p, n)
             \/ \E r \in Request : /\ request[r].pc = "row"
                                   /\ p = request[r].project /\ n = request[r].name
      PROVE  PlacesHeld'
  <2>1. k8sNameOf[n] \in held'[p]
    <3>1. CASE CreateProject(p, n)
      BY <1>0, <3>1 DEF CreateProject
    <3>2. ASSUME NEW r \in Request, request[r].pc = "row",
                 p = request[r].project, n = request[r].name
          PROVE  k8sNameOf[n] \in held'[p]
      BY <1>0, <3>2 DEF RequestsHeld
    <3> QED BY <1>3, <3>1, <3>2
  <2> QED BY <1>1, <1>2, <1>3, <2>1 DEF PlacesHeld
<1>4. CASE UNCHANGED <<made, project, jobName, previous>>
  BY <1>0, <1>1, <1>4 DEF PlacesHeld
<1> QED BY <1>3, <1>4, RowsAdded

LEMMA NextRequestsHeld ==
  ASSUME Types, PlacesHeld, RequestsHeld, [Next]_vars
  PROVE  RequestsHeld'
<1>0. /\ \A p \in Project : held[p] \subseteq held'[p]
      /\ \A q \in Request : request[q].pc # "idle" => request[q].project \in Project
  BY HistoryGrows DEF Types, RequestOK
<1>1. ASSUME NEW q \in Request, request'[q] = request[q], request'[q].pc # "idle"
      PROVE  k8sNameOf[request'[q].name] \in held'[request'[q].project]
  BY <1>0, <1>1 DEF RequestsHeld
<1>2. ASSUME NEW r \in Request, RequestStart(r) \/ RequestStep(r),
             NEW q \in Request, request'[q].pc # "idle"
      PROVE  k8sNameOf[request'[q].name] \in held'[request'[q].project]
  <2>1. PICK x \in Requests :
          /\ request' = [request EXCEPT ![r] = x]
          /\ x = NoRequest \/ StartsAs(r, x) \/ GoesOnAs(r, x)
    BY <1>2, RequestMoves
  <2>2. request'[q] = IF q = r THEN x ELSE request[q]
    BY <2>1 DEF Types, RequestOK
  <2>3. CASE q # r
    BY <1>1, <1>2, <2>2, <2>3
  <2>4. CASE q = r
    <3>1. x.pc # "idle" /\ (StartsAs(r, x) \/ GoesOnAs(r, x))
      BY <1>2, <2>1, <2>2, <2>4 DEF NoRequest
    <3>2. CASE StartsAs(r, x)
      BY <1>0, <2>2, <2>4, <3>2 DEF StartsAs, PlacesHeld
    <3>3. CASE GoesOnAs(r, x)
      BY <1>0, <2>2, <2>4, <3>3 DEF GoesOnAs, RequestsHeld
    <3> QED BY <3>1, <3>2, <3>3
  <2> QED BY <2>3, <2>4
<1> QED BY <1>1, <1>2, RequestSteps DEF RequestsHeld

LEMMA NextExpiryHeld ==
  ASSUME Types, PlacesHeld, ExpiryHeld, [Next]_vars
  PROVE  ExpiryHeld'
<1> USE DEF expiryVars
<1>0. ASSUME NEW x, NameOfRow(x)
      PROVE  x.dep \in 1 .. made' /\ k8sNameOf[x.name] \in held'[project'[x.dep]]
  <2>1. /\ \A p \in Project : held[p] \subseteq held'[p]
        /\ x.dep \in 1 .. made' /\ project'[x.dep] = project[x.dep]
        /\ project[x.dep] \in Project
    BY <1>0, HistoryGrows, RowsGrow DEF NameOfRow, Types, RowsOK
  <2> QED BY <1>0, <2>1 DEF NameOfRow
<1>1. ASSUME \A x \in elist' : x \in elist \/ NameOfRow(x),
             epc' # "idle" => \/ epc # "idle" /\ UNCHANGED ecur
                              \/ ecur' \in elist
      PROVE  ExpiryHeld'
  <2>1. \A x \in elist' : NameOfRow(x)
    BY <1>1 DEF ExpiryHeld
  <2>2. epc' # "idle" => NameOfRow(ecur')
    BY <1>1 DEF ExpiryHeld
  <2>3. \A x \in elist' : x.dep \in 1 .. made'
                          /\ k8sNameOf[x.name] \in held'[project'[x.dep]]
    BY <1>0, <2>1
  <2>4. epc' # "idle" => ecur'.dep \in 1 .. made'
                         /\ k8sNameOf[ecur'.name] \in held'[project'[ecur'.dep]]
    BY <1>0, <2>2
  <2> QED BY <2>3, <2>4 DEF ExpiryHeld, NameOfRow
<1>2. CASE ExpiryFetch
  <2>1. PICK cut \in [Project -> 0 .. MaxDep] :
          elist' = {[dep |-> d, name |-> name[project[d]]] : d \in Expired(cut)}
    BY <1>2 DEF ExpiryFetch
  <2>2. ASSUME NEW d \in Expired(cut)
        PROVE  NameOfRow([dep |-> d, name |-> name[project[d]]])
    <3>1. /\ d \in Dep /\ project[d] \in Project /\ phase[project[d]] = "live"
          /\ ~ d > made /\ made \in Nat
      BY DEF Expired, Visible, Types, RowsOK, PlacesHeld
    <3>2. d \in 1 .. made /\ k8sNameOf[name[project[d]]] \in held[project[d]]
      BY <3>1 DEF PlacesHeld
    <3> QED BY <3>2 DEF NameOfRow
  <2>3. epc' = "idle"
    BY <1>2 DEF ExpiryFetch
  <2> QED BY <1>1, <2>1, <2>2, <2>3
<1>3. CASE ExpiryNext
  BY <1>1, <1>3 DEF ExpiryNext
<1>4. CASE ExpiryCleanup
  BY <1>1, <1>4 DEF ExpiryCleanup
<1>5. CASE ExpiryMark \/ WorkerCrash
  <2>1. epc' = "idle" /\ elist' \subseteq elist
    BY <1>5 DEF ExpiryMark, WorkerCrash
  <2> QED BY <1>1, <2>1
<1>6. UNCHANGED <<epc, elist, ecur>> => ExpiryHeld'
  BY <1>1
<1> QED BY <1>2, <1>3, <1>4, <1>5, <1>6, ProjectFrame, RequestStartFrame,
           RequestStepFrame, BuildFrame, CleanupFrame, StutterFrame
        DEF Next, ExpiryStep

\* A removal has the name its project had when it was read; ...
LEMMA RemovalSteps ==
  ASSUME Types, [Next]_vars, NEW p \in Project, removal'[p].pc # "idle"
  PROVE  \/ removal[p].pc # "idle" /\ removal'[p].name = removal[p].name
         \/ /\ phase[p] = "live" /\ removal'[p].name = name[p] /\ p \in removing'
            /\ UNCHANGED <<name, held>>
<1> USE DEF rowVars
<1>0. removal \in [Project -> Removal]
  BY DEF Types, RemovalOK
<1>1. ASSUME NEW q \in Project, RemoveRead(q)
      PROVE  \/ removal'[p] = removal[p]
             \/ /\ phase[p] = "live" /\ removal'[p].name = name[p]
                /\ p \in removing' /\ UNCHANGED <<name, held>>
  BY <1>0, <1>1 DEF RemoveRead
<1>2. ASSUME NEW q \in Project, RemoveSignal(q)
      PROVE  removal[p].pc # "idle" /\ removal'[p].name = removal[p].name
  <2>1. removal[q].pc = "signal"
    BY <1>2 DEF RemoveSignal
  <2>2. CASE removal' = [removal EXCEPT ![q] = NoRemoval]
    BY <1>0, <2>2 DEF NoRemoval
  <2>3. ASSUME NEW d \in removal[q].todo,
               removal' = [removal EXCEPT
                 ![q].todo = @ \ {d},
                 ![q].pc = IF removal[q].todo = {d} THEN "push" ELSE "signal"]
        PROVE  removal[p].pc # "idle" /\ removal'[p].name = removal[p].name
    BY <1>0, <2>1, <2>3 DEF Removal
  <2> QED BY <1>2, <2>2, <2>3 DEF RemoveSignal
<1>3. ASSUME NEW q \in Project, RemovePush(q)
      PROVE  removal[p].pc # "idle" /\ removal'[p].name = removal[p].name
  BY <1>0, <1>3 DEF RemovePush, Removal
<1>4. ASSUME NEW q \in Project, RemoveDelete(q) \/ RemovalDies(q)
      PROVE  removal'[p] = removal[p]
  <2>1. removal' = [removal EXCEPT ![q] = NoRemoval]
    BY <1>4 DEF RemoveDelete, RemovalDies
  <2> QED BY <1>0, <2>1 DEF NoRemoval
<1>5. ASSUME NEW q \in Project,
             EndTransaction(q) \/ \E n \in Name : CreateProject(q, n) \/ UpdateName(q, n)
      PROVE  UNCHANGED removal
  BY <1>5 DEF EndTransaction, CreateProject, UpdateName
<1>6. CASE ProjectStep
  BY <1>1, <1>2, <1>3, <1>4, <1>5, <1>6 DEF ProjectStep, RemovalStep
<1> QED BY <1>6, RequestStartFrame, RequestStepFrame, BuildFrame, CleanupFrame,
           ExpiryFrame, CrashFrame, StutterFrame DEF Next

\* ... a cleanup job has the name of the removal that pushed it ...
LEMMA CleanupSteps ==
  ASSUME Types, [Next]_vars, NEW i \in 1 .. Len(cleanups')
  PROVE  \/ \E j \in 1 .. Len(cleanups) : cleanups'[i] = cleanups[j]
         \/ \E p \in Project :
              /\ removal[p].pc = "push"
              /\ cleanups'[i].project = p /\ cleanups'[i].name = removal[p].name
<1>0. cleanups \in Seq(CleanupJob) /\ Len(cleanups) \in Nat
  BY LenProperties DEF Types, QueueOK
<1>1. ASSUME NEW p \in Project, RemovePush(p)
      PROVE  \/ \E j \in 1 .. Len(cleanups) : cleanups'[i] = cleanups[j]
             \/ /\ removal[p].pc = "push" /\ cleanups'[i].project = p
                /\ cleanups'[i].name = removal[p].name
  <2> DEFINE job == [project |-> p, name |-> removal[p].name]
  <2>1. removal[p].pc = "push"
        /\ (cleanups' = Append(cleanups, job) \/ UNCHANGED cleanups)
    BY <1>1 DEF RemovePush
  <2>2. job \in CleanupJob /\ job.project = p /\ job.name = removal[p].name
    BY <2>1 DEF Types, RemovalOK, CleanupJob
  <2> HIDE DEF job
  <2>3. CASE cleanups' = Append(cleanups, job)
    <3>1. /\ Len(cleanups') = Len(cleanups) + 1
          /\ \A j \in 1 .. Len(cleanups) : cleanups'[j] = cleanups[j]
          /\ cleanups'[Len(cleanups) + 1] = job
      BY <1>0, <2>2, <2>3, AppendProperties
    <3>2. i \in 1 .. Len(cleanups) \/ i = Len(cleanups) + 1
      BY <1>0, <3>1
    <3> QED BY <2>1, <2>2, <3>1, <3>2
  <2> QED BY <2>1, <2>3
<1>2. CASE PopProjectCleanup
  <2>1. cleanups # <<>> /\ cleanups' = Tail(cleanups)
    BY <1>2 DEF PopProjectCleanup
  <2>2. /\ Len(cleanups') = Len(cleanups) - 1
        /\ \A j \in 1 .. Len(cleanups') : cleanups'[j] = cleanups[j + 1]
    BY <1>0, <2>1, HeadTailProperties
  <2>3. i + 1 \in 1 .. Len(cleanups)
    BY <1>0, <2>2
  <2> QED BY <2>2, <2>3
<1> QED BY <1>1, <1>2, ListSteps

\* ... and the goroutine has the job that was first in the list.
LEMMA CleanerSteps ==
  ASSUME Types, [Next]_vars, cpc' = "delete"
  PROVE  \/ cpc = "delete" /\ UNCHANGED cjob
         \/ /\ PopProjectCleanup /\ 1 \in 1 .. Len(cleanups)
            /\ cjob' = cleanups[1] /\ ckind' = NumKind
<1>1. CASE PopProjectCleanup
  <2>1. /\ cleanups # <<>> /\ cjob' = Head(cleanups) /\ ckind' = NumKind
        /\ cleanups \in Seq(CleanupJob)
    BY <1>1 DEF PopProjectCleanup, Types, QueueOK
  <2>2. cjob' = cleanups[1] /\ 1 \in 1 .. Len(cleanups)
    BY <2>1, HeadTailProperties, EmptySeq, LenProperties
  <2> QED BY <1>1, <2>1, <2>2
<1>2. CASE CleanupProject \/ WorkerCrash
  BY <1>2 DEF CleanupProject, WorkerCrash
<1> QED BY <1>1, <1>2, ProjectFrame, RequestStartFrame, RequestStepFrame,
           BuildFrame, ExpiryFrame, StutterFrame DEF Next, CleanupStep

LEMMA NextRemovalsHeld ==
  ASSUME Types, PlacesHeld, RemovalsHeld, [Next]_vars
  PROVE  RemovalsHeld'
<1>0. /\ \A p \in Project : held[p] \subseteq held'[p]
      /\ removing \subseteq removing'
      /\ \A i \in 1 .. Len(cleanups) : cleanups[i].project \in Project
      /\ cpc = "delete" => cjob.project \in Project
  <2>1. \A i \in 1 .. Len(cleanups) : cleanups[i] \in CleanupJob
    BY ElementOfSeq DEF Types, QueueOK
  <2>2. cpc = "delete" => cjob \in CleanupJob
    BY DEF Types, CleanerOK
  <2>3. \A j \in CleanupJob : j.project \in Project
    BY DEF CleanupJob
  <2> QED BY <2>1, <2>2, <2>3, HistoryGrows, NextGhosts
<1>1. ASSUME NEW p \in Project, removal'[p].pc # "idle"
      PROVE  p \in removing' /\ k8sNameOf[removal'[p].name] \in held'[p]
  BY <1>0, <1>1, RemovalSteps DEF RemovalsHeld, PlacesHeld
<1>2. ASSUME NEW i \in 1 .. Len(cleanups')
      PROVE  /\ cleanups'[i].project \in removing'
             /\ k8sNameOf[cleanups'[i].name] \in held'[cleanups'[i].project]
  BY <1>0, CleanupSteps DEF RemovalsHeld
<1>3. ASSUME cpc' = "delete"
      PROVE  /\ cjob'.project \in removing'
             /\ k8sNameOf[cjob'.name] \in held'[cjob'.project]
  BY <1>0, <1>3, CleanerSteps DEF RemovalsHeld
<1> QED BY <1>1, <1>2, <1>3 DEF RemovalsHeld

Places == PlacesHeld /\ RequestsHeld /\ ExpiryHeld /\ RemovalsHeld

LEMMA NextPlacesAll ==
  ASSUME Types, Places, [Next]_vars
  PROVE  Places'
  BY NextPlaces, NextRequestsHeld, NextExpiryHeld, NextRemovalsHeld DEF Places

\* No project that is not being removed shares a place with another one.
Untouched(p) ==
  p \notin removing /\ \A q \in Project \ {p} : held[q] \cap held[p] = {}

\* The objects of the deployments that are READY, and of the build in hand as
\* far as it has got, unless their own project took some of them.
Serving ==
  /\ \A d \in 1 .. made \ torn : status[d] = "READY" /\ Untouched(project[d]) =>
       \A k \in Kind : object[k8sNameOf[jobName[d]]][k] = project[d]
  /\ wpc \in {"get", "put", "ready"} /\ wjob \notin torn /\ Untouched(project[wjob])
       => \A k \in Kind : wpc = "ready" \/ k < wkind =>
            object[Target][k] = project[wjob]

\* Where a project has a place of its own, its objects stay, or whom they
\* served is torn.
LEMMA OwnObjectsStay ==
  ASSUME Types, Places, [Next]_vars, NEW p \in Project, Untouched(p)',
         NEW n \in held[p], NEW k \in Kind, object[n][k] = p
  PROVE  object'[n][k] = p \/ Served(p, n, k) \subseteq torn'
<1>1. /\ n \in K8sName /\ p \notin removing
      /\ \A q \in Project : n \in held[q] => q = p
      /\ ObjectWritten(n, k)
  <2>1. /\ \A q \in Project : held[q] \subseteq held'[q]
        /\ removing \subseteq removing' /\ held \in [Project -> SUBSET K8sName]
    BY HistoryGrows, NextGhosts DEF Places, Types, GhostsOK
  <2>2. p \notin removing' /\ \A q \in Project \ {p} : held'[q] \cap held'[p] = {}
    BY DEF Untouched
  <2>3. n \in K8sName
    BY <2>1
  <2>4. ASSUME NEW q \in Project, n \in held[q] PROVE q = p
    BY <2>1, <2>2, <2>4
  <2> QED BY <2>1, <2>2, <2>3, <2>4, NextObjects
\* The loop's place is its project's.
<1>2. ASSUME wpc # "idle", n = Target PROVE project[wjob] = p
  <2>1. wjob \in 1 .. made /\ project[wjob] \in Project
    BY <1>2, JobInHand
  <2>2. Target \in held[project[wjob]]
    BY <2>1 DEF Target, Places, PlacesHeld
  <2> QED BY <1>1, <1>2, <2>1, <2>2
<1>3. CASE PutObject /\ Put /\ wpc = "put" /\ n = Target /\ object'[n][k] = project[wjob]
  BY <1>2, <1>3
<1>4. CASE /\ wpc = "tear" /\ n = Target
           /\ object[n][k] = project[wjob]
                => Served(project[wjob], n, k) \subseteq torn'
  BY <1>2, <1>4
<1>5. CASE /\ epc = "delete" /\ n = k8sNameOf[ecur.name]
           /\ object[n][k] = project[ecur.dep]
                => Served(project[ecur.dep], n, k) \subseteq torn'
  <2>1. ecur.dep \in 1 .. made /\ n \in held[project[ecur.dep]]
    BY <1>5 DEF Places, ExpiryHeld, NameOfRow
  <2>2. project[ecur.dep] \in Project
    BY <2>1 DEF Types, RowsOK
  <2> QED BY <1>1, <1>5, <2>1, <2>2
<1>6. CASE cpc = "delete" /\ n = k8sNameOf[cjob.name]
  <2>1. /\ cjob.project \in Project /\ cjob.project \in removing
        /\ n \in held[cjob.project]
    BY <1>6 DEF Types, GhostsOK, Places, RemovalsHeld
  <2> QED BY <1>1, <2>1
<1> QED BY <1>1, <1>3, <1>4, <1>5, <1>6 DEF ObjectWritten

\* Only the last step of a build makes its row READY.
LEMMA ReadyWrites ==
  ASSUME Types, [Next]_vars, NEW d \in 1 .. made, status'[d] = "READY"
  PROVE  \/ status[d] = "READY"
         \/ wpc = "ready" /\ d = wjob /\ UNCHANGED <<object, torn>>
<1> USE DEF rowVars, ghostVars
<1>0. d \in Dep /\ status \in [Dep -> Status] /\ "READY" \notin Ended
  BY DEF Types, RowsOK, Ended
<1>1. ASSUME NEW p \in Project, NEW n \in Name, NEW prev \in Dep \cup {NoDep},
             AddRow(p, n, prev)
      PROVE  status'[d] = status[d]
  BY <1>1, AddRowWrites
<1>2. CASE MarkBuilding \/ MarkDeploying \/ FailJob \/ MarkCancelled
  <2>1. \/ UNCHANGED status
        \/ \E s \in {"BUILDING", "DEPLOYING", "FAILED", "CANCELED"} :
             status' = [status EXCEPT ![wjob] = s]
    BY <1>2 DEF MarkBuilding, MarkDeploying, StatusCall, FailJob, MarkCancelled
  <2> QED BY <1>0, <2>1
<1>3. CASE MarkReady
  <2>1. wpc = "ready" /\ UNCHANGED <<object, torn>>
    BY <1>3 DEF MarkReady
  <2>2. \A e \in Dep \ {wjob} : status'[e] = status[e]
    BY <1>3, LoopWritesStatus DEF StatusOnly
  <2> QED BY <1>0, <2>1, <2>2
<1>4. ASSUME NEW p \in Project,
             \/ EndTransaction(p) \/ RemoveRead(p) \/ RemovalStep(p)
             \/ RemovalDies(p) \/ \E n \in Name : UpdateName(p, n)
      PROVE  UNCHANGED status
  BY <1>4 DEF EndTransaction, RemoveRead, RemovalStep, RemoveSignal, RemovePush,
     RemoveDelete, RemovalDies, UpdateName
<1>5. ASSUME NEW p \in Project, NEW n \in Name, CreateProject(p, n)
      PROVE  status'[d] = status[d]
  BY <1>1, <1>5 DEF CreateProject
<1>6. ASSUME NEW r \in Request, CreateRow(r) PROVE status'[d] = status[d]
  <2>1. CASE AddRow(request[r].project, request[r].name, request[r].previous)
    <3>1. /\ request[r].project \in Project /\ request[r].name \in Name
          /\ request[r].previous \in Dep \cup {NoDep}
      BY <1>6 DEF CreateRow, Types, RequestOK, Requests
    <3> QED BY <1>1, <2>1, <3>1
  <2> QED BY <1>6, <2>1 DEF CreateRow
<1>7. CASE Supersede \/ ExpiryStep
  BY <1>0, <1>7, OthersEndRows DEF EndsRows
<1>8. ASSUME NEW r \in Request, RequestStart(r) \/ RequestStep(r)
      PROVE  status'[d] = status[d] \/ status'[d] \in Ended
  BY <1>0, <1>6, <1>8, RequestStartFrame, OthersEndRows DEF EndsRows
<1>9. WaitForJob \/ FirstCheck \/ Phases \/ GetObject \/ PutObject
      \/ CancelCleanup \/ ClearCancelSignal
        => UNCHANGED status
  BY DEF WaitForJob, FirstCheck, Phases, GetObject, PutObject, CancelCleanup,
         ClearCancelSignal
<1>10. CASE ProjectStep
  BY <1>4, <1>5, <1>10 DEF ProjectStep
<1>11. CASE \E r \in Request : RequestStart(r) \/ RequestStep(r)
  BY <1>0, <1>8, <1>11
<1> QED BY <1>2, <1>3, <1>7, <1>9, <1>10, <1>11, CleanupFrame, CrashFrame,
           StutterFrame DEF Next, BuildStep

\* How the build in hand goes on: it starts with the first kind, puts one after
\* the other, or stays where it is.
LEMMA BuildMoves ==
  ASSUME Types, [Next]_vars, wpc' \in {"get", "put", "ready"}
  PROVE  /\ UNCHANGED wjob
         /\ \/ wpc = "deploying" /\ wpc' = "get" /\ wkind' = 1
            \/ /\ wpc \in {"get", "put", "ready"} /\ wkind' = wkind
               /\ wpc' = "ready" => wpc = "ready"
            \/ /\ PutObject /\ Put /\ wpc = "put"
               /\ \/ wpc' = "get" /\ wkind' = wkind + 1
                  \/ wpc' = "ready" /\ wkind' = wkind /\ wkind = NumKind
<1>1. CASE MarkDeploying
  BY <1>1 DEF MarkDeploying, StatusCall
<1>2. CASE GetObject
  BY <1>2 DEF GetObject
<1>3. CASE PutObject
  BY <1>3 DEF PutObject, AfterPut
<1>4. WaitForJob \/ FirstCheck \/ MarkBuilding \/ Phases \/ MarkReady
      \/ Supersede \/ FailJob \/ MarkCancelled \/ CancelCleanup
      \/ ClearCancelSignal \/ WorkerCrash
        => wpc' \notin {"get", "put", "ready"}
  BY DEF WaitForJob, FirstCheck, CheckCancelled, MarkBuilding, StatusCall, Phases,
     MarkReady, Supersede, FailJob, MarkCancelled, CancelCleanup,
     ClearCancelSignal, WorkerCrash, Stop
<1> QED BY <1>1, <1>2, <1>3, <1>4, ProjectFrame, RequestStartFrame,
           RequestStepFrame, CleanupFrame, ExpiryFrame, StutterFrame
        DEF Next, BuildStep

\* A row is QUEUED in the step that makes it, and its job has the name that its
\* project has then, or had when a request read it.
LEMMA NewRows ==
  ASSUME Types, [Next]_vars, NEW d \in 1 .. made'
  PROVE  \/ d \in 1 .. made
         \/ /\ status'[d] = "QUEUED"
            /\ \/ jobName'[d] = name'[project'[d]]
               \/ \E r \in Request :
                    /\ request[r].pc = "row" /\ project'[d] = request[r].project
                    /\ jobName'[d] = request[r].name /\ UNCHANGED name
<1>1. ASSUME NEW p \in Project, NEW n \in Name, NEW prev \in Dep \cup {NoDep},
             AddRow(p, n, prev)
      PROVE  \/ d \in 1 .. made
             \/ status'[d] = "QUEUED" /\ project'[d] = p /\ jobName'[d] = n
  BY <1>1, AddRowWrites
<1>2. ASSUME NEW p \in Project, NEW n \in Name, CreateProject(p, n)
      PROVE  name'[p] = n
  BY <1>2 DEF CreateProject, Types, RowsOK
<1>3. ASSUME NEW r \in Request, CreateRow(r) PROVE UNCHANGED name
  BY <1>3 DEF CreateRow
<1>4. CASE UNCHANGED <<made, project, jobName, previous>>
  BY <1>4
<1> QED BY <1>1, <1>2, <1>3, <1>4, RowsAdded

LEMMA NextServing ==
  ASSUME Types, Places, Serving, [Next]_vars
  PROVE  Serving'
<1>0. /\ \A p \in Project : Untouched(p)' => Untouched(p)
      /\ \A d \in 1 .. made : /\ project'[d] = project[d]
                              /\ jobName'[d] = jobName[d]
                              /\ project[d] \in Project
                              /\ k8sNameOf[jobName[d]] \in held[project[d]]
      /\ torn \subseteq torn'
  <2>1. ASSUME NEW p \in Project, Untouched(p)' PROVE Untouched(p)
    <3>1. /\ \A q \in Project : held[q] \subseteq held'[q]
          /\ removing \subseteq removing'
      BY HistoryGrows, NextGhosts DEF Places
    <3>2. /\ \A q \in Project \ {p} : held'[q] \cap held'[p] = {}
          /\ p \notin removing'
      BY <2>1 DEF Untouched
    <3>3. ASSUME NEW q \in Project \ {p} PROVE held[q] \cap held[p] = {}
      BY <3>1, <3>2
    <3> QED BY <3>1, <3>2, <3>3 DEF Untouched
  <2> QED BY <2>1, RowsGrow, NextObjects DEF Places, PlacesHeld, Types, RowsOK
<1>1. ASSUME NEW d \in 1 .. made' \ torn', status'[d] = "READY",
             Untouched(project[d])', NEW k \in Kind
      PROVE  object'[k8sNameOf[jobName'[d]]][k] = project'[d]
  <2>1. d \in 1 .. made /\ d \notin torn'
    BY <1>1, NewRows
  <2>2. /\ project'[d] = project[d] /\ jobName'[d] = jobName[d]
        /\ project[d] \in Project /\ k8sNameOf[jobName[d]] \in held[project[d]]
        /\ d \in Dep
    BY <1>0, <2>1 DEF Types, RowsOK
  <2>3. PICK p \in Project : p = project[d]
    BY <2>2
  <2>4. Untouched(p)' /\ Untouched(p)
    <3>1. Untouched(p)'
      BY <1>1, <2>2, <2>3 DEF Untouched
    <3> QED BY <1>0, <3>1
  <2>5. CASE status[d] = "READY"
    <3>1. object[k8sNameOf[jobName[d]]][k] = p
      BY <1>0, <2>1, <2>3, <2>4, <2>5 DEF Serving
    <3>2. d \in Served(p, k8sNameOf[jobName[d]], k)
      BY <2>2, <2>3, <2>5 DEF Served
    <3> QED BY <2>1, <2>2, <2>3, <2>4, <3>1, <3>2, OwnObjectsStay
  <2>6. CASE wpc = "ready" /\ d = wjob /\ UNCHANGED <<object, torn>>
    BY <2>1, <2>2, <2>3, <2>4, <2>6 DEF Serving, Target
  <2> QED BY <1>1, <2>1, <2>5, <2>6, ReadyWrites
<1>2. ASSUME wpc' \in {"get", "put", "ready"}, wjob' \notin torn',
             Untouched(project[wjob])', NEW k \in Kind, wpc' = "ready" \/ k < wkind'
      PROVE  object'[Target'][k] = project'[wjob']
  <2>1. UNCHANGED wjob /\ wjob \notin torn /\ wjob \notin torn'
    BY <1>0, <1>2, BuildMoves
  <2>2. wjob \in 1 .. made /\ wjob \in Dep
    <3>1. wpc # "idle"
      BY <1>2, BuildMoves DEF PutObject
    <3> QED BY <3>1, JobInHand
  <2>3. /\ project'[wjob'] = project[wjob] /\ Target' = Target
        /\ project[wjob] \in Project /\ Target \in held[project[wjob]]
    BY <1>0, <2>1, <2>2 DEF Target
  <2>4. PICK p \in Project : p = project[wjob]
    BY <2>3
  <2>5. Untouched(p)' /\ Untouched(p)
    <3>1. Untouched(p)'
      BY <1>2, <2>3, <2>4 DEF Untouched
    <3> QED BY <1>0, <3>1
\* What the build has put stays, unless it is torn.
  <2>6. ASSUME wpc \in {"get", "put", "ready"}, wpc = "ready" \/ k < wkind
        PROVE  object'[Target][k] = p
    <3>1. object[Target][k] = p
      BY <2>1, <2>4, <2>5, <2>6 DEF Serving
    <3>2. wjob \in Served(p, Target, k)
      BY <2>2, <2>4, <2>6 DEF Served, Target
    <3> QED BY <2>1, <2>3, <2>4, <2>5, <3>1, <3>2, OwnObjectsStay
  <2>7. CASE wpc = "deploying" /\ wpc' = "get" /\ wkind' = 1
    BY <1>2, <2>7
  <2>8. CASE /\ wpc \in {"get", "put", "ready"} /\ wkind' = wkind
             /\ wpc' = "ready" => wpc = "ready"
    BY <1>2, <2>3, <2>4, <2>6, <2>8
  <2>9. CASE /\ PutObject /\ Put /\ wpc = "put"
             /\ \/ wpc' = "get" /\ wkind' = wkind + 1
                \/ wpc' = "ready" /\ wkind' = wkind /\ wkind = NumKind
    <3>1. wkind \in Kind /\ object \in [K8sName -> [Kind -> Project \cup {NoProject}]]
          /\ Target \in K8sName
      BY <2>9, JobInHand DEF Types, LoopOK, ObjectsOK
    <3>2. k < wkind \/ k = wkind
      BY <1>2, <2>9, <3>1
    <3>3. CASE k = wkind
      <4>1. object' = [object EXCEPT ![Target][wkind] = project[wjob]]
        BY <2>9 DEF Put
      <4> QED BY <2>3, <3>1, <3>3, <4>1
    <3>4. CASE k < wkind
      BY <2>3, <2>4, <2>6, <2>9, <3>4
    <3> QED BY <3>2, <3>3, <3>4
  <2> QED BY <1>2, <2>7, <2>8, <2>9, BuildMoves
<1>3. /\ \A d \in 1 .. made' \ torn' : status'[d] = "READY" /\ Untouched(project[d])' =>
           \A k \in Kind : object'[k8sNameOf[jobName'[d]]][k] = project'[d]
      /\ wpc' \in {"get", "put", "ready"} /\ wjob' \notin torn'
         /\ Untouched(project[wjob])' =>
           \A k \in Kind : wpc' = "ready" \/ k < wkind' =>
             object'[Target'][k] = project'[wjob']
  BY <1>1, <1>2
<1> QED BY <1>3 DEF Serving

\* Whatever is built, cancelled, expired and removed meanwhile, a READY
\* deployment whose project has its own place in the cluster is served by all
\* of its objects, except one from which a cancelled build or an expiry of its
\* own project took an object that it had (deploy.go:145, worker.go:551,
\* cleanup.go:126, project_cleanup.go:108).
THEOREM ReadyServed == Spec => []ReadyIsServed
<1>1. Init => Places /\ Serving
  BY EmptySeq DEF Init, Places, PlacesHeld, RemovalsHeld, RequestsHeld, ExpiryHeld,
     NoRemoval, NoRequest, Serving
<1>2. Types /\ Places /\ [Next]_vars => Places'
  BY NextPlacesAll
<1>3. Types /\ Places /\ Serving /\ [Next]_vars => Serving'
  BY NextServing
<1>4. Types /\ Places /\ Serving => ReadyIsServed
  <2> SUFFICES ASSUME Types, Places, Serving PROVE ReadyIsServed
    OBVIOUS
  <2>1. \A d \in Dep : Visible(d) => d \in 1 .. made
    BY DEF Types, RowsOK, Places, PlacesHeld, Visible
  <2> QED BY <2>1 DEF ReadyIsServed, Serving, Untouched
<1> QED BY <1>1, <1>2, <1>3, <1>4, TypesAlways, PTL DEF Spec

-----------------------------------------------------------------------------
(* What removed projects leave is known. *)

\* A project that was not renamed is found under its name everywhere.
NamesAgree ==
  /\ \A d \in 1 .. made : project[d] \notin excused => jobName[d] = name[project[d]]
  /\ \A p \in Project \ excused :
       removal[p].pc # "idle" => removal[p].name = name[p]
  /\ \A r \in Request : request[r].pc # "idle" /\ request[r].project \notin excused
       => request[r].name = name[request[r].project]
  /\ \A i \in 1 .. Len(cleanups) : cleanups[i].project \notin excused =>
       cleanups[i].name = name[cleanups[i].project]
  /\ cpc = "delete" /\ cjob.project \notin excused => cjob.name = name[cjob.project]
  /\ \A n \in K8sName, k \in Kind : object[n][k] \in Project \ excused =>
       n = k8sNameOf[name[object[n][k]]]

\* Once the cleanup job of a project has been pushed, its objects have all been
\* deleted, or the job waits, or the goroutine has reached those that are left.
CleanupsCover ==
  \A p \in Project \ excused : removal[p].pc = "delete" \/ phase[p] = "gone" =>
    \/ \E i \in 1 .. Len(cleanups) : cleanups[i].project = p
    \/ /\ cpc = "delete" /\ cjob.project = p
       /\ \A n \in K8sName, k \in Kind : object[n][k] = p => k <= ckind
    \/ \A n \in K8sName, k \in Kind : object[n][k] # p

LEMMA NameStays ==
  ASSUME Types, [Next]_vars, NEW p \in Project, phase[p] # "none",
         p \notin excused'
  PROVE  name'[p] = name[p]
<1>1. ASSUME NEW q \in Project, NEW n \in Name, CreateProject(q, n)
      PROVE  name'[p] = name[p]
  BY <1>1 DEF CreateProject, Types, RowsOK
<1>2. ASSUME NEW q \in Project, NEW n \in Name, UpdateName(q, n)
      PROVE  name'[p] = name[p]
  BY <1>2 DEF UpdateName, Types, RowsOK
<1>3. ASSUME NEW q \in Project,
             EndTransaction(q) \/ RemoveRead(q) \/ RemovalStep(q) \/ RemovalDies(q)
      PROVE  UNCHANGED name
  BY <1>3 DEF EndTransaction, RemoveRead, RemovalStep, RemoveSignal, RemovePush,
     RemoveDelete, RemovalDies, rowVars
<1>4. CASE ProjectStep
  BY <1>1, <1>2, <1>3, <1>4 DEF ProjectStep
<1> QED BY <1>4, RequestStartFrame, RequestStepFrame, BuildFrame, CleanupFrame,
           ExpiryFrame, CrashFrame, StutterFrame DEF Next

LEMMA NextNames ==
  ASSUME Types, Places, UncommittedNeverDeploys, NamesAgree, [Next]_vars
  PROVE  NamesAgree'
<1> USE DEF Places
<1>0. /\ excused \subseteq excused'
      /\ \A d \in 1 .. made : /\ project'[d] = project[d]
                              /\ jobName'[d] = jobName[d]
                              /\ project[d] \in Project
      /\ \A i \in 1 .. Len(cleanups) : cleanups[i].project \in Project
      /\ cpc = "delete" => cjob.project \in Project
      /\ \A r \in Request : request[r].pc # "idle" => request[r].project \in Project
  <2>1. \A i \in 1 .. Len(cleanups) : cleanups[i] \in CleanupJob
    BY ElementOfSeq DEF Types, QueueOK
  <2>2. cpc = "delete" => cjob \in CleanupJob
    BY DEF Types, CleanerOK
  <2>3. \A j \in CleanupJob : j.project \in Project
    BY DEF CleanupJob
  <2> QED BY <2>1, <2>2, <2>3, NextGhosts, RowsGrow DEF Types, RowsOK, RequestOK
\* Whoever holds a place exists, and has the name it had.
<1>1. \A p \in Project : p \notin excused' /\ held[p] # {} => name'[p] = name[p]
  BY NameStays DEF PlacesHeld
<1>2. ASSUME NEW d \in 1 .. made', project'[d] \notin excused'
      PROVE  jobName'[d] = name'[project'[d]]
  <2>1. CASE d \in 1 .. made
    <3>1. /\ jobName[d] = name[project[d]] /\ held[project[d]] # {}
      BY <1>0, <1>2, <2>1 DEF NamesAgree, PlacesHeld
    <3> QED BY <1>0, <1>1, <1>2, <2>1, <3>1
  <2>2. ASSUME NEW r \in Request, request[r].pc = "row",
               project'[d] = request[r].project, jobName'[d] = request[r].name,
               UNCHANGED name
        PROVE  jobName'[d] = name'[project'[d]]
    BY <1>0, <1>2, <2>2 DEF NamesAgree
  <2> QED BY <2>1, <2>2, NewRows
<1>3. ASSUME NEW p \in Project \ excused', removal'[p].pc # "idle"
      PROVE  removal'[p].name = name'[p]
  <2>1. CASE removal[p].pc # "idle" /\ removal'[p].name = removal[p].name
    BY <1>0, <1>1, <2>1 DEF NamesAgree, RemovalsHeld
  <2> QED BY <1>3, <2>1, RemovalSteps
<1>4. ASSUME NEW p \in Project \ excused', removal[p].pc # "idle"
      PROVE  removal[p].name = name'[p]
  BY <1>0, <1>1, <1>4 DEF NamesAgree, RemovalsHeld
<1>5. ASSUME NEW i \in 1 .. Len(cleanups), cleanups[i].project \notin excused'
      PROVE  cleanups[i].name = name'[cleanups[i].project]
  BY <1>0, <1>1, <1>5 DEF NamesAgree, RemovalsHeld
<1>6. ASSUME NEW i \in 1 .. Len(cleanups'), cleanups'[i].project \notin excused'
      PROVE  cleanups'[i].name = name'[cleanups'[i].project]
  BY <1>4, <1>5, <1>6, CleanupSteps
<1>7. ASSUME cpc' = "delete", cjob'.project \notin excused'
      PROVE  cjob'.name = name'[cjob'.project]
  <2>1. CASE cpc = "delete" /\ UNCHANGED cjob
    BY <1>0, <1>1, <1>7, <2>1 DEF NamesAgree, RemovalsHeld
  <2> QED BY <1>5, <1>7, <2>1, CleanerSteps
<1>8. ASSUME NEW n \in K8sName, NEW k \in Kind, NEW p \in Project \ excused',
             object'[n][k] = p
      PROVE  n = k8sNameOf[name'[p]]
  <2>1. p = object'[n][k]
    BY <1>8
  <2>2. CASE object'[n][k] = object[n][k]
    <3>1. p # NoProject /\ p \notin excused /\ object[n][k] = p
      BY <1>0, <2>1, <2>2
    <3>2. phase[p] # "none" /\ n = k8sNameOf[name[p]]
      BY <3>1 DEF UncommittedNeverDeploys, NamesAgree
    <3>3. p \in Project /\ p \notin excused'
      BY <2>1
    <3>4. name'[p] = name[p]
      BY <3>2, <3>3, NameStays
    <3> QED BY <3>2, <3>4
  <2>3. CASE PutObject /\ n = Target /\ object'[n][k] = project[wjob]
    <3>1. wjob \in 1 .. made
      BY <2>3, JobInHand DEF PutObject
    <3>2. jobName[wjob] = name[p] /\ held[p] # {}
      BY <1>0, <2>1, <2>3, <3>1 DEF NamesAgree, PlacesHeld
    <3> QED BY <1>1, <2>1, <2>3, <3>2 DEF Target
  <2>4. p # NoProject
    BY <2>1
  <2> QED BY <1>8, <2>1, <2>2, <2>3, <2>4, NextObjects DEF ObjectWritten
\* A request has the name that it read.
<1>9. ASSUME NEW q \in Request, request'[q].pc # "idle",
             request'[q].project \notin excused'
      PROVE  request'[q].name = name'[request'[q].project]
  <2>1. ASSUME request[q].pc # "idle", request'[q].project = request[q].project,
               request'[q].name = request[q].name
        PROVE  request'[q].name = name'[request'[q].project]
    <3>1. /\ request[q].project \in Project \ excused'
          /\ request[q].name = name[request[q].project]
          /\ held[request[q].project] # {}
      BY <1>0, <1>9, <2>1 DEF NamesAgree, RequestsHeld
    <3> QED BY <1>1, <2>1, <3>1
  <2>2. CASE UNCHANGED request
    BY <1>9, <2>1, <2>2
  <2>3. ASSUME NEW r \in Request, RequestStart(r) \/ RequestStep(r)
        PROVE  request'[q].name = name'[request'[q].project]
    <3>1. PICK x \in Requests :
            /\ request' = [request EXCEPT ![r] = x]
            /\ x = NoRequest \/ StartsAs(r, x) \/ GoesOnAs(r, x)
      BY <2>3, RequestMoves
    <3>2. request'[q] = IF q = r THEN x ELSE request[q]
      BY <3>1 DEF Types, RequestOK
    <3>3. CASE q # r
      BY <1>9, <2>1, <3>2, <3>3
    <3>4. CASE q = r
      <4>1. x.pc # "idle" /\ (StartsAs(r, x) \/ GoesOnAs(r, x))
        BY <1>9, <3>1, <3>2, <3>4 DEF NoRequest
      <4>2. CASE StartsAs(r, x)
        <5>1. UNCHANGED name
          BY <2>3, RequestStartFrame, RequestStepFrame
        <5> QED BY <3>2, <3>4, <4>2, <5>1 DEF StartsAs
      <4>3. CASE GoesOnAs(r, x)
        BY <2>1, <3>2, <3>4, <4>3 DEF GoesOnAs
      <4> QED BY <4>1, <4>2, <4>3
    <3> QED BY <3>3, <3>4
  <2> QED BY <2>2, <2>3, RequestSteps
<1> QED BY <1>2, <1>3, <1>6, <1>7, <1>8, <1>9 DEF NamesAgree

\* A cleanup job leaves the list into the goroutine's hands ...
LEMMA JobsStay ==
  ASSUME Types, [Next]_vars, NEW i \in 1 .. Len(cleanups)
  PROVE  \/ \E j \in 1 .. Len(cleanups') : cleanups'[j] = cleanups[i]
         \/ cpc' = "delete" /\ cjob' = cleanups[i] /\ ckind' = NumKind
<1> USE DEF rowVars, redisVars
<1>0. cleanups \in Seq(CleanupJob) /\ Len(cleanups) \in Nat
  BY LenProperties DEF Types, QueueOK
<1>1. ASSUME NEW p \in Project, RemovePush(p)
      PROVE  \E j \in 1 .. Len(cleanups') : cleanups'[j] = cleanups[i]
  <2> DEFINE job == [project |-> p, name |-> removal[p].name]
  <2>1. cleanups' = Append(cleanups, job) \/ UNCHANGED cleanups
    BY <1>1 DEF RemovePush
  <2>2. job \in CleanupJob
    BY <1>1 DEF RemovePush, Types, RemovalOK, CleanupJob
  <2> HIDE DEF job
  <2>3. CASE cleanups' = Append(cleanups, job)
    <3>1. /\ Len(cleanups') = Len(cleanups) + 1 /\ cleanups'[i] = cleanups[i]
      BY <1>0, <2>2, <2>3, AppendProperties
    <3>2. i \in 1 .. Len(cleanups')
      BY <1>0, <3>1
    <3> QED BY <3>1, <3>2
  <2> QED BY <2>1, <2>3
<1>2. CASE PopProjectCleanup
  <2>1. /\ cleanups # <<>> /\ cleanups' = Tail(cleanups) /\ cjob' = Head(cleanups)
        /\ cpc' = "delete" /\ ckind' = NumKind
    BY <1>2 DEF PopProjectCleanup
  <2>2. /\ Len(cleanups') = Len(cleanups) - 1 /\ cjob' = cleanups[1]
        /\ \A j \in 1 .. Len(cleanups') : cleanups'[j] = cleanups[j + 1]
    BY <1>0, <2>1, HeadTailProperties
  <2>3. i = 1 \/ (i - 1 \in 1 .. Len(cleanups') /\ (i - 1) + 1 = i)
    BY <1>0, <2>2
  <2> QED BY <2>1, <2>2, <2>3
<1> QED BY <1>1, <1>2, ListSteps

\* ... which nobody else touches ...
LEMMA CleanerIsAlone ==
  ASSUME [Next]_vars, cpc = "delete"
  PROVE  UNCHANGED cleanupVars \/ CleanupProject \/ WorkerCrash
<1>1. ~ PopProjectCleanup
  BY DEF PopProjectCleanup
<1> QED BY <1>1, ProjectFrame, RequestStartFrame, RequestStepFrame, BuildFrame,
           ExpiryFrame, StutterFrame DEF Next, CleanupStep, cleanupVars

\* ... and which keep it until a crash or its last object.
LEMMA CleanerGoesOn ==
  ASSUME Types, [Next]_vars, cpc = "delete"
  PROVE  \/ UNCHANGED cleanupVars \/ CleanupProject \/ cjob.project \in excused'
<1>1. CASE WorkerCrash
  <2>1. cjob.project \in Project
    BY DEF Types, CleanerOK, CleanupJob
  <2> QED BY <1>1, <2>1 DEF WorkerCrash
<1> QED BY <1>1, CleanerIsAlone

\* The rows go when nothing has to be deleted, or the job has been pushed.
LEMMA RemovalEnds ==
  ASSUME Types, [Next]_vars, NEW p \in Project \ excused',
         removal'[p].pc = "delete" \/ phase'[p] = "gone"
  PROVE  \/ removal[p].pc = "delete" \/ phase[p] = "gone"
         \/ Owned(p) = {} /\ UNCHANGED object
         \/ \E i \in 1 .. Len(cleanups') : cleanups'[i].project = p
<1> USE DEF rowVars
<1>0. /\ removal \in [Project -> Removal]
      /\ phase \in [Project -> {"none", "open", "live", "gone", "aborted"}]
      /\ cleanups \in Seq(CleanupJob) /\ Len(cleanups) \in Nat
  BY LenProperties DEF Types, RemovalOK, RowsOK, QueueOK
<1>1. ASSUME NEW q \in Project, RemoveRead(q)
      PROVE  \/ removal'[p] = removal[p] /\ phase'[p] = phase[p]
             \/ Owned(p) = {} /\ UNCHANGED object
  <2> DEFINE list == RowsOf(q, Active)
             todo == RowsOf(q, Active \cap InProgress)
  <2>1. /\ removal' = [removal EXCEPT ![q] =
             [pc |-> IF todo # {} THEN "signal"
                     ELSE IF list # {} THEN "push" ELSE "delete",
              todo |-> todo, list |-> list, name |-> name[q]]]
        /\ excused' = IF Owned(q) # {} /\ RowsOf(q, InProgress \cup {"READY"}) = {}
                      THEN excused \cup {q} ELSE excused
        /\ UNCHANGED <<phase, object>> /\ phase[q] = "live"
    BY <1>1 DEF RemoveRead
  <2>2. list = RowsOf(q, InProgress \cup {"READY"})
    BY DEF Active
  <2> HIDE DEF list, todo
  <2>3. CASE p = q
    <3>1. removal'[q].pc = "delete"
      BY <1>0, <2>1, <2>3
    <3>2. list = {}
      BY <1>0, <2>1, <3>1
    <3> QED BY <2>1, <2>2, <2>3, <3>2
  <2>4. CASE p # q
    BY <1>0, <2>1, <2>4
  <2> QED BY <2>3, <2>4
<1>2. ASSUME NEW q \in Project, RemoveSignal(q)
      PROVE  removal[p].pc = "delete" \/ phase[p] = "gone"
  <2>1. UNCHANGED phase
    BY <1>2 DEF RemoveSignal
  <2>2. CASE removal' = [removal EXCEPT ![q] = NoRemoval]
    BY <1>0, <2>1, <2>2 DEF NoRemoval
  <2>3. ASSUME NEW d \in removal[q].todo,
               removal' = [removal EXCEPT
                 ![q].todo = @ \ {d},
                 ![q].pc = IF removal[q].todo = {d} THEN "push" ELSE "signal"]
        PROVE  removal[p].pc = "delete" \/ phase[p] = "gone"
    BY <1>0, <2>1, <2>3 DEF Removal
  <2> QED BY <1>2, <2>2, <2>3 DEF RemoveSignal
<1>3. ASSUME NEW q \in Project, RemovePush(q)
      PROVE  \/ removal[p].pc = "delete" \/ phase[p] = "gone"
             \/ \E i \in 1 .. Len(cleanups') : cleanups'[i].project = p
  <2> DEFINE job == [project |-> q, name |-> removal[q].name]
  <2>1. /\ removal[q].pc = "push" /\ UNCHANGED phase
        /\ removal' = [removal EXCEPT ![q].pc = "delete"]
        /\ cleanups' = Append(cleanups, job) \/ q \in excused'
    BY <1>3 DEF RemovePush
  <2>2. job \in CleanupJob /\ job.project = q
    BY <2>1 DEF Types, RemovalOK, CleanupJob
  <2>3. CASE p # q
    BY <1>0, <2>1, <2>3
  <2> HIDE DEF job
  <2>4. CASE p = q
    <3>1. cleanups' = Append(cleanups, job)
      BY <2>1, <2>4
    <3>2. /\ Len(cleanups') = Len(cleanups) + 1
          /\ cleanups'[Len(cleanups) + 1] = job
      BY <1>0, <2>2, <3>1, AppendProperties
    <3>3. Len(cleanups) + 1 \in 1 .. Len(cleanups')
      BY <1>0, <3>2
    <3> QED BY <2>2, <2>4, <3>2, <3>3
  <2> QED BY <2>3, <2>4
<1>4. ASSUME NEW q \in Project, RemoveDelete(q) \/ RemovalDies(q)
      PROVE  removal[p].pc = "delete" \/ phase[p] = "gone"
  BY <1>0, <1>4 DEF RemoveDelete, RemovalDies, NoRemoval
<1>5. ASSUME NEW q \in Project,
             EndTransaction(q) \/ \E n \in Name : CreateProject(q, n)
      PROVE  removal[p].pc = "delete" \/ phase[p] = "gone"
  BY <1>0, <1>5 DEF EndTransaction, CreateProject
<1>6. ASSUME NEW q \in Project, NEW n \in Name, UpdateName(q, n)
      PROVE  UNCHANGED <<phase, removal>>
  BY <1>6 DEF UpdateName
<1>7. CASE ProjectStep
  BY <1>1, <1>2, <1>3, <1>4, <1>5, <1>6, <1>7 DEF ProjectStep, RemovalStep
<1> QED BY <1>7, RequestStartFrame, RequestStepFrame, BuildFrame, CleanupFrame,
           ExpiryFrame, CrashFrame, StutterFrame DEF Next

LEMMA NextCleanups ==
  ASSUME Types, PlacesHeld, RemovalsHeld, NamesAgree, CleanupsCover, [Next]_vars
  PROVE  CleanupsCover'
<1>0. excused \subseteq excused'
  BY NextGhosts
<1> DEFINE Covered(p) ==
      \/ \E i \in 1 .. Len(cleanups) : cleanups[i].project = p
      \/ /\ cpc = "delete" /\ cjob.project = p
         /\ \A n \in K8sName, k \in Kind : object[n][k] = p => k <= ckind
      \/ \A n \in K8sName, k \in Kind : object[n][k] # p
<1>1. SUFFICES ASSUME NEW p \in Project \ excused',
                      removal'[p].pc = "delete" \/ phase'[p] = "gone"
               PROVE  Covered(p)'
  BY DEF CleanupsCover
<1>2. CASE Owned(p) = {} /\ UNCHANGED object
  <2>1. ASSUME NEW n \in K8sName, NEW k \in Kind PROVE object'[n][k] # p
    <3>1. <<n, k>> \notin Owned(p)
      BY <1>2
    <3> QED BY <1>2, <3>1 DEF Owned
  <2> QED BY <2>1
<1>3. CASE removal[p].pc = "delete" \/ phase[p] = "gone"
  <2>1. Covered(p) /\ p \notin excused
    BY <1>0, <1>3 DEF CleanupsCover
  \* Nothing is created for the project any more without an excuse.
  <2>2. ASSUME NEW n \in K8sName, NEW k \in Kind, object'[n][k] = p
        PROVE  object[n][k] = p
    <3>1. ASSUME Put, project[wjob] = p PROVE FALSE
      BY <1>3, <3>1 DEF Put
    <3> QED BY <2>2, <3>1, NextObjects DEF ObjectWritten
  <2>3. ASSUME NEW i \in 1 .. Len(cleanups), cleanups[i].project = p
        PROVE  Covered(p)'
    <3>1. CASE \E j \in 1 .. Len(cleanups') : cleanups'[j] = cleanups[i]
      BY <2>3, <3>1
    <3>2. CASE cpc' = "delete" /\ cjob' = cleanups[i] /\ ckind' = NumKind
      BY <2>3, <3>2
    <3> QED BY <3>1, <3>2, JobsStay
  <2>4. ASSUME cpc = "delete", cjob.project = p,
               \A n \in K8sName, k \in Kind : object[n][k] = p => k <= ckind
        PROVE  Covered(p)'
    <3>1. CASE UNCHANGED cleanupVars
      BY <2>2, <2>4, <3>1 DEF cleanupVars
    <3>2. CASE CleanupProject
      <4> DEFINE m == k8sNameOf[cjob.name]
      <4>1. m \in K8sName /\ ckind \in Kind /\ m = k8sNameOf[name[p]]
            /\ object \in [K8sName -> [Kind -> Project \cup {NoProject}]]
        BY <2>1, <2>4, CleanupInHand DEF NamesAgree, Types, ObjectsOK
      <4>2. object'[m][ckind] # p
        <5>1. DeleteObject(m, ckind)
          BY <3>2 DEF CleanupProject
        <5>2. CASE object' = [object EXCEPT ![m][ckind] = NoProject]
          BY <4>1, <5>2
        <5>3. CASE excused' = excused \cup ({object[m][ckind]} \ {NoProject})
                   /\ UNCHANGED object
          BY <5>3
        <5> QED BY <5>1, <5>2, <5>3 DEF DeleteObject
      <4>3. ASSUME NEW n \in K8sName, NEW k \in Kind, object'[n][k] = p
            PROVE  k < ckind
        <5>1. object[n][k] = p /\ k <= ckind
          BY <2>2, <2>4, <4>3
        <5>2. n = m
          BY <2>1, <4>1, <5>1 DEF NamesAgree
        <5>3. k # ckind
          BY <4>2, <4>3, <5>2
        <5> QED BY <4>1, <5>1, <5>3
      <4> HIDE DEF m
      <4>4. CASE CleanupEnds
        BY <4>3, <4>4 DEF CleanupEnds
      <4>5. CASE ~ CleanupEnds
        <5>1. ckind' = ckind - 1 /\ cpc' = "delete" /\ cjob'.project = p
          BY <2>4, <3>2, <4>5 DEF CleanupProject
        <5>2. \A n \in K8sName, k \in Kind : object'[n][k] = p => k <= ckind'
          BY <4>1, <4>3, <5>1
        <5> QED BY <5>1, <5>2
      <4> QED BY <4>4, <4>5
    <3> QED BY <2>4, <3>1, <3>2, CleanerGoesOn
  <2>5. ASSUME \A n \in K8sName, k \in Kind : object[n][k] # p
        PROVE  Covered(p)'
    BY <2>2, <2>5
  <2> QED BY <2>1, <2>3, <2>4, <2>5
<1>4. (\E i \in 1 .. Len(cleanups') : cleanups'[i].project = p) => Covered(p)'
  OBVIOUS
<1> HIDE DEF Covered
<1> QED BY <1>1, <1>2, <1>3, <1>4, RemovalEnds

\* Once no cleanup of a removed project waits or runs, it owns no object, with
\* the exceptions named in excused (project_cleanup.go:108,
\* projects.service.ts:251).
THEOREM LeaksKnown == Spec => []LeaksAreKnown
<1>1. Init => Places /\ NamesAgree /\ CleanupsCover
  BY EmptySeq DEF Init, Places, PlacesHeld, RemovalsHeld, RequestsHeld, ExpiryHeld,
     NoRemoval, NoRequest, NamesAgree, CleanupsCover
<1>2. Types /\ Places /\ [Next]_vars => Places'
  BY NextPlacesAll
<1>3. Types /\ Places /\ UncommittedNeverDeploys /\ NamesAgree /\ [Next]_vars
        => NamesAgree'
  BY NextNames
<1>4. Types /\ Places /\ NamesAgree /\ CleanupsCover /\ [Next]_vars
        => CleanupsCover'
  BY NextCleanups DEF Places
<1>5. Types /\ CleanupsCover => LeaksAreKnown
  <2> SUFFICES ASSUME Types, CleanupsCover, NEW p \in Project, phase[p] = "gone",
                      p \notin excused, cjob.project # p,
                      \A i \in DOMAIN cleanups : cleanups[i].project # p
               PROVE  Owned(p) = {}
    BY DEF LeaksAreKnown
  <2>1. DOMAIN cleanups = 1 .. Len(cleanups)
    BY LenProperties DEF Types, QueueOK
  <2>2. \A n \in K8sName, k \in Kind : object[n][k] # p
    BY <2>1 DEF CleanupsCover
  <2> QED BY <2>2 DEF Owned
<1> QED BY <1>1, <1>2, <1>3, <1>4, <1>5, TypesAlways, OnlyCommittedDeploy, PTL
        DEF Spec

-----------------------------------------------------------------------------
(* The cleanup goroutine under fairness.  The five kinds of objects of the   *)
(* code are used: tlapm has no induction over time, so the descent through   *)
(* them is written out.                                                      *)

\* What the provers cannot derive, for it is about ENABLED: with a job in hand
\* or in its list the goroutine can take a step.
CleanerIsNeverStuck ==
  cpc # "idle" \/ cleanups # <<>> => ENABLED <<CleanupStep>>_vars

CleanerIdle == cpc = "idle"

\* The goroutine has at most n objects ahead of it.
CleanerHas(n) == cpc = "delete" /\ ckind <= n

LEMMA CleanerSinks ==
  ASSUME Types, [Next]_vars, NEW n \in 1 .. 5, NEW m \in 0 .. 4, m = n - 1,
         CleanerHas(n)
  PROVE  /\ CleanerHas(n)' \/ CleanerIdle'
         /\ CleanupStep => CleanerHas(m)' \/ CleanerIdle'
<1> USE DEF CleanerHas, CleanerIdle
<1>1. ckind \in Kind /\ ckind \in Nat
  BY DEF Types, CleanerOK
<1>2. CASE CleanupProject
  BY <1>1, <1>2 DEF CleanupProject
<1>3. CASE WorkerCrash
  BY <1>3 DEF WorkerCrash
<1>4. CASE UNCHANGED cleanupVars /\ ~ CleanupProject
  BY <1>4 DEF cleanupVars, CleanupStep, PopProjectCleanup
<1> QED BY <1>2, <1>3, <1>4, CleanerIsAlone

CleanerLeaves(n, m) ==
  FairSpec /\ []CleanerIsNeverStuck
    => (CleanerHas(n) ~> CleanerHas(m) \/ CleanerIdle)

LEMMA CleanerComesOn ==
  ASSUME NEW n \in 1 .. 5, NEW m \in 0 .. 4, m = n - 1
  PROVE  CleanerLeaves(n, m)
<1>1. Types /\ CleanerHas(n) /\ [Next]_vars => CleanerHas(n)' \/ CleanerIdle'
  BY CleanerSinks
<1>2. Types /\ CleanerHas(n) /\ <<CleanupStep>>_vars
        => CleanerHas(m)' \/ CleanerIdle'
  BY CleanerSinks DEF Next
<1>3. CleanerIsNeverStuck /\ CleanerHas(n) => ENABLED <<CleanupStep>>_vars
  BY DEF CleanerIsNeverStuck, CleanerHas
<1>4. FairSpec => Spec /\ WF_vars(CleanupStep)
  BY PTL DEF FairSpec
<1> QED BY <1>1, <1>2, <1>3, <1>4, TypesAlways, PTL DEF Spec, CleanerLeaves

\* The cleanup goroutine comes back to its list again and again, whatever
\* fails on the way: it deletes five kinds of objects and goes on after an
\* error (deploy.go:106, project_cleanup.go:48).
THEOREM CleanerComesBack ==
  ASSUME NumKind <= 5
  PROVE  FairSpec /\ []CleanerIsNeverStuck => []<>CleanerIdle
<1>1. \A n \in 1 .. 5 : \A m \in 0 .. 4 : m = n - 1 => CleanerLeaves(n, m)
  BY CleanerComesOn
<1>2. /\ CleanerLeaves(5, 4) /\ CleanerLeaves(4, 3) /\ CleanerLeaves(3, 2)
      /\ CleanerLeaves(2, 1) /\ CleanerLeaves(1, 0)
  BY <1>1
<1>3. Types => (CleanerIdle \/ CleanerHas(5)) /\ ~ CleanerHas(0)
  <2> SUFFICES ASSUME Types PROVE (CleanerIdle \/ CleanerHas(5)) /\ ~ CleanerHas(0)
    OBVIOUS
  <2>1. cpc \in {"idle", "delete"} /\ (cpc = "delete" => ckind \in 1 .. NumKind)
    BY DEF Types, CleanerOK, Kind
  <2>2. NumKind \in Nat
    BY LifecycleAssumption DEF LifecycleAssumption
  <2> QED BY <2>1, <2>2 DEF CleanerIdle, CleanerHas
<1>4. FairSpec => Spec
  BY PTL DEF FairSpec
<1> QED BY <1>2, <1>3, <1>4, TypesAlways, PTL DEF CleanerLeaves

\* The job of p waits at place n of the list; at place 0 it is in hand.
WaitsAt(p, n) == n \in 1 .. Len(cleanups) /\ cleanups[n].project = p
InHand(p) == cjob.project = p

\* A list element moves up when the goroutine takes one, and else stays.
LEMMA WaitingStays ==
  ASSUME Types, [Next]_vars, NEW p \in Project, NEW n \in Nat, n > 1,
         NEW m \in Nat, m = n - 1, WaitsAt(p, n)
  PROVE  /\ WaitsAt(p, n)' \/ WaitsAt(p, m)'
         /\ CleanerIdle /\ CleanupStep => WaitsAt(p, m)'
<1> USE DEF rowVars, redisVars
<1>0. cleanups \in Seq(CleanupJob) /\ Len(cleanups) \in Nat
  BY LenProperties DEF Types, QueueOK
<1>1. ASSUME NEW q \in Project, RemovePush(q)
      PROVE  WaitsAt(p, n)'
  <2> DEFINE job == [project |-> q, name |-> removal[q].name]
  <2>1. cleanups' = Append(cleanups, job) \/ UNCHANGED cleanups
    BY <1>1 DEF RemovePush
  <2>2. job \in CleanupJob
    BY <1>1 DEF RemovePush, Types, RemovalOK, CleanupJob
  <2> HIDE DEF job
  <2>3. CASE cleanups' = Append(cleanups, job)
    <3>1. Len(cleanups') = Len(cleanups) + 1 /\ cleanups'[n] = cleanups[n]
      BY <1>0, <2>2, <2>3, AppendProperties DEF WaitsAt
    <3> QED BY <1>0, <3>1 DEF WaitsAt
  <2> QED BY <2>1, <2>3 DEF WaitsAt
<1>2. ASSUME PopProjectCleanup
      PROVE  WaitsAt(p, m)'
  <2>1. cleanups # <<>> /\ cleanups' = Tail(cleanups)
    BY <1>2 DEF PopProjectCleanup
  <2>2. /\ Len(cleanups') = Len(cleanups) - 1
        /\ \A j \in 1 .. Len(cleanups') : cleanups'[j] = cleanups[j + 1]
    BY <1>0, <2>1, HeadTailProperties
  <2>3. m \in 1 .. Len(cleanups') /\ m + 1 = n
    BY <1>0, <2>2 DEF WaitsAt
  <2>4. cleanups'[m] = cleanups[n]
    BY <2>2, <2>3
  <2> QED BY <2>3, <2>4 DEF WaitsAt
<1>3. ASSUME UNCHANGED cleanups PROVE WaitsAt(p, n)'
  BY <1>3 DEF WaitsAt
<1>4. PopProjectCleanup \/ UNCHANGED cleanups \/ \E q \in Project : RemovePush(q)
  BY ListSteps
<1>6. CleanerIdle /\ CleanupStep => PopProjectCleanup
  BY DEF CleanerIdle, CleanupStep, CleanupProject
<1> HIDE DEF WaitsAt
<1> QED BY <1>1, <1>2, <1>3, <1>4, <1>6

\* The job at the front is taken next.
LEMMA FrontIsTaken ==
  ASSUME Types, [Next]_vars, NEW p \in Project, WaitsAt(p, 1)
  PROVE  /\ WaitsAt(p, 1)' \/ InHand(p)'
         /\ CleanerIdle /\ CleanupStep => InHand(p)'
<1> USE DEF rowVars, redisVars
<1>0. cleanups \in Seq(CleanupJob) /\ Len(cleanups) \in Nat
  BY LenProperties DEF Types, QueueOK
<1>1. ASSUME NEW q \in Project, RemovePush(q)
      PROVE  WaitsAt(p, 1)'
  <2> DEFINE job == [project |-> q, name |-> removal[q].name]
  <2>1. cleanups' = Append(cleanups, job) \/ UNCHANGED cleanups
    BY <1>1 DEF RemovePush
  <2>2. job \in CleanupJob
    BY <1>1 DEF RemovePush, Types, RemovalOK, CleanupJob
  <2> HIDE DEF job
  <2>3. CASE cleanups' = Append(cleanups, job)
    <3>1. Len(cleanups') = Len(cleanups) + 1 /\ cleanups'[1] = cleanups[1]
      BY <1>0, <2>2, <2>3, AppendProperties DEF WaitsAt
    <3> QED BY <1>0, <3>1 DEF WaitsAt
  <2> QED BY <2>1, <2>3 DEF WaitsAt
<1>2. ASSUME PopProjectCleanup
      PROVE  InHand(p)'
  <2>1. cleanups # <<>> /\ cjob' = Head(cleanups)
    BY <1>2 DEF PopProjectCleanup
  <2>2. Head(cleanups) = cleanups[1]
    BY <1>0, <2>1, HeadTailProperties
  <2> QED BY <2>1, <2>2 DEF WaitsAt, InHand
<1>3. ASSUME UNCHANGED cleanups PROVE WaitsAt(p, 1)'
  BY <1>3 DEF WaitsAt
<1>4. PopProjectCleanup \/ UNCHANGED cleanups \/ \E q \in Project : RemovePush(q)
  BY ListSteps
<1>5. CleanerIdle /\ CleanupStep => PopProjectCleanup
  BY DEF CleanerIdle, CleanupStep, CleanupProject
<1> HIDE DEF WaitsAt, InHand
<1> QED BY <1>1, <1>2, <1>3, <1>4, <1>5

\* An idle goroutine stays idle until it takes a job.
LEMMA IdleUntilTaken ==
  CleanerIdle /\ [Next]_vars => CleanerIdle' \/ <<CleanupStep>>_vars
<1> SUFFICES ASSUME cpc = "idle", [Next]_vars
             PROVE  cpc' = "idle" \/ <<CleanupStep>>_vars
  BY DEF CleanerIdle
<1>1. PopProjectCleanup => <<CleanupStep>>_vars
  BY DEF PopProjectCleanup, CleanupStep, vars, workerVars, cleanupVars
<1>2. CleanupProject \/ WorkerCrash => cpc' = "idle"
  BY DEF CleanupProject, WorkerCrash
<1> QED BY <1>1, <1>2, ProjectFrame, RequestStartFrame, RequestStepFrame,
           BuildFrame, ExpiryFrame, StutterFrame DEF Next, CleanupStep

\* An idle goroutine holds no job ...
HandIsEmpty == cpc = "idle" => cjob = NoCleanup

LEMMA HandEmptyAlways == Spec => []HandIsEmpty
<1>1. Init => HandIsEmpty
  BY DEF Init, HandIsEmpty
<1>2. HandIsEmpty /\ [Next]_vars => HandIsEmpty'
  <2> SUFFICES ASSUME HandIsEmpty, [Next]_vars PROVE HandIsEmpty'
    OBVIOUS
  <2>1. CleanupStep \/ WorkerCrash => HandIsEmpty'
    BY DEF CleanupStep, PopProjectCleanup, CleanupProject, WorkerCrash, HandIsEmpty
  <2>2. UNCHANGED <<cpc, cjob>> => HandIsEmpty'
    BY DEF HandIsEmpty
  <2> QED BY <2>1, <2>2, ProjectFrame, RequestStartFrame, RequestStepFrame,
             BuildFrame, ExpiryFrame, StutterFrame DEF Next
<1> QED BY <1>1, <1>2, PTL DEF Spec

\* ... and a project that is gone stays gone.
LEMMA PhaseStays ==
  ASSUME Types, [Next]_vars, NEW p \in Project, phase[p] = "gone"
  PROVE  phase'[p] = "gone"
<1> USE DEF rowVars
<1>0. phase \in [Project -> {"none", "open", "live", "gone", "aborted"}]
  BY DEF Types, RowsOK
<1>1. ASSUME NEW q \in Project,
             \/ EndTransaction(q) \/ RemoveDelete(q)
             \/ \E x \in Name : CreateProject(q, x)
      PROVE  phase'[p] = "gone"
  BY <1>0, <1>1 DEF EndTransaction, RemoveDelete, CreateProject
<1>2. ASSUME NEW q \in Project,
             \/ RemoveRead(q) \/ RemoveSignal(q) \/ RemovePush(q)
             \/ RemovalDies(q) \/ \E x \in Name : UpdateName(q, x)
      PROVE  UNCHANGED phase
  BY <1>2 DEF RemoveRead, RemoveSignal, RemovePush, RemovalDies, UpdateName
<1>3. CASE ProjectStep
  BY <1>1, <1>2, <1>3 DEF ProjectStep, RemovalStep
<1> QED BY <1>3, RequestStartFrame, RequestStepFrame, BuildFrame, CleanupFrame,
           ExpiryFrame, CrashFrame, StutterFrame DEF Next

\* Whoever waits comes one place nearer to the goroutine, and from the first
\* place into its hand: LPUSH and RPOP lose and overtake nobody, however many
\* removals push meanwhile (queue.go:104, queues.service.ts:53).
THEOREM CleanupsMoveUp ==
  ASSUME NumKind <= 5, NEW p \in Project, NEW n \in Nat, n > 1,
         NEW m \in Nat, m = n - 1
  PROVE  FairSpec /\ []CleanerIsNeverStuck
           => /\ WaitsAt(p, n) ~> WaitsAt(p, m)
              /\ WaitsAt(p, 1) ~> InHand(p)
<1>1. Types /\ WaitsAt(p, n) /\ [Next]_vars => WaitsAt(p, n)' \/ WaitsAt(p, m)'
  BY WaitingStays
<1>2. Types /\ WaitsAt(p, n) /\ CleanerIdle /\ <<CleanupStep>>_vars => WaitsAt(p, m)'
  BY WaitingStays DEF Next
<1>3. Types /\ WaitsAt(p, 1) /\ [Next]_vars => WaitsAt(p, 1)' \/ InHand(p)'
  BY FrontIsTaken
<1>4. Types /\ WaitsAt(p, 1) /\ CleanerIdle /\ <<CleanupStep>>_vars => InHand(p)'
  BY FrontIsTaken DEF Next
<1>5. CleanerIsNeverStuck /\ (WaitsAt(p, n) \/ WaitsAt(p, 1))
        => ENABLED <<CleanupStep>>_vars
  BY DEF CleanerIsNeverStuck, WaitsAt
<1>6. FairSpec => Spec /\ WF_vars(CleanupStep)
  BY PTL DEF FairSpec
<1>7. CleanerIdle /\ [Next]_vars => CleanerIdle' \/ <<CleanupStep>>_vars
  BY IdleUntilTaken
<1>8. FairSpec /\ []CleanerIsNeverStuck => []<>CleanerIdle
  BY CleanerComesBack
<1> QED BY <1>1, <1>2, <1>3, <1>4, <1>5, <1>6, <1>7, <1>8, TypesAlways,
     PTL DEF Spec

\* Nothing of p is left to be carried out.
Quiet(p) ==
  phase[p] = "gone" /\ \A i \in 1 .. Len(cleanups) : cleanups[i].project # p

\* No removal of a project that is gone is in flight, so none is pushed again.
LEMMA QuietStays ==
  ASSUME Types, [Next]_vars, NEW p \in Project, Quiet(p)
  PROVE  Quiet(p)'
<1>1. phase'[p] = "gone"
  BY PhaseStays DEF Quiet
<1>2. ASSUME NEW i \in 1 .. Len(cleanups')
      PROVE  cleanups'[i].project # p
  <2>1. ASSUME NEW q \in Project, removal[q].pc = "push"
        PROVE  q # p
    BY <2>1 DEF Types, RemovalOK, Quiet
  <2> QED BY <2>1, CleanupSteps DEF Quiet
<1> QED BY <1>1, <1>2 DEF Quiet

\* With an empty hand and nothing in the list, a removed project owns nothing,
\* with the known exceptions (LeaksAreKnown).
Cleared(p) == Owned(p) = {} \/ p \in excused

LEMMA QuietHand ==
  ASSUME Types, HandIsEmpty, LeaksAreKnown, NEW p \in Project, Quiet(p), CleanerIdle
  PROVE  Cleared(p)
<1>1. DOMAIN cleanups = 1 .. Len(cleanups)
  BY LenProperties DEF Types, QueueOK
<1>2. cjob.project # p
  BY LifecycleAssumption DEF LifecycleAssumption, HandIsEmpty, CleanerIdle, NoCleanup
<1> QED BY <1>1, <1>2 DEF LeaksAreKnown, Quiet, Cleared

\* Once no job of a removed project waits any more, its objects disappear, or
\* it is one of the known cases: what RemovedIsCleared says but for the wait
\* in the list, of which CleanupsMoveUp is every step (project_cleanup.go:98).
THEOREM QuietIsCleared ==
  ASSUME NumKind <= 5, NEW p \in Project
  PROVE  FairSpec /\ []CleanerIsNeverStuck => (Quiet(p) ~> Cleared(p))
<1>1. Types /\ Quiet(p) /\ [Next]_vars => Quiet(p)'
  BY QuietStays
<1>2. Types /\ HandIsEmpty /\ LeaksAreKnown /\ Quiet(p) /\ CleanerIdle => Cleared(p)
  BY QuietHand
<1>3. FairSpec /\ []CleanerIsNeverStuck => []<>CleanerIdle
  BY CleanerComesBack
<1>4. FairSpec => Spec
  BY PTL DEF FairSpec
<1> QED BY <1>1, <1>2, <1>3, <1>4, TypesAlways, HandEmptyAlways, LeaksKnown,
     PTL DEF Spec
=============================================================================

---------------------------- MODULE OutcomeProofs ----------------------------
(***************************************************************************)
(* What becomes of a deployment, for every number of projects, handlers    *)
(* and rows and every set of faults: a cancel signal that reaches Redis    *)
(* before the last check keeps it out of the cluster; a row in progress is *)
(* in somebody's hands; a superseded one has a live successor; its status  *)
(* and isSuccess tell the same story; and a job once taken is over for     *)
(* good some day, if the loop is fair and never without a next step.       *)
(***************************************************************************)
EXTENDS DeployPipelineProofs

\* The row's job is not in the worker's hands yet.
Waiting(d) == (\E r \in Request : Pushing(r, d)) \/ Queued(d)

LEMMA AwaitsWaiting ==
  ASSUME NEW d
  PROVE  AwaitsCheck(d) <=> Waiting(d) \/ (wjob = d /\ wpc \in BeforeLastCheck)
BY DEF AwaitsCheck, Waiting

\* A waiting job was never taken.
LEMMA WaitingIsNotTaken ==
  ASSUME JobTypeInv, NEW d, Waiting(d)
  PROVE  d \in Row /\ d \notin popped
BY DEF JobTypeInv, JobInv, Waiting, Pushing, Queued

\* No job comes back to wait, and what is known of a row stays.
LEMMA RowsStay ==
  ASSUME JobTypeInv, TypeInv', [Next]_vars
  PROVE  /\ Row \subseteq Row'
         /\ popped \subseteq popped'
         /\ \A d \in Row : /\ Waiting(d)' => Waiting(d)
                           /\ project'[d] = project[d]
<1>1. CASE \E r \in Request : RowCreated(r)
  <2>1. PICK r \in Request, prev \in Dep \cup {NoDep} :
             req[r].pc # "enqueue" /\ NewRow(r, prev)
    BY <1>1 DEF RowCreated
  <2>2. /\ created \in Nat /\ created' = created + 1
        /\ UNCHANGED <<queue, popped>>
        /\ \A q \in Request \ {r} : req'[q] = req[q]
        /\ req'[r].dep = created + 1
        /\ \A d \in Dep \ {created + 1} : project'[d] = project[d]
    BY <2>1 DEF NewRow, Goto, JobTypeInv, TypeInv, TypeOK, ghostVars
  <2>3. Row \subseteq Row' /\ \A d \in Row : d \in Dep \ {created + 1}
    BY <2>2, PipelineAssumption
       DEF Row, Dep, JobTypeInv, TypeInv, TypeOK
  <2>4. \A d \in Row : Waiting(d)' => Waiting(d)
    BY <2>2, <2>3 DEF Waiting, Pushing, Queued
  <2>5. QED BY <2>2, <2>3, <2>4
<1>2. ASSUME NEW r \in Request, Enqueue(r)
      PROVE  /\ UNCHANGED <<created, project, popped>>
             /\ \A d \in Row : Waiting(d)' => Waiting(d)
  <2>1. /\ queue \in Seq(Dep) /\ req[r].dep \in Dep /\ req[r].pc = "enqueue"
    BY <1>2, RequestFields
       DEF Enqueue, NeedsRow, JobTypeInv, TypeInv, TypeOK
  <2>2. /\ DOMAIN queue = 1 .. Len(queue) /\ Len(queue) \in Nat
        /\ DOMAIN queue' = 1 .. Len(queue) + 1
        /\ \A i \in 1 .. Len(queue) : queue'[i] = queue[i]
        /\ queue'[Len(queue) + 1] = req[r].dep
    BY <1>2, <2>1, AppendProperties, LenProperties DEF Enqueue
  <2>3. /\ UNCHANGED <<created, project, popped>>
        /\ \A q \in Request \ {r} : req'[q] = req[q]
        /\ req'[r].pc # "enqueue"
    BY <1>2 DEF Enqueue, NoRequest, JobTypeInv, TypeInv, TypeOK, dbVars,
                ghostVars
  <2>4. \A d \in Row : Queued(d)' => Queued(d) \/ Pushing(r, d)
    BY <2>1, <2>2 DEF Queued, Pushing
  <2>5. \A d \in Row : \A q \in Request : Pushing(q, d)' => Pushing(q, d)
    BY <2>3 DEF Pushing
  <2>6. QED BY <2>3, <2>4, <2>5 DEF Waiting
<1>3. ASSUME NEW r \in Request, RequestDies(r)
      PROVE  /\ UNCHANGED <<created, project, popped>>
             /\ \A d \in Row : Waiting(d)' => Waiting(d)
  <2>1. /\ UNCHANGED <<created, project, queue, popped>>
        /\ \A q \in Request \ {r} : req'[q] = req[q]
        /\ req'[r].pc # "enqueue"
    BY <1>3 DEF RequestDies, NoRequest, JobTypeInv, TypeInv, TypeOK, dbVars
  <2>2. QED BY <2>1 DEF Waiting, Pushing, Queued
<1>4. ASSUME WaitForJob
      PROVE  /\ UNCHANGED <<created, project>> /\ popped \subseteq popped'
             /\ \A d \in Row : Waiting(d)' => Waiting(d)
  <2>1. /\ queue \in Seq(Dep) /\ queue # <<>> /\ queue' = Remaining(queue)
        /\ UNCHANGED <<created, project, req>> /\ popped \subseteq popped'
    BY <1>4 DEF WaitForJob, JobTypeInv, TypeInv, TypeOK, dbVars, apiVars
  <2>2. \A i \in DOMAIN queue' : i \in DOMAIN queue /\ queue'[i] = queue[i]
    BY <2>1, RemainingProperties, LenProperties
  <2>3. QED BY <2>1, <2>2 DEF Waiting, Pushing, Queued
<1>5. CASE JobEnds \/ JobsStay
  BY <1>5 DEF JobEnds, JobsStay, Waiting, Pushing, Queued, Row
<1>6. QED BY <1>1, <1>2, <1>3, <1>4, <1>5, NextCases DEF JobTypeInv, Row

-----------------------------------------------------------------------------
(* Steps that cannot lose or ignore a binding signal *)

\* The row in the worker's hands goes no further than the next check, no row
\* succeeds or is deployed, and no signal is lost that a check would read.
CancelStay ==
  /\ binding' \subseteq binding
  /\ isSuccess' \subseteq isSuccess
  /\ \A p \in Project : cluster'[p] \in {cluster[p], NoDep}
  /\ \A d \in binding' \cap cancelKey :
       d \in cancelKey' \/ (d \in popped /\ wpc' = "idle")
  /\ wpc' \in BeforeLastCheck => wjob' = wjob /\ wpc \in BeforeLastCheck
  /\ wpc' \in Deploying \cup Live =>
       wjob' = wjob /\ wpc \in Deploying \cup Live

\* The check before DEPLOYING is written; the others lead to another check.
LastCheck == CheckCancelled /\ wpc = "check5"

\* Five kinds of step are left.
LEMMA CancelCases ==
  JobTypeInv /\ [Next]_vars =>
    \/ \E d \in Dep : PublishCancelSignal(d) /\
         UNCHANGED <<isSuccess, wpc, wjob, cluster>>
    \/ WaitForJob
    \/ LastCheck
    \/ Deploy
    \/ MarkReady
    \/ CancelStay
<1> SUFFICES ASSUME JobTypeInv, [Next]_vars,
                    ~ \E d \in Dep : PublishCancelSignal(d) /\
                        UNCHANGED <<isSuccess, wpc, wjob, cluster>>,
                    ~ WaitForJob, ~ LastCheck, ~ Deploy, ~ MarkReady
             PROVE  CancelStay
  OBVIOUS
<1> USE DEF dbVars, apiVars, workerVars, expiryVars, ghostVars, CancelStay
<1>1. ASSUME NEW r \in Request, NEW p \in Project, CreateCheck(r, p)
      PROVE  CancelStay
  BY <1>1 DEF CreateCheck
<1>2. ASSUME NEW r \in Request, NEW p \in Project, PushRead(r, p)
      PROVE  CancelStay
  BY <1>2 DEF PushRead
<1>3. ASSUME NEW r \in Request, NEW d \in Dep, CancelRead(r, d)
      PROVE  CancelStay
  BY <1>3 DEF CancelRead
<1>4. ASSUME NEW r \in Request, CreateRow(r)
      PROVE  CancelStay
  BY <1>4 DEF CreateRow, NewRow
<1>5. ASSUME NEW r \in Request, PushOverwrite(r)
      PROVE  CancelStay
  BY <1>5 DEF PushOverwrite
<1>6. ASSUME NEW r \in Request, PushRow(r)
      PROVE  CancelStay
  BY <1>6 DEF PushRow, NewRow
<1>7. ASSUME NEW r \in Request, Enqueue(r)
      PROVE  CancelStay
  BY <1>7 DEF Enqueue
<1>8. ASSUME NEW r \in Request, CancelWrite(r)
      PROVE  CancelStay
  BY <1>8 DEF CancelWrite
<1>9. ASSUME NEW r \in Request, RequestDies(r)
      PROVE  CancelStay
  BY <1>9 DEF RequestDies
<1>10. ASSUME NEW d \in Dep, NEW s \in ManualStatus, ManualUpdate(d, s)
      PROVE  CancelStay
  BY <1>10 DEF ManualUpdate
<1>11. ASSUME NEW d \in Dep, SignalExpires(d)
      PROVE  CancelStay
  BY <1>11 DEF SignalExpires
<1>12. ASSUME NEW r \in Request, PushSignal(r) \/ CancelPublish(r)
      PROVE  CancelStay
  BY <1>12, RequestFields DEF PushSignal, CancelPublish, NeedsRow, JobTypeInv
<1>13. ASSUME WorkerStep PROVE CancelStay
  <2> USE LabelSets, Labels DEF Deploying, Live, Cancelling
  <2>1. CASE CheckCancelled
    BY <2>1 DEF CheckCancelled, LastCheck, Deploying, Live
  <2>2. CASE MarkPending
    BY <2>2 DEF MarkPending
  <2>3. CASE MarkBuilding
    BY <2>3 DEF MarkBuilding, StatusCall, ApplyStatus
  <2>4. CASE LogHeader
    BY <2>4 DEF LogHeader, Restart, Release
  <2>5. CASE RunPhase
    BY <2>5 DEF RunPhase
  <2>6. CASE MarkImage
    BY <2>6 DEF MarkImage, StatusCall, ApplyStatus
  <2>7. CASE MarkDeploying
    BY <2>7 DEF MarkDeploying, StatusCall, ApplyStatus
  <2>8. CASE MarkActive
    BY <2>8 DEF MarkActive
  <2>9. CASE Supersede
    BY <2>9 DEF Supersede, StatusCall, ApplyStatus
  <2>10. CASE StartStreaming
    BY <2>10 DEF StartStreaming, Release
  <2>11. CASE FailJob
    BY <2>11 DEF FailJob, ApplyStatus, Release
  <2>12. CASE MarkCancelled
    BY <2>12 DEF MarkCancelled, StatusCall, ApplyStatus
  <2>13. CASE CancelCleanup
    BY <2>13 DEF CancelCleanup, TearDown, JobTypeInv, TypeInv, TypeOK
  <2>14. CASE CleanupDeployment
    BY <2>14 DEF CleanupDeployment, StatusCall, ApplyStatus
  <2>15. CASE MarkInactive
    BY <2>15 DEF MarkInactive
  <2>16. CASE ClearCancelSignal
    BY <2>16 DEF ClearCancelSignal, Release, JobTypeInv, JobInv
  <2>17. QED
    BY <1>13, <2>1, <2>2, <2>3, <2>4, <2>5, <2>6, <2>7, <2>8, <2>9,
       <2>10, <2>11, <2>12, <2>13, <2>14, <2>15, <2>16,
       Zenon DEF WorkerStep
<1>14. ASSUME ExpiryStep PROVE CancelStay
  BY <1>14 DEF ExpiryStep, ExpiryFetch, ExpiryNext, ExpiryCleanup,
     ExpiryMark, ExpiryInactive, TearDown, ApplyStatus, JobTypeInv, TypeInv,
     TypeOK
<1>15. ASSUME WorkerCrash PROVE CancelStay
  BY <1>15, LabelSets DEF WorkerCrash, Restart, Release, Deploying, Live
<1>16. CASE UNCHANGED vars
  BY <1>16 DEF vars
<1>17. QED
  BY <1>1, <1>2, <1>3, <1>4, <1>5, <1>6, <1>7, <1>8, <1>9,
     <1>10, <1>11, <1>12, <1>13, <1>14, <1>15, <1>16,
     Zenon DEF Next, HandlerStep
-----------------------------------------------------------------------------
(* The invariant and its preservation *)

\* What no binding signal's row has reached.
Honoured == JobTypeInv /\ CancelInv /\ CancelIsHonoured

LEMMA InitHonoured == Init => CancelInv /\ CancelIsHonoured
BY LabelSets DEF Init, CancelInv, CancelIsHonoured, Deploying, Live, NoDep

LEMMA CancelStayInv ==
  ASSUME Honoured, JobTypeInv', [Next]_vars, CancelStay
  PROVE  CancelInv' /\ CancelIsHonoured'
<1> USE DEF Honoured
<1>1. /\ Row \subseteq Row' /\ popped \subseteq popped'
      /\ \A d \in Row : /\ Waiting(d)' => Waiting(d)
                        /\ project'[d] = project[d]
  BY RowsStay DEF JobTypeInv
<1>2. binding' \subseteq Row /\ popped \subseteq Row
  BY DEF CancelStay, CancelInv, JobTypeInv, JobInv
<1>3. ASSUME NEW d \in binding', AwaitsCheck(d)' PROVE d \in cancelKey'
  <2>1. Waiting(d)' \/ (wjob' = d /\ wpc' \in BeforeLastCheck)
    BY <1>3 DEF AwaitsCheck, Waiting
  <2>2. AwaitsCheck(d)
    BY <1>1, <1>2, <2>1, AwaitsWaiting DEF CancelStay
  <2>3. d \in cancelKey
    BY <2>2 DEF CancelStay, CancelInv
  <2>4. d \notin popped \/ wpc' # "idle"
    <3>1. CASE Waiting(d)'
      BY <1>1, <1>2, <3>1, WaitingIsNotTaken
    <3>2. CASE wpc' \in BeforeLastCheck
      BY <3>2, LabelSets
    <3>3. QED BY <2>1, <3>1, <3>2
  <2>5. QED BY <2>3, <2>4 DEF CancelStay
<1>4. wjob' \in binding' => wpc' \notin Deploying \cup Live
  BY DEF CancelStay, CancelInv
<1>5. isSuccess' \subseteq popped'
  BY <1>1 DEF CancelStay, CancelInv
<1>6. \A p \in Project : cluster'[p] # NoDep =>
        cluster'[p] \in popped' /\ project'[cluster'[p]] = p
  BY <1>1, <1>2 DEF CancelStay, CancelInv
<1>7. wpc' \in BeforeLastCheck =>
        wjob' \notin isSuccess' /\ \A p \in Project : cluster'[p] # wjob'
  <2>1. SUFFICES ASSUME wpc' \in BeforeLastCheck
        PROVE  wjob' \notin isSuccess' /\ \A p \in Project : cluster'[p] # wjob'
    OBVIOUS
  <2>2. wjob' = wjob /\ wjob # NoDep
    BY <2>1, LabelSets DEF CancelStay, JobTypeInv, TypeInv, Shape
  <2>3. QED BY <2>1, <2>2 DEF CancelStay, CancelInv
<1>8. \A d \in binding' : d # NoDep
  BY <1>2 DEF Row, NoDep
<1>9. CancelIsHonoured'
  BY <1>8 DEF CancelStay, CancelIsHonoured
<1>10. binding' \subseteq Row'
  BY <1>1, <1>2
<1>11. QED BY <1>3, <1>4, <1>5, <1>6, <1>7, <1>9, <1>10 DEF CancelInv

LEMMA PublishInv ==
  ASSUME Honoured, JobTypeInv', [Next]_vars, NEW d \in Dep,
         PublishCancelSignal(d), UNCHANGED <<isSuccess, wpc, wjob, cluster>>
  PROVE  CancelInv' /\ CancelIsHonoured'
<1> USE DEF Honoured
<1>1. /\ Row \subseteq Row' /\ popped \subseteq popped' /\ popped \subseteq Row
      /\ \A c \in Row : /\ Waiting(c)' => Waiting(c)
                        /\ project'[c] = project[c]
  BY RowsStay DEF JobTypeInv, JobInv
<1>2. /\ cancelKey' = cancelKey \cup {d}
      /\ binding' \subseteq binding \cup {d}
      /\ d \in binding' => d \in binding \/ AwaitsCheck(d)
  BY DEF PublishCancelSignal
<1>3. AwaitsCheck(d) => /\ d \in Row /\ d \notin isSuccess
                        /\ \A p \in Project : cluster[p] # d
                        /\ wjob = d => wpc \notin Deploying \cup Live
  <2>1. CASE Waiting(d)
    <3>1. d \in Row /\ d \notin popped
      BY <2>1, WaitingIsNotTaken
    <3>2. d # NoDep /\ (wjob = d => wpc = "idle")
      BY <3>1 DEF Row, NoDep, JobTypeInv, JobInv
    <3>3. QED BY <3>1, <3>2 DEF CancelInv, Deploying, Live
  <2>2. CASE wjob = d /\ wpc \in BeforeLastCheck
    <3>1. wpc # "idle" /\ wpc \notin Deploying \cup Live
      BY <2>2, LabelSets DEF Deploying, Live
    <3>2. d \in Row
      BY <2>2, <3>1, <1>1 DEF JobTypeInv, JobInv
    <3>3. QED BY <2>2, <3>1, <3>2 DEF CancelInv
  <2>3. QED BY <2>1, <2>2, AwaitsWaiting
<1>4. binding' \subseteq Row'
  BY <1>1, <1>2, <1>3 DEF CancelInv
<1>5. ASSUME NEW c \in binding', AwaitsCheck(c)' PROVE c \in cancelKey'
  <2>1. CASE c = d
    BY <1>2, <2>1
  <2>2. CASE c # d
    <3>1. c \in binding /\ c \in Row
      BY <1>2, <2>2 DEF CancelInv
    <3>2. Waiting(c)' \/ (wjob = c /\ wpc \in BeforeLastCheck)
      BY <1>5 DEF AwaitsCheck, Waiting
    <3>3. AwaitsCheck(c)
      BY <1>1, <3>1, <3>2, AwaitsWaiting
    <3>4. QED BY <1>2, <3>1, <3>3 DEF CancelInv
  <2>3. QED BY <2>1, <2>2
<1>6. wjob \in binding' => wpc \notin Deploying \cup Live
  BY <1>2, <1>3 DEF CancelInv
<1>7. CancelIsHonoured'
  BY <1>2, <1>3 DEF CancelIsHonoured
<1>8. QED BY <1>1, <1>4, <1>5, <1>6, <1>7 DEF CancelInv

LEMMA TakeInv ==
  ASSUME Honoured, JobTypeInv', [Next]_vars, WaitForJob
  PROVE  CancelInv' /\ CancelIsHonoured'
<1> USE DEF Honoured
<1>1. /\ Row' = Row /\ popped \subseteq popped' /\ popped \subseteq Row
      /\ \A c \in Row : Waiting(c)' => Waiting(c)
      /\ UNCHANGED <<binding, isSuccess, cluster, project, cancelKey>>
      /\ wpc' = "check1"
  BY RowsStay DEF WaitForJob, JobTypeInv, JobInv, Row, dbVars
<1>2. wjob' \notin popped /\ wjob' # NoDep /\ wjob' = NextJob(queue)
  BY WaitForJobInv, <1>1
     DEF WaitForJob, JobTypeInv, TypeInv, Shape
<1>3. Waiting(wjob')
  <2>1. queue \in Seq(Dep) /\ queue # <<>>
    BY DEF WaitForJob, JobTypeInv, TypeInv, TypeOK
  <2>2. /\ Len(queue) \in Nat /\ Len(queue) > 0
        /\ NextJob(queue) = queue[Len(queue)]
    BY <2>1, RemainingProperties
  <2>3. DOMAIN queue = 1 .. Len(queue)
    BY <2>1, LenProperties
  <2>4. QED BY <1>2, <2>2, <2>3 DEF Waiting, Queued
<1>4. ASSUME NEW c \in binding, AwaitsCheck(c)' PROVE c \in cancelKey
  <2>1. Waiting(c)' \/ wjob' = c
    BY <1>4 DEF AwaitsCheck, Waiting
  <2>2. Waiting(c)
    BY <1>1, <1>3, <2>1 DEF CancelInv
  <2>3. QED BY <2>2, AwaitsWaiting DEF CancelInv
<1>5. "check1" \notin Deploying \cup Live
  BY DEF Deploying, Live
<1>6. wjob' \notin isSuccess /\ \A p \in Project : cluster[p] # wjob'
  BY <1>2 DEF CancelInv
<1>7. QED BY <1>1, <1>4, <1>5, <1>6 DEF CancelInv, CancelIsHonoured

LEMMA LastCheckInv ==
  ASSUME Honoured, JobTypeInv', [Next]_vars, LastCheck
  PROVE  CancelInv' /\ CancelIsHonoured'
<1> USE DEF Honoured
<1>1. /\ UNCHANGED <<created, project, popped, queue, cancelKey, isSuccess,
                     cluster, wjob, req>>
      /\ binding' \subseteq binding /\ wpc' \in {"cancelled", "deploying"}
      /\ wpc' = "deploying" => wjob \notin binding' \/ wjob \notin cancelKey
      /\ wpc \in BeforeLastCheck
  BY Labels, LabelSets DEF LastCheck, CheckCancelled, dbVars, apiVars
<1>2. wpc' \notin BeforeLastCheck /\ "cancelled" \notin Deploying \cup Live
  BY <1>1, LabelSets DEF Deploying, Live
<1>3. \A d : AwaitsCheck(d)' => AwaitsCheck(d)
  BY <1>1, <1>2 DEF AwaitsCheck, Pushing, Queued
<1>4. wjob \in binding' => wjob \in cancelKey
  BY <1>1 DEF CancelInv, AwaitsCheck
<1>5. wjob' \in binding' => wpc' \notin Deploying \cup Live
  BY <1>1, <1>2, <1>4
<1>6. QED BY <1>1, <1>2, <1>3, <1>5 DEF CancelInv, CancelIsHonoured, Row

LEMMA ApplyInv ==
  ASSUME Honoured, JobTypeInv', [Next]_vars, Deploy \/ MarkReady
  PROVE  CancelInv' /\ CancelIsHonoured'
<1> USE DEF Honoured
<1>1. /\ UNCHANGED <<created, project, popped, queue, cancelKey, binding,
                     wjob, req>>
      /\ wpc \in {"deploy", "ready"}
      /\ wpc' \in {"ready", "active", "failing"}
      /\ isSuccess' \subseteq isSuccess \cup {wjob}
      /\ \A p \in Project : \/ cluster'[p] = cluster[p]
                            \/ p = project[wjob] /\ cluster'[p] = wjob
  BY DEF Deploy, MarkReady, StatusCall, ApplyStatus, JobTypeInv, TypeInv,
         TypeOK, dbVars, apiVars, ghostVars
<1>2. wpc' \notin BeforeLastCheck /\ wpc \in Deploying /\ wpc # "idle"
  BY <1>1, LabelSets DEF Deploying
<1>3. wjob \in popped /\ wjob \notin binding
  BY <1>2 DEF CancelInv, JobTypeInv, JobInv
<1>4. \A d : AwaitsCheck(d)' => AwaitsCheck(d)
  BY <1>1, <1>2 DEF AwaitsCheck, Pushing, Queued
<1>5. QED BY <1>1, <1>2, <1>3, <1>4 DEF CancelInv, CancelIsHonoured, Row

LEMMA NextHonoured == Honoured /\ JobTypeInv' /\ [Next]_vars => Honoured'
BY CancelCases, CancelStayInv, PublishInv, TakeInv, LastCheckInv, ApplyInv
   DEF Honoured

LEMMA HonouredAlways == Spec => []Honoured
<1>1. Init => CancelInv /\ CancelIsHonoured
  BY InitHonoured
<1>2. Honoured /\ JobTypeInv' /\ [Next]_vars => Honoured'
  BY NextHonoured
<1>3. Spec => []JobTypeInv
  BY JobInvariant DEF JobTypeInv
<1>4. CancelInv /\ CancelIsHonoured /\ JobTypeInv <=> Honoured
  BY DEF Honoured
<1>5. QED BY <1>1, <1>2, <1>3, <1>4, PTL DEF Spec

-----------------------------------------------------------------------------
(* The theorems *)

\* A signal published before the last check, and lost neither to its TTL nor
\* to a failing read, keeps its deployment out of the cluster and from ever
\* succeeding, for any number of projects, handlers and deployments and
\* whatever else fails.
THEOREM CancelHonoured == Spec => []CancelIsHonoured
<1>1. Honoured => CancelIsHonoured
  BY DEF Honoured
<1>2. QED BY <1>1, HonouredAlways, PTL

\* What runs under a project's name is a deployment of that project whose job
\* was taken and has no check ahead.
THEOREM ClusterIsTaken == Spec => []ClusterRunsTakenJob
<1>1. Honoured => ClusterRunsTakenJob
  <2> SUFFICES ASSUME Honoured, NEW p \in Project, cluster[p] # NoDep
               PROVE  /\ project[cluster[p]] = p
                      /\ cluster[p] \in popped
                      /\ ~ AwaitsCheck(cluster[p])
    BY DEF ClusterRunsTakenJob
  <2>1. cluster[p] \in popped /\ project[cluster[p]] = p
    BY DEF Honoured, CancelInv
  <2>2. ~ Waiting(cluster[p])
    BY <2>1, WaitingIsNotTaken DEF Honoured
  <2>3. ~ (wjob = cluster[p] /\ wpc \in BeforeLastCheck)
    BY DEF Honoured, CancelInv
  <2>4. QED BY <2>1, <2>2, <2>3, AwaitsWaiting
<1>2. QED BY <1>1, HonouredAlways, PTL

-----------------------------------------------------------------------------
(* Who writes what *)

\* The steps after the last one that writes the worker's own row.
Finishing == {"cleanup", "cleanupApi", "inactive", "clear"}

\* Row d gets status s: by the handler that creates it, by a cancelling
\* handler, by hand, by the worker that holds its job or replaces it, or by
\* the expiry goroutine.
Writes(d, s) ==
  \/ s = "QUEUED" /\ d = created + 1 /\ d = created'
  \/ s = "CANCELED"
  \/ s \in ManualStatus
  \/ s = "BUILDING" /\ d = wjob /\ wpc \in BeforeLastCheck
       /\ wjob' = wjob /\ wpc' \in BeforeLastCheck \cup {"failing"}
  \/ s = "DEPLOYING" /\ d = wjob /\ wpc = "deploying"
       /\ wjob' = wjob /\ wpc' \in {"deploy", "failing"}
  \/ s = "READY" /\ d = wjob /\ wpc = "ready" /\ d \in isSuccess'
  \/ s = "SUPERSEDED" /\ d = previous[wjob] /\ wpc = "supersede"
  \/ s = "FAILED" /\ d = wjob /\ wpc = "failing"
  \/ s = "EXPIRED" /\ d = ecur

LEMMA StatusWrites ==
  ASSUME JobTypeInv, [Next]_vars, NEW d \in Dep, status'[d] # status[d]
  PROVE  Writes(d, status'[d])
<1> USE DEF JobTypeInv, TypeInv, TypeOK, dbVars
<1>1. ASSUME NEW r \in Request, CreateRow(r) \/ PushRow(r)
      PROVE  Writes(d, status'[d])
  BY <1>1 DEF CreateRow, PushRow, NewRow, Writes
<1>2. ASSUME NEW r \in Request, PushOverwrite(r) \/ CancelWrite(r)
      PROVE  Writes(d, status'[d])
  BY <1>2 DEF PushOverwrite, CancelWrite, WriteCanceled, Writes
<1>3. ASSUME NEW c \in Dep, NEW s \in ManualStatus, ManualUpdate(c, s)
      PROVE  Writes(d, status'[d])
  BY <1>3 DEF ManualUpdate, Writes
<1>4. ASSUME NEW r \in Request, PushSignal(r) \/ Enqueue(r)
                                  \/ CancelPublish(r) \/ RequestDies(r)
      PROVE  UNCHANGED status
  BY <1>4 DEF PushSignal, Enqueue, CancelPublish, RequestDies
<1>5. ASSUME NEW r \in Request, NEW p \in Project,
             CreateCheck(r, p) \/ PushRead(r, p)
      PROVE  UNCHANGED status
  BY <1>5 DEF CreateCheck, PushRead
<1>6. ASSUME NEW r \in Request, NEW c \in Dep, CancelRead(r, c)
      PROVE  UNCHANGED status
  BY <1>6 DEF CancelRead
<1>7. ASSUME NEW c \in Dep, SignalExpires(c)
      PROVE  UNCHANGED status
  BY <1>7 DEF SignalExpires
<1>8. ASSUME WorkerStep PROVE Writes(d, status'[d])
  <2> USE LabelSets DEF StatusCall, ApplyStatus, Writes
  <2>1. CASE MarkBuilding
    BY <2>1 DEF MarkBuilding
  <2>2. CASE MarkImage
    BY <2>2 DEF MarkImage
  <2>3. CASE MarkDeploying
    BY <2>3 DEF MarkDeploying
  <2>4. CASE MarkReady
    BY <2>4 DEF MarkReady
  <2>5. CASE Supersede
    BY <2>5 DEF Supersede
  <2>6. CASE FailJob
    BY <2>6 DEF FailJob
  <2>7. CASE MarkCancelled \/ CleanupDeployment
    BY <2>7 DEF MarkCancelled, CleanupDeployment
  <2>8. CASE \/ WaitForJob \/ CheckCancelled \/ MarkPending \/ LogHeader
             \/ RunPhase \/ Deploy \/ MarkActive \/ StartStreaming
             \/ CancelCleanup \/ MarkInactive \/ ClearCancelSignal
    BY <2>8 DEF WaitForJob, CheckCancelled, MarkPending, LogHeader, Restart,
         RunPhase, Deploy, MarkActive, StartStreaming, CancelCleanup,
         MarkInactive, ClearCancelSignal
  <2>9. QED
    BY <1>8, <2>1, <2>2, <2>3, <2>4, <2>5, <2>6, <2>7, <2>8, Zenon
       DEF WorkerStep
<1>9. ASSUME ExpiryStep PROVE Writes(d, status'[d])
  BY <1>9 DEF ExpiryStep, ExpiryFetch, ExpiryNext, ExpiryCleanup, ExpiryMark,
       ExpiryInactive, ApplyStatus, Writes
<1>10. CASE WorkerCrash \/ UNCHANGED vars
  BY <1>10 DEF WorkerCrash, Restart, vars
<1>11. QED
  BY <1>1, <1>2, <1>3, <1>4, <1>5, <1>6, <1>7, <1>8, <1>9, <1>10,
     Zenon DEF Next, HandlerStep

\* A row succeeds when the worker marks it READY; nothing takes it back, and
\* nothing takes back that a fault has touched a row.
LEMMA SuccessWrites ==
  ASSUME JobTypeInv, [Next]_vars
  PROVE  /\ isSuccess \subseteq isSuccess'
         /\ faulted \subseteq faulted' /\ headless \subseteq headless'
         /\ \A d \in isSuccess' \ isSuccess :
              /\ d = wjob /\ wpc = "ready" /\ status'[d] = "READY"
              /\ wpc' = "failing" => d \in faulted'
<1> USE DEF JobTypeInv, TypeInv, TypeOK, dbVars, ghostVars
<1> DEFINE Goal == /\ isSuccess' = isSuccess
                   /\ faulted \subseteq faulted' /\ headless \subseteq headless'
<1>1. ASSUME NEW r \in Request, HandlerStep(r) \/ RequestDies(r)
      PROVE  Goal
  BY <1>1 DEF HandlerStep, CreateRow, PushSignal, PushOverwrite, PushRow,
       NewRow, Enqueue, CancelWrite, CancelPublish, RequestDies
<1>2. ASSUME NEW r \in Request, NEW p \in Project,
             CreateCheck(r, p) \/ PushRead(r, p)
      PROVE  Goal
  BY <1>2 DEF CreateCheck, PushRead
<1>3. ASSUME NEW r \in Request, NEW c \in Dep, CancelRead(r, c)
      PROVE  Goal
  BY <1>3 DEF CancelRead
<1>4. ASSUME NEW c \in Dep, NEW s \in ManualStatus,
             ManualUpdate(c, s)
      PROVE  Goal
  BY <1>4 DEF ManualUpdate
<1>5. ASSUME NEW c \in Dep, SignalExpires(c)
      PROVE  Goal
  BY <1>5 DEF SignalExpires
<1>6. ASSUME WorkerStep, ~ MarkReady PROVE Goal
  BY <1>6 DEF WorkerStep, WaitForJob, CheckCancelled, MarkPending,
       MarkBuilding, LogHeader, Restart, RunPhase, MarkImage, MarkDeploying,
       Deploy, MarkActive, Supersede, StartStreaming, FailJob, MarkCancelled,
       CancelCleanup, CleanupDeployment, MarkInactive, ClearCancelSignal,
       StatusCall, ApplyStatus
<1>7. ASSUME ExpiryStep PROVE Goal
  BY <1>7 DEF ExpiryStep, ExpiryFetch, ExpiryNext, ExpiryCleanup, ExpiryMark,
       ExpiryInactive, ApplyStatus
<1>8. ASSUME WorkerCrash \/ UNCHANGED vars PROVE Goal
  BY <1>8 DEF WorkerCrash, Restart, vars
<1>9. CASE MarkReady
  BY <1>9, WorkerJob DEF MarkReady, StatusCall, ApplyStatus
<1>10. QED
  <2> HIDE DEF Goal
  <2>1. Goal \/ MarkReady
    BY <1>1, <1>2, <1>3, <1>4, <1>5, <1>6, <1>7, <1>8,
       Zenon DEF Next
  <2>2. QED BY <2>1, <1>9 DEF Goal

\* The worker's loop, as far as the outcome of its job goes: every way to a
\* label, and every way out of the loop.
WorkerMove ==
  /\ wpc' \in Live =>
       /\ wjob' = wjob
       /\ \/ wpc \in Live
          \/ wpc = "ready" /\ status'[wjob] = "READY" /\ wjob \in isSuccess'
  /\ wpc' \in Deploying =>
       /\ wjob' = wjob /\ isSuccess' = isSuccess
       /\ wpc \in BeforeLastCheck \cup Deploying
  /\ wpc' = "failing" =>
       /\ wjob' = wjob
       /\ wpc \in BeforeLastCheck \cup Deploying \cup {"failing"}
       /\ wpc = "ready" => wjob \in faulted'
  /\ wpc' \in Finishing =>
       /\ wjob' = wjob
       /\ \/ wpc \in Finishing
          \/ status'[wjob] = "CANCELED"
          \/ wjob \in faulted'
  /\ wpc' = "idle" /\ wpc # "idle" =>
       \/ wpc \in {"stream", "clear"} /\ status' = status
       \/ status'[wjob] = "FAILED"
       \/ wjob \in faulted' \cup headless

LEMMA WorkerMoves == JobTypeInv /\ [Next]_vars => WorkerMove
<1> SUFFICES ASSUME JobTypeInv, [Next]_vars PROVE WorkerMove
  OBVIOUS
<1> USE DEF JobTypeInv, TypeInv, TypeOK, dbVars, ghostVars, workerVars
<1>1. ASSUME UNCHANGED <<wpc, wjob, isSuccess>> PROVE WorkerMove
  BY <1>1, LabelSets DEF Deploying, Live, Finishing, WorkerMove
<1>2. ASSUME WorkerStep PROVE WorkerMove
  <2> USE LabelSets, Labels
      DEF Deploying, Live, Finishing, StatusCall, ApplyStatus, Release,
          WorkerMove
  <2>1. CASE WaitForJob
    BY <2>1 DEF WaitForJob
  <2>2. CASE CheckCancelled
    BY <2>2 DEF CheckCancelled
  <2>3. CASE MarkPending \/ MarkBuilding
    BY <2>3 DEF MarkPending, MarkBuilding
  <2>4. CASE LogHeader
    BY <2>4 DEF LogHeader, Restart
  <2>5. CASE RunPhase \/ MarkImage
    BY <2>5 DEF RunPhase, MarkImage
  <2>6. CASE MarkDeploying \/ Deploy
    BY <2>6 DEF MarkDeploying, Deploy
  <2>7. CASE MarkReady
    BY <2>7, WorkerJob DEF MarkReady
  <2>8. CASE MarkActive \/ Supersede
    BY <2>8 DEF MarkActive, Supersede
  <2>9. CASE StartStreaming
    BY <2>9 DEF StartStreaming
  <2>10. CASE FailJob
    BY <2>10, WorkerJob DEF FailJob
  <2>11. CASE MarkCancelled \/ CleanupDeployment
    BY <2>11, WorkerJob DEF MarkCancelled, CleanupDeployment
  <2>12. CASE CancelCleanup \/ MarkInactive
    BY <2>12 DEF CancelCleanup, MarkInactive
  <2>13. CASE ClearCancelSignal
    BY <2>13 DEF ClearCancelSignal
  <2>14. QED
    BY <1>2, <2>1, <2>2, <2>3, <2>4, <2>5, <2>6, <2>7, <2>8, <2>9, <2>10,
       <2>11, <2>12, <2>13, Zenon DEF WorkerStep
<1>3. CASE WorkerCrash
  BY <1>3, LabelSets, WorkerJob
     DEF WorkerCrash, Restart, Release, Deploying, Live, Finishing,
         WorkerMove, Dep, NoDep
<1>4. ASSUME NEW r \in Request, HandlerStep(r) \/ RequestDies(r)
      PROVE  UNCHANGED <<wpc, wjob, isSuccess>>
  BY <1>4 DEF HandlerStep, CreateRow, PushSignal, PushOverwrite, PushRow,
       NewRow, Enqueue, CancelWrite, CancelPublish, RequestDies
<1>5. ASSUME NEW r \in Request, NEW p \in Project,
             CreateCheck(r, p) \/ PushRead(r, p)
      PROVE  UNCHANGED <<wpc, wjob, isSuccess>>
  BY <1>5 DEF CreateCheck, PushRead
<1>6. ASSUME NEW r \in Request, NEW c \in Dep, CancelRead(r, c)
      PROVE  UNCHANGED <<wpc, wjob, isSuccess>>
  BY <1>6 DEF CancelRead
<1>7. ASSUME NEW c \in Dep, NEW s \in ManualStatus, ManualUpdate(c, s)
      PROVE  UNCHANGED <<wpc, wjob, isSuccess>>
  BY <1>7 DEF ManualUpdate
<1>8. ASSUME NEW c \in Dep, SignalExpires(c)
      PROVE  UNCHANGED <<wpc, wjob, isSuccess>>
  BY <1>8 DEF SignalExpires
<1>9. ASSUME ExpiryStep PROVE UNCHANGED <<wpc, wjob, isSuccess>>
  BY <1>9 DEF ExpiryStep, ExpiryFetch, ExpiryNext, ExpiryCleanup, ExpiryMark,
       ExpiryInactive, ApplyStatus
<1>10. ASSUME UNCHANGED vars PROVE UNCHANGED <<wpc, wjob, isSuccess>>
  BY <1>10 DEF vars
<1>11. QED
  BY <1>1, <1>2, <1>3, <1>4, <1>5, <1>6, <1>7, <1>8, <1>9, <1>10,
     Zenon DEF Next

\* What the other handlers and the expiry goroutine hold is what they read.
LEMMA Readings ==
  ASSUME JobTypeInv, [Next]_vars
  PROVE  /\ elist' \cup {ecur'} \subseteq
              elist \cup {ecur, NoDep} \cup {d \in Dep : status[d] = "READY"}
         /\ \A r \in Request : req'[r].pc = "pushRow" =>
              \/ req'[r] = req[r]
              \/ req'[r].previous = NoDep
              \/ /\ req'[r].previous \in RowsOf(req'[r].project)
                 /\ status[req'[r].previous] = "READY"
<1> DEFINE Lists ==
             elist' \cup {ecur'} \subseteq
               elist \cup {ecur, NoDep} \cup {d \in Dep : status[d] = "READY"}
           Named == \A r \in Request : req'[r].pc = "pushRow" =>
              \/ req'[r] = req[r]
              \/ req'[r].previous = NoDep
              \/ /\ req'[r].previous \in RowsOf(req'[r].project)
                 /\ status[req'[r].previous] = "READY"
<1> USE DEF JobTypeInv, TypeInv, TypeOK, expiryVars, apiVars
<1>1. ASSUME NEW r \in Request, HandlerStep(r) \/ RequestDies(r)
      PROVE  Lists /\ Named
  <2>1. CASE PushSignal(r) \/ PushOverwrite(r) \/ CancelWrite(r)
    BY <2>1 DEF PushSignal, PushOverwrite, CancelWrite, Goto
  <2>2. CASE CreateRow(r) \/ PushRow(r)
    BY <2>2 DEF CreateRow, PushRow, NewRow, Goto
  <2>3. CASE Enqueue(r) \/ CancelPublish(r) \/ RequestDies(r)
    BY <2>3 DEF Enqueue, CancelPublish, RequestDies, NoRequest
  <2>4. QED BY <1>1, <2>1, <2>2, <2>3, Zenon DEF HandlerStep
<1>2. ASSUME NEW r \in Request, NEW p \in Project, CreateCheck(r, p)
      PROVE  Lists /\ Named
  BY <1>2 DEF CreateCheck, Goto
<1>3. ASSUME NEW r \in Request, NEW p \in Project, PushRead(r, p)
      PROVE  Lists /\ Named
  <2> DEFINE candidates ==
        {d \in RowsOf(p) : status[d] \in InProgress \cup {"READY"}}
  <2>1. UNCHANGED <<elist, ecur>>
    BY <1>3 DEF PushRead
  <2>2. \/ Goto(r, "signal", p, req'[r].dep, NoDep)
        \/ Goto(r, "pushRow", p, NoDep, NoDep)
        \/ \E d \in candidates :
             status[d] = "READY" /\ Goto(r, "pushRow", p, NoDep, d)
    BY <1>3 DEF PushRead, Goto
  <2>3. CASE \/ Goto(r, "signal", p, req'[r].dep, NoDep)
             \/ Goto(r, "pushRow", p, NoDep, NoDep)
    BY <2>1, <2>3 DEF Goto
  <2>4. ASSUME NEW d \in candidates, status[d] = "READY",
               Goto(r, "pushRow", p, NoDep, d)
        PROVE  Named
    BY <2>4 DEF Goto
  <2>5. QED BY <2>1, <2>2, <2>3, <2>4
<1>4. ASSUME NEW r \in Request, NEW c \in Dep, CancelRead(r, c)
      PROVE  Lists /\ Named
  BY <1>4 DEF CancelRead, Goto
<1>5. ASSUME NEW c \in Dep, NEW s \in ManualStatus, ManualUpdate(c, s)
      PROVE  Lists /\ Named
  BY <1>5 DEF ManualUpdate
<1>6. ASSUME NEW c \in Dep, SignalExpires(c)
      PROVE  Lists /\ Named
  BY <1>6 DEF SignalExpires
<1>7. ASSUME WorkerStep PROVE Lists /\ Named
  BY <1>7 DEF WorkerStep, WaitForJob, CheckCancelled, MarkPending,
       MarkBuilding, LogHeader, Restart, RunPhase, MarkImage, MarkDeploying,
       Deploy, MarkReady, MarkActive, Supersede, StartStreaming, FailJob,
       MarkCancelled, CancelCleanup, CleanupDeployment, MarkInactive,
       ClearCancelSignal
<1>8. ASSUME ExpiryStep PROVE Lists /\ Named
  <2>1. \A cut : Expired(cut) \subseteq {d \in Dep : status[d] = "READY"}
    BY PipelineAssumption DEF Expired, Row, Dep
  <2>2. QED
    BY <1>8, <2>1 DEF ExpiryStep, ExpiryFetch, ExpiryNext, ExpiryCleanup,
         ExpiryMark, ExpiryInactive
<1>9. ASSUME WorkerCrash \/ UNCHANGED vars PROVE Lists /\ Named
  BY <1>9 DEF WorkerCrash, Restart, vars
<1>10. QED
  BY <1>1, <1>2, <1>3, <1>4, <1>5, <1>6, <1>7, <1>8, <1>9, Zenon DEF Next

\* Rows are appended, and keep their project and the row they replace; a new
\* one replaces the row that its handler has read, or none.
RowGrows(r) ==
  /\ created + 1 \in Dep /\ created' = created + 1
  /\ \A d \in Dep \ {created + 1} :
       project'[d] = project[d] /\ previous'[d] = previous[d]
  /\ \/ previous'[created + 1] = NoDep
     \/ /\ req[r].pc = "pushRow"
        /\ previous'[created + 1] = req[r].previous
        /\ project'[created + 1] = req[r].project

LEMMA RowsGrow ==
  JobTypeInv /\ [Next]_vars =>
    \/ UNCHANGED <<created, project, previous>>
    \/ \E r \in Request : RowGrows(r)
<1> SUFFICES ASSUME JobTypeInv, [Next]_vars
             PROVE  \/ UNCHANGED <<created, project, previous>>
                    \/ \E r \in Request : RowGrows(r)
  OBVIOUS
<1> USE DEF JobTypeInv, TypeInv, TypeOK, dbVars
<1> DEFINE Same == UNCHANGED <<created, project, previous>>
<1>1. ASSUME NEW r \in Request, PushSignal(r) \/ PushOverwrite(r) \/ Enqueue(r)
               \/ CancelWrite(r) \/ CancelPublish(r) \/ RequestDies(r)
      PROVE  Same
  BY <1>1 DEF PushSignal, PushOverwrite, Enqueue, CancelWrite, CancelPublish,
       RequestDies
<1>2. ASSUME NEW r \in Request, NEW p \in Project,
             CreateCheck(r, p) \/ PushRead(r, p)
      PROVE  Same
  BY <1>2 DEF CreateCheck, PushRead
<1>3. ASSUME NEW r \in Request, NEW c \in Dep, CancelRead(r, c)
      PROVE  Same
  BY <1>3 DEF CancelRead
<1>4. ASSUME NEW c \in Dep, NEW s \in ManualStatus, ManualUpdate(c, s)
      PROVE  Same
  BY <1>4 DEF ManualUpdate
<1>5. ASSUME NEW c \in Dep, SignalExpires(c)
      PROVE  Same
  BY <1>5 DEF SignalExpires
<1>6. ASSUME WorkerStep PROVE Same
  BY <1>6 DEF WorkerStep, WaitForJob, CheckCancelled, MarkPending,
       MarkBuilding, LogHeader, Restart, RunPhase, MarkImage, MarkDeploying,
       Deploy, MarkReady, MarkActive, Supersede, StartStreaming, FailJob,
       MarkCancelled, CancelCleanup, CleanupDeployment, MarkInactive,
       ClearCancelSignal
<1>7. ASSUME ExpiryStep PROVE Same
  BY <1>7 DEF ExpiryStep, ExpiryFetch, ExpiryNext, ExpiryCleanup, ExpiryMark,
       ExpiryInactive
<1>8. ASSUME WorkerCrash \/ UNCHANGED vars PROVE Same
  BY <1>8 DEF WorkerCrash, Restart, vars
<1>9. ASSUME NEW r \in Request, CreateRow(r) \/ PushRow(r)
      PROVE  RowGrows(r)
  <2>1. PICK prev : /\ NewRow(r, prev)
                    /\ \/ prev = NoDep
                       \/ req[r].pc = "pushRow" /\ prev = req[r].previous
    BY <1>9 DEF CreateRow, PushRow
  <2>2. created + 1 \in Dep
    BY <2>1, PipelineAssumption DEF NewRow, Dep
  <2>3. QED BY <2>1, <2>2 DEF NewRow, RowGrows
<1>10. QED
  <2> HIDE DEF Same
  <2>1. Same \/ \E r \in Request : RowGrows(r)
    BY <1>1, <1>2, <1>3, <1>4, <1>5, <1>6, <1>7, <1>8, <1>9,
       Zenon DEF Next, HandlerStep
  <2>2. QED BY <2>1 DEF Same

-----------------------------------------------------------------------------
(* Nothing in progress is left alone *)

\* Once the worker has written its last status for a row that no fault has
\* touched, the row is settled.
SettlingInv ==
  wpc \in Live \cup Finishing =>
    wjob \in faulted \/ status[wjob] \notin InProgress

\* A job is dropped by a dying handler, or ended by the worker.
LEMMA OwnedStays ==
  ASSUME JobTypeInv, JobTypeInv', [Next]_vars, NEW d \in Dep, Owned(d),
         ~ Owned(d)'
  PROVE  d \in faulted' \/ (wjob = d /\ wpc # "idle" /\ wpc' = "idle")
<1>1. CASE \E r \in Request : RowCreated(r)
  <2>1. PICK r \in Request, prev \in Dep \cup {NoDep} :
             req[r].pc # "enqueue" /\ NewRow(r, prev)
    BY <1>1 DEF RowCreated
  <2>2. /\ UNCHANGED <<queue, wpc, wjob>>
        /\ \A q \in Request \ {r} : req'[q] = req[q]
    BY <2>1 DEF NewRow, Goto, JobTypeInv, TypeInv, TypeOK, workerVars
  <2>3. QED BY <2>1, <2>2 DEF Owned, Pushing, Queued, Running
<1>2. ASSUME NEW r \in Request, Enqueue(r) PROVE FALSE
  <2>1. UNCHANGED phaseOf
    BY <1>2, EnqueueStep
  <2>2. /\ queue \in Seq(Dep) /\ req[r].dep \in Dep /\ req[r].pc = "enqueue"
    BY <1>2, RequestFields
       DEF Enqueue, NeedsRow, JobTypeInv, TypeInv, TypeOK
  <2>3. /\ DOMAIN queue = 1 .. Len(queue) /\ Len(queue) \in Nat
        /\ DOMAIN queue' = 1 .. Len(queue) + 1
        /\ \A i \in 1 .. Len(queue) : queue'[i] = queue[i]
        /\ queue'[Len(queue) + 1] = req[r].dep
    BY <1>2, <2>2, AppendProperties, LenProperties DEF Enqueue
  <2>4. /\ UNCHANGED <<wpc, wjob>>
        /\ \A q \in Request \ {r} : req'[q] = req[q]
    BY <1>2 DEF Enqueue, JobTypeInv, TypeInv, TypeOK, workerVars
  <2>5. Queued(d) \/ Pushing(r, d) => Queued(d)'
    BY <2>3 DEF Queued, Pushing
  <2>6. \A q \in Request \ {r} : Pushing(q, d) => Pushing(q, d)'
    BY <2>4 DEF Pushing
  <2>7. QED BY <2>4, <2>5, <2>6 DEF Owned, Running
<1>3. ASSUME NEW r \in Request, RequestDies(r) PROVE d \in faulted'
  <2>1. /\ UNCHANGED <<queue, wpc, wjob>>
        /\ \A q \in Request \ {r} : req'[q] = req[q]
        /\ faulted' = faulted \cup ({req[r].dep} \ {NoDep})
    BY <1>3 DEF RequestDies, JobTypeInv, TypeInv, TypeOK, workerVars
  <2>2. Pushing(r, d)
    BY <2>1 DEF Owned, Pushing, Queued, Running
  <2>3. QED BY <2>1, <2>2 DEF Pushing, Dep, NoDep
<1>4. ASSUME WaitForJob PROVE FALSE
  <2>1. /\ queue \in Seq(Dep) /\ queue # <<>> /\ queue' = Remaining(queue)
        /\ UNCHANGED req /\ wpc' = "check1" /\ wjob' = NextJob(queue)
        /\ wpc = "idle"
    BY <1>4 DEF WaitForJob, JobTypeInv, TypeInv, TypeOK, apiVars
  <2>2. \A i \in DOMAIN queue :
          queue[i] = wjob' \/ (i \in DOMAIN queue' /\ queue'[i] = queue[i])
    BY <2>1, RemainingProperties, LenProperties
  <2>3. QED BY <2>1, <2>2 DEF Owned, Pushing, Queued, Running
<1>5. CASE JobEnds
  BY <1>5 DEF JobEnds, Release, Owned, Pushing, Queued, Running
<1>6. CASE JobsStay
  BY <1>6 DEF JobsStay, Owned, Pushing, Queued, Running
<1>7. QED BY <1>1, <1>2, <1>3, <1>4, <1>5, <1>6, NextCases DEF JobTypeInv

\* The job of a new row is in the hands of its handler.
LEMMA NewIsOwned ==
  ASSUME JobTypeInv, [Next]_vars, NEW d, d = created + 1, created' = d
  PROVE  Owned(d)'
<1>1. created \in Int
  BY DEF JobTypeInv, TypeInv, TypeOK
<1>2. PICK r \in Request : RowCreated(r)
  BY <1>1, NextCases
     DEF Enqueue, RequestDies, WaitForJob, JobEnds, JobsStay, dbVars,
         JobTypeInv
<1>3. PICK prev : NewRow(r, prev)
  BY <1>2 DEF RowCreated
<1>4. Pushing(r, d)'
  BY <1>3 DEF NewRow, Goto, Pushing, JobTypeInv, TypeInv, TypeOK
<1>5. QED BY <1>4 DEF Owned

\* While nobody writes QUEUED, BUILDING or DEPLOYING by hand.
LEMMA NextSettling ==
  ASSUME ManualStatus \cap InProgress = {},
         JobTypeInv, JobTypeInv', SettlingInv, InProgressIsOwned, [Next]_vars
  PROVE  SettlingInv' /\ InProgressIsOwned'
<1>1. faulted \subseteq faulted' /\ headless \subseteq headless'
  BY SuccessWrites
<1>2. wpc # "idle" => wjob \in Dep /\ wjob \in Row
  BY WorkerJob DEF JobTypeInv, JobInv
<1>3. SettlingInv'
  <2> SUFFICES ASSUME wpc' \in Live \cup Finishing, wjob' \notin faulted',
                      status'[wjob'] \in InProgress
               PROVE  FALSE
    BY DEF SettlingInv
  <2>1. wjob' = wjob /\ wpc \in Live \cup Finishing
    BY WorkerMoves DEF WorkerMove, InProgress
  <2>2. wjob \in Row /\ wjob \in Dep
    BY <1>2, <2>1 DEF Live, Finishing
  <2>3. status'[wjob] # status[wjob]
    BY <1>1, <2>1 DEF SettlingInv
  <2>4. Writes(wjob, status'[wjob])
    BY <2>2, <2>3, StatusWrites
  <2>5. wjob # created + 1
    BY <2>2 DEF Row, JobTypeInv, TypeInv, TypeOK
  <2>6. wpc \notin BeforeLastCheck \cup {"deploying"}
    BY <2>1, LabelSets DEF Live, Finishing
  <2>7. status'[wjob] \in InProgress /\ status'[wjob] \notin ManualStatus
    BY <2>1
  <2>8. QED BY <2>4, <2>5, <2>6, <2>7 DEF Writes, InProgress
<1>4. InProgressIsOwned'
  <2> SUFFICES ASSUME NEW d \in Dep, status'[d] \in InProgress,
                      d \notin faulted' \cup headless', ~ Owned(d)'
               PROVE  FALSE
    BY DEF InProgressIsOwned
  <2>1. CASE status'[d] = status[d]
    <3>1. Owned(d)
      BY <1>1, <2>1 DEF InProgressIsOwned
    <3>2. wjob = d /\ wpc # "idle" /\ wpc' = "idle"
      BY <3>1, OwnedStays
    <3>3. wpc \in {"stream", "clear"} /\ wjob \notin faulted
      BY <1>1, <3>2, WorkerMoves DEF WorkerMove, InProgress
    <3>4. QED BY <2>1, <3>2, <3>3 DEF SettlingInv, Live, Finishing
  <2>2. CASE status'[d] # status[d]
    <3>1. Writes(d, status'[d]) /\ status'[d] \notin ManualStatus
      BY <2>2, StatusWrites
    <3>2. CASE d = created + 1 /\ d = created'
      BY <3>2, NewIsOwned
    <3>3. CASE /\ d = wjob /\ wjob' = wjob
               /\ wpc' \in BeforeLastCheck \cup {"failing", "deploy"}
      BY <3>3, LabelSets DEF Owned, Running
    <3>4. QED BY <3>1, <3>2, <3>3 DEF Writes, InProgress
  <2>3. QED BY <2>1, <2>2
<1>5. QED BY <1>3, <1>4

\* A row that says QUEUED, BUILDING or DEPLOYING is in somebody's hands, for
\* every interleaving of handlers, worker and expiry, whichever fault touches
\* the other rows (worker.go:171, webhooks.service.ts:235).  Only the
\* unguarded PUT of one of these statuses is left out.
THEOREM NoneLeftInProgress ==
  ASSUME ManualStatus \cap InProgress = {}
  PROVE  Spec => []InProgressIsOwned
<1>1. Init => SettlingInv /\ InProgressIsOwned
  BY DEF Init, SettlingInv, InProgressIsOwned, Live, Finishing, InProgress
<1>2. /\ JobTypeInv /\ JobTypeInv' /\ [Next]_vars
      /\ SettlingInv /\ InProgressIsOwned
      => SettlingInv' /\ InProgressIsOwned'
  BY NextSettling
<1>3. Spec => []JobTypeInv
  BY JobInvariant DEF JobTypeInv
<1>4. QED BY <1>1, <1>2, <1>3, PTL DEF Spec

-----------------------------------------------------------------------------
(* A superseded deployment has a live successor *)

\* The row that a job is to retire is an earlier one of the same project, and
\* the worker retires it only after its own row succeeded.
SuccessorInv ==
  /\ \A d \in Dep : d > created => previous[d] = NoDep
  /\ \A d \in Dep : previous[d] # NoDep =>
       previous[d] < d /\ project[previous[d]] = project[d]
  /\ \A r \in Request : req[r].pc = "pushRow" =>
       req[r].previous \in RowsOf(req[r].project) \cup {NoDep}
  /\ wpc \in Live => wjob \in isSuccess

LEMMA NextSuccessor ==
  ASSUME JobTypeInv, JobTypeInv', SuccessorInv, [Next]_vars
  PROVE  SuccessorInv'
<1> USE DEF JobTypeInv
<1>1. wpc' \in Live => wjob' \in isSuccess'
  BY WorkerMoves, SuccessWrites DEF WorkerMove, SuccessorInv
<1>2. \A d \in Row : d \in Dep /\ d \in Row' /\ project'[d] = project[d]
                       /\ d <= created /\ d # NoDep
  <2>1. created \in Nat /\ created <= MaxDep
    BY PipelineAssumption DEF TypeInv, TypeOK
  <2>2. \A d \in Row : d \in Dep /\ d <= created /\ d # NoDep
    BY <2>1, PipelineAssumption DEF Row, Dep, NoDep
  <2>3. QED BY <2>2, RowsStay
<1>3. ASSUME NEW r \in Request, req'[r].pc = "pushRow"
      PROVE  (req[r].previous \in RowsOf(req[r].project) \cup {NoDep})'
  <2> PICK p : p = req'[r].project
    OBVIOUS
  <2>1. RowsOf(p) \subseteq RowsOf(p)'
    BY <1>2 DEF RowsOf
  <2>2. req'[r].previous \in RowsOf(p) \cup {NoDep}
    BY <1>3, Readings DEF SuccessorInv
  <2>3. QED BY <2>1, <2>2
<1>4. /\ \A d \in Dep : d > created' => previous'[d] = NoDep
      /\ \A d \in Dep : previous'[d] # NoDep =>
           previous'[d] < d /\ project'[previous'[d]] = project'[d]
  <2>1. CASE UNCHANGED <<created, project, previous>>
    BY <2>1 DEF SuccessorInv
  <2>2. ASSUME NEW r \in Request, RowGrows(r)
        PROVE  /\ \A d \in Dep : d > created' => previous'[d] = NoDep
               /\ \A d \in Dep : previous'[d] # NoDep =>
                    previous'[d] < d /\ project'[previous'[d]] = project'[d]
    <3> DEFINE c == created + 1
    <3>1. created \in Nat /\ c \in Dep /\ created' = c /\ c > created
      BY <2>2 DEF RowGrows, TypeInv, TypeOK
    <3>2. \A d \in Dep : d > created' => d > created /\ d # c
      BY <3>1 DEF Dep
    <3>3. ASSUME NEW d \in Dep \ {c}, previous[d] # NoDep
          PROVE  previous[d] \in Row
      <4>1. d \in Nat /\ previous[d] \in Nat \ {0} /\ ~ (d > created)
        BY <3>3, <3>1 DEF SuccessorInv, Dep, NoDep, TypeInv, TypeOK
      <4>2. previous[d] < d
        BY <3>3 DEF SuccessorInv
      <4>3. QED BY <3>1, <4>1, <4>2 DEF Row
    <3>4. ASSUME NEW d \in Dep, previous'[d] # NoDep
          PROVE  previous'[d] < d /\ project'[previous'[d]] = project'[d]
      <4>1. CASE d # c
        <5>1. previous'[d] = previous[d] /\ project'[d] = project[d]
          BY <2>2, <4>1 DEF RowGrows
        <5>2. QED BY <1>2, <3>3, <3>4, <4>1, <5>1 DEF SuccessorInv
      <4>2. CASE d = c
        <5>1. /\ req[r].pc = "pushRow" /\ previous'[c] = req[r].previous
              /\ project'[c] = req[r].project
          BY <2>2, <3>4, <4>2 DEF RowGrows
        <5>2. previous'[c] \in RowsOf(project'[c])
          BY <3>4, <4>2, <5>1 DEF SuccessorInv
        <5>3. previous'[c] \in Row /\ project[previous'[c]] = project'[c]
          BY <5>2 DEF RowsOf
        <5>4. QED BY <1>2, <3>1, <4>2, <5>3 DEF Row
      <4>3. QED BY <4>1, <4>2
    <3>5. \A d \in Dep : d > created' => previous'[d] = NoDep
      BY <2>2, <3>2 DEF RowGrows, SuccessorInv
    <3>6. QED BY <3>4, <3>5
  <2>3. QED BY <2>1, <2>2, RowsGrow
<1>5. QED BY <1>1, <1>3, <1>4 DEF SuccessorInv

LEMMA NextSuperseded ==
  ASSUME "SUPERSEDED" \notin ManualStatus, JobTypeInv, JobTypeInv',
         SuccessorInv, SupersededHasSuccessor, [Next]_vars
  PROVE  SupersededHasSuccessor'
<1> SUFFICES ASSUME NEW d \in Dep, status'[d] = "SUPERSEDED"
             PROVE  \E e \in Dep : /\ previous'[e] = d /\ e > d
                                   /\ project'[e] = project'[d]
                                   /\ e \in isSuccess'
  BY DEF SupersededHasSuccessor
<1>1. \E e \in Dep : /\ previous[e] = d /\ e > d /\ project[e] = project[d]
                     /\ e \in isSuccess
  <2>1. CASE status'[d] = status[d]
    BY <2>1 DEF SupersededHasSuccessor
  <2>2. CASE status'[d] # status[d]
    <3>1. wpc = "supersede" /\ previous[wjob] = d
      BY <2>2, StatusWrites DEF Writes
    <3>2. wjob \in Dep /\ wjob \in isSuccess
      BY <3>1, WorkerJob DEF SuccessorInv, Live, JobTypeInv
    <3>3. d # NoDep
      BY DEF Dep, NoDep
    <3>4. wjob > d /\ project[wjob] = project[d]
      <4>1. d < wjob /\ project[d] = project[wjob]
        BY <3>1, <3>2, <3>3 DEF SuccessorInv
      <4>2. QED BY <3>2, <4>1 DEF Dep
    <3>5. QED BY <3>1, <3>2, <3>4
  <2>3. QED BY <2>1, <2>2
<1>2. PICK e \in Dep : /\ previous[e] = d /\ e > d /\ project[e] = project[d]
                       /\ e \in isSuccess
  BY <1>1
<1>3. e # created + 1 /\ d # created + 1
  <2>1. created \in Nat /\ d \in Nat /\ e \in Nat /\ d # NoDep
    BY DEF Dep, NoDep, JobTypeInv, TypeInv, TypeOK
  <2>2. ~ (e > created)
    BY <1>2, <2>1 DEF SuccessorInv
  <2>3. QED BY <1>2, <2>1, <2>2
<1>4. previous'[e] = previous[e] /\ project'[e] = project[e]
        /\ project'[d] = project[d]
  BY <1>3, RowsGrow DEF RowGrows
<1>5. QED BY <1>2, <1>4, SuccessWrites

\* SUPERSEDED names a later deployment of the same project that has
\* succeeded, whatever handlers, faults and expiry do in between; only the
\* unguarded PUT of that status is left out (worker.go:458).
THEOREM SupersededIsReplaced ==
  ASSUME "SUPERSEDED" \notin ManualStatus
  PROVE  Spec => []SupersededHasSuccessor
<1>1. Init => SuccessorInv /\ SupersededHasSuccessor
  BY DEF Init, SuccessorInv, SupersededHasSuccessor, Live, NoRequest, RowsOf
<1>2. /\ JobTypeInv /\ JobTypeInv' /\ [Next]_vars
      /\ SuccessorInv /\ SupersededHasSuccessor
      => SuccessorInv' /\ SupersededHasSuccessor'
  BY NextSuccessor, NextSuperseded
<1>3. Spec => []JobTypeInv
  BY JobInvariant DEF JobTypeInv
<1>4. QED BY <1>1, <1>2, <1>3, PTL DEF Spec

-----------------------------------------------------------------------------
(* Status and isSuccess tell the same story *)

\* What expires or is replaced has succeeded; the job in the worker's hands
\* has not, unless a fault has touched its row.
SuccessInv ==
  /\ elist \cup {ecur} \subseteq isSuccess \cup {NoDep}
  /\ \A d \in Dep : previous[d] \in isSuccess \cup {NoDep}
  /\ \A r \in Request : req[r].pc = "pushRow" =>
       req[r].previous \in isSuccess \cup {NoDep}
  /\ wpc \in Deploying => wjob \notin isSuccess
  /\ wpc = "failing" => wjob \notin isSuccess \ faulted

LEMMA NextSuccess ==
  ASSUME Honoured, SuccessInv, SuccessIsConsistent, [Next]_vars
  PROVE  SuccessInv'
<1> USE DEF Honoured
<1>1. isSuccess \subseteq isSuccess' /\ faulted \subseteq faulted'
  BY SuccessWrites
<1>2. \A d \in Dep : status[d] = "READY" => d \in isSuccess
  BY DEF SuccessIsConsistent
<1>3. elist' \cup {ecur'} \subseteq isSuccess' \cup {NoDep}
  BY <1>1, <1>2, Readings DEF SuccessInv
<1>4. \A r \in Request : req'[r].pc = "pushRow" =>
        req'[r].previous \in isSuccess' \cup {NoDep}
  <2>1. \A p : RowsOf(p) \subseteq Dep
    BY PipelineAssumption DEF RowsOf, Row, Dep, JobTypeInv, TypeInv, TypeOK
  <2>2. QED BY <1>1, <1>2, <2>1, Readings DEF SuccessInv
<1>5. \A d \in Dep : previous'[d] \in isSuccess' \cup {NoDep}
  BY <1>1, RowsGrow DEF RowGrows, SuccessInv
<1>6. wpc' \in Deploying => wjob' \notin isSuccess'
  BY WorkerMoves DEF WorkerMove, SuccessInv, CancelInv
<1>7. wpc' = "failing" => wjob' \notin isSuccess' \ faulted'
  <2> SUFFICES ASSUME wpc' = "failing" PROVE wjob' \notin isSuccess' \ faulted'
    OBVIOUS
  <2>1. /\ wjob' = wjob
        /\ wpc \in BeforeLastCheck \cup Deploying \cup {"failing"}
        /\ wpc = "ready" => wjob \in faulted'
    BY WorkerMoves DEF WorkerMove
  <2>2. wjob \notin isSuccess \ faulted
    BY <2>1 DEF SuccessInv, CancelInv
  <2>3. QED BY <1>1, <2>1, <2>2, SuccessWrites
<1>8. QED BY <1>3, <1>4, <1>5, <1>6, <1>7 DEF SuccessInv

LEMMA NextConsistent ==
  ASSUME ManualStatus \subseteq {"CANCELED"}, Honoured, SuccessInv,
         SuccessIsConsistent, [Next]_vars, NEW d \in Dep
  PROVE  /\ status'[d] \in {"READY", "EXPIRED", "SUPERSEDED"}
              => d \in isSuccess'
         /\ d \in isSuccess' /\ d \notin faulted'
              => status'[d] \in {"READY", "EXPIRED", "SUPERSEDED", "CANCELED"}
<1> USE DEF Honoured
<1>1. isSuccess \subseteq isSuccess' /\ faulted \subseteq faulted'
  BY SuccessWrites
<1>2. ASSUME status'[d] \in {"READY", "EXPIRED", "SUPERSEDED"}
      PROVE  d \in isSuccess'
  <2>1. CASE status'[d] = status[d]
    BY <1>1, <1>2, <2>1 DEF SuccessIsConsistent
  <2>2. CASE status'[d] # status[d]
    <3>1. d # NoDep
      BY DEF Dep, NoDep
    <3>2. CASE d = previous[wjob] /\ wpc = "supersede"
      <4>1. wjob \in Dep
        BY <3>2, WorkerJob DEF JobTypeInv
      <4>2. QED BY <1>1, <3>1, <3>2, <4>1 DEF SuccessInv
    <3>3. CASE d = ecur
      BY <1>1, <3>1, <3>3 DEF SuccessInv
    <3>4. QED BY <1>2, <2>2, <3>2, <3>3, StatusWrites DEF Writes
  <2>3. QED BY <2>1, <2>2
<1>3. ASSUME d \in isSuccess', d \notin faulted'
      PROVE  status'[d] \in {"READY", "EXPIRED", "SUPERSEDED", "CANCELED"}
  <2>1. CASE d \notin isSuccess
    BY <1>3, <2>1, SuccessWrites
  <2>2. CASE d \in isSuccess /\ status'[d] = status[d]
    BY <1>1, <1>3, <2>2 DEF SuccessIsConsistent
  <2>3. CASE d \in isSuccess /\ status'[d] # status[d]
    <3>1. Writes(d, status'[d])
      BY <2>3, StatusWrites
    <3>2. d # created + 1
      BY <2>3 DEF CancelInv, JobTypeInv, JobInv, TypeInv, TypeOK, Row
    <3>3. ~ (d = wjob /\ wpc \in BeforeLastCheck \cup {"deploying", "failing"})
      BY <1>1, <1>3, <2>3 DEF CancelInv, SuccessInv, Deploying
    <3>4. QED BY <3>1, <3>2, <3>3 DEF Writes
  <2>4. QED BY <2>1, <2>2, <2>3
<1>4. QED BY <1>2, <1>3

\* A deployment that is or was live has succeeded, and one that succeeded is
\* never reported as failed or in progress again, whatever cancelling
\* handlers, expiry and failing calls do to other rows; the unguarded PUT may
\* write CANCELED (analytics.service.ts:86 counts one over the other).
THEOREM SuccessIsTold ==
  ASSUME ManualStatus \subseteq {"CANCELED"}
  PROVE  Spec => []SuccessIsConsistent
<1>1. Init => SuccessInv /\ SuccessIsConsistent
  BY LabelSets
     DEF Init, SuccessInv, SuccessIsConsistent, NoRequest, Deploying, NoDep
<1>2. Honoured /\ [Next]_vars /\ SuccessInv /\ SuccessIsConsistent
      => SuccessInv' /\ SuccessIsConsistent'
  <2>1. Honoured /\ [Next]_vars /\ SuccessInv /\ SuccessIsConsistent
        => SuccessIsConsistent'
    BY NextConsistent DEF SuccessIsConsistent
  <2>2. QED BY <2>1, NextSuccess
<1>3. QED BY <1>1, <1>2, HonouredAlways, PTL DEF Spec

-----------------------------------------------------------------------------
(* What the loop has taken it lets go of, once more under fairness.  That   *)
(* an action is ENABLED is beyond the provers, so that it always is while   *)
(* the loop has something to do is a premise, LoopIsNeverStuck.             *)

\* Where the loop's body is; every step of it goes on.
Place == [check1 |-> 0, pending |-> 1, building |-> 2, header |-> 3,
          check2 |-> 4, token |-> 5, check3 |-> 6, clone |-> 7, check4 |-> 8,
          build |-> 9, image |-> 10, check5 |-> 11, deploying |-> 12,
          deploy |-> 13, ready |-> 14, active |-> 15, supersede |-> 16,
          stream |-> 17, failing |-> 18, cancelled |-> 19, cleanup |-> 20,
          cleanupApi |-> 21, inactive |-> 22, clear |-> 23]

\* The loop is at place n of its body or farther.
Beyond(n) == wpc # "idle" /\ Place[wpc] >= n

\* What the provers cannot derive, for it is about ENABLED: while there is a
\* job, in hand or in the queue, the loop can take a step.
LoopIsNeverStuck ==
  wpc # "idle" \/ queue # <<>> => ENABLED <<WorkerStep>>_vars

LEMMA Places == \A w \in WorkerPc \ {"idle"} : Place[w] \in 0 .. 23
BY LabelSets DEF Place, Deploying, Live, Cancelling

\* The body of the loop has no way back.
LEMMA BodyGoesOn ==
  ASSUME TypeInv, WorkerStep, wpc # "idle"
  PROVE  \/ wpc' = "idle" /\ wjob' = NoDep
         \/ wpc' # "idle" /\ wjob' = wjob /\ Place[wpc'] > Place[wpc]
<1> USE Labels, LabelSets DEF Place, StatusCall, Release, workerVars
<1>1. CASE CheckCancelled
  <2>1. wpc \in {"check1", "check2", "check3", "check4", "check5"}
    BY <1>1 DEF CheckCancelled
  <2>2. wjob' = wjob /\ wpc' \in {"cancelled", CheckNext[wpc]}
    BY <1>1 DEF CheckCancelled
  <2> QED BY <2>1, <2>2
<1>2. CASE MarkPending \/ MarkBuilding
  BY <1>2 DEF MarkPending, MarkBuilding
<1>3. CASE LogHeader
  BY <1>3 DEF LogHeader, Restart
<1>4. CASE RunPhase
  <2>1. wpc \in {"token", "clone", "build"}
    BY <1>4 DEF RunPhase
  <2>2. wjob' = wjob /\ wpc' \in {"failing", PhaseNext[wpc]}
    BY <1>4 DEF RunPhase
  <2> QED BY <2>1, <2>2
<1>5. CASE MarkImage \/ MarkDeploying
  BY <1>5 DEF MarkImage, MarkDeploying
<1>6. CASE Deploy
  BY <1>6 DEF Deploy
<1>7. CASE MarkReady \/ MarkActive
  BY <1>7 DEF MarkReady, MarkActive
<1>8. CASE Supersede
  BY <1>8 DEF Supersede
<1>9. CASE StartStreaming \/ FailJob \/ ClearCancelSignal
  BY <1>9 DEF StartStreaming, FailJob, ClearCancelSignal
<1>10. CASE MarkCancelled \/ CancelCleanup
  BY <1>10 DEF MarkCancelled, CancelCleanup
<1>11. CASE CleanupDeployment \/ MarkInactive
  BY <1>11 DEF CleanupDeployment, MarkInactive
<1>12. ~ WaitForJob
  BY DEF WaitForJob
<1> QED BY <1>1, <1>2, <1>3, <1>4, <1>5, <1>6, <1>7, <1>8, <1>9, <1>10, <1>11,
           <1>12, Zenon DEF WorkerStep

\* Nothing else moves the loop, but for the end of the process.
LEMMA LoopIsAlone ==
  [Next]_vars => \/ UNCHANGED <<wpc, wjob>> \/ WorkerStep
                 \/ wpc' = "idle" /\ wjob' = NoDep
<1> SUFFICES ASSUME [Next]_vars, ~ WorkerStep
             PROVE  \/ UNCHANGED <<wpc, wjob>>
                    \/ wpc' = "idle" /\ wjob' = NoDep
  OBVIOUS
<1> USE DEF workerVars
<1>1. CASE WorkerCrash
  BY <1>1 DEF WorkerCrash, Restart, Release
<1>2. ASSUME NEW r \in Request, HandlerStep(r) \/ RequestDies(r)
      PROVE  UNCHANGED <<wpc, wjob>>
  BY <1>2 DEF HandlerStep, CreateRow, PushSignal, PushOverwrite, PushRow,
       NewRow, Enqueue, CancelWrite, CancelPublish, RequestDies
<1>3. ASSUME NEW r \in Request, NEW p \in Project,
             CreateCheck(r, p) \/ PushRead(r, p)
      PROVE  UNCHANGED <<wpc, wjob>>
  BY <1>3 DEF CreateCheck, PushRead
<1>4. ASSUME NEW r \in Request, NEW c \in Dep, CancelRead(r, c)
      PROVE  UNCHANGED <<wpc, wjob>>
  BY <1>4 DEF CancelRead
<1>5. ASSUME NEW c \in Dep, NEW s \in ManualStatus, ManualUpdate(c, s)
      PROVE  UNCHANGED <<wpc, wjob>>
  BY <1>5 DEF ManualUpdate
<1>6. ASSUME NEW c \in Dep, SignalExpires(c)
      PROVE  UNCHANGED <<wpc, wjob>>
  BY <1>6 DEF SignalExpires
<1>7. ASSUME ExpiryStep PROVE UNCHANGED <<wpc, wjob>>
  BY <1>7 DEF ExpiryStep, ExpiryFetch, ExpiryNext, ExpiryCleanup, ExpiryMark,
       ExpiryInactive
<1>8. ASSUME UNCHANGED vars PROVE UNCHANGED <<wpc, wjob>>
  BY <1>8 DEF vars
<1> QED BY <1>1, <1>2, <1>3, <1>4, <1>5, <1>6, <1>7, <1>8, Zenon DEF Next

\* From place n the loop gets to place m, the next one, or farther, or it has
\* let go of its job.
Leaves(n, m) ==
  FairSpec /\ []LoopIsNeverStuck => (Beyond(n) ~> Beyond(m) \/ wpc = "idle")

LEMMA PlaceIsLeft ==
  ASSUME NEW n \in 0 .. 23, NEW m \in 1 .. 24, m = n + 1
  PROVE  Leaves(n, m)
<1>1. TypeInv /\ TypeInv' /\ Beyond(n) /\ [Next]_vars
        => (Beyond(n))' \/ (wpc = "idle")'
  <2> SUFFICES ASSUME TypeInv, TypeInv', Beyond(n), [Next]_vars, wpc' # "idle"
               PROVE  (Beyond(n))'
    OBVIOUS
  <2>1. wpc # "idle" /\ Place[wpc] >= n /\ Place[wpc] \in 0 .. 23
    BY Places DEF Beyond, TypeInv, TypeOK
  <2>2. wpc' \in WorkerPc \ {"idle"}
    BY DEF TypeInv, TypeOK
  <2>3. Place[wpc'] \in 0 .. 23
    BY <2>2, Places
  <2>4. CASE WorkerStep
    BY <2>1, <2>3, <2>4, BodyGoesOn DEF Beyond
  <2>5. CASE UNCHANGED <<wpc, wjob>>
    BY <2>1, <2>5 DEF Beyond
  <2> QED BY <2>4, <2>5, LoopIsAlone
<1>2. TypeInv /\ TypeInv' /\ Beyond(n) /\ <<WorkerStep>>_vars
        => (Beyond(m))' \/ (wpc = "idle")'
  <2> SUFFICES ASSUME TypeInv, TypeInv', Beyond(n), WorkerStep, wpc' # "idle"
               PROVE  (Beyond(m))'
    OBVIOUS
  <2>1. wpc # "idle" /\ Place[wpc] >= n /\ Place[wpc] \in 0 .. 23
    BY Places DEF Beyond, TypeInv, TypeOK
  <2>2. wpc' \in WorkerPc \ {"idle"}
    BY DEF TypeInv, TypeOK
  <2>3. Place[wpc'] \in 0 .. 23
    BY <2>2, Places
  <2> QED BY <2>1, <2>3, BodyGoesOn DEF Beyond
<1>3. LoopIsNeverStuck /\ Beyond(n) => ENABLED <<WorkerStep>>_vars
  BY DEF LoopIsNeverStuck, Beyond
<1>4. Spec => []TypeInv
  BY TypeCorrect
<1>5. FairSpec => Spec /\ WF_vars(WorkerStep)
  BY PTL DEF FairSpec
<1> QED BY <1>1, <1>2, <1>3, <1>4, <1>5, PTL DEF Spec, Leaves

\* The worker's loop comes back to its queue again and again, whatever fails on
\* the way: no phase, no status call and no cleanup holds it for good
\* (worker.go:121).
THEOREM LoopComesBack ==
  FairSpec /\ []LoopIsNeverStuck => []<>(wpc = "idle")
<1>1. \A n \in 0 .. 23 : \A m \in 1 .. 24 : m = n + 1 => Leaves(n, m)
  BY PlaceIsLeft
<1>2. /\ Leaves(0, 1) /\ Leaves(1, 2) /\ Leaves(2, 3) /\ Leaves(3, 4)
      /\ Leaves(4, 5) /\ Leaves(5, 6) /\ Leaves(6, 7) /\ Leaves(7, 8)
      /\ Leaves(8, 9) /\ Leaves(9, 10) /\ Leaves(10, 11) /\ Leaves(11, 12)
      /\ Leaves(12, 13) /\ Leaves(13, 14) /\ Leaves(14, 15) /\ Leaves(15, 16)
      /\ Leaves(16, 17) /\ Leaves(17, 18) /\ Leaves(18, 19) /\ Leaves(19, 20)
      /\ Leaves(20, 21) /\ Leaves(21, 22) /\ Leaves(22, 23) /\ Leaves(23, 24)
  BY <1>1
<1>3. TypeInv => (wpc = "idle" \/ Beyond(0)) /\ ~ Beyond(24)
  <2> SUFFICES ASSUME TypeInv, wpc # "idle"
               PROVE  Beyond(0) /\ ~ Beyond(24)
    BY DEF Beyond
  <2>1. wpc \in WorkerPc \ {"idle"}
    BY DEF TypeInv, TypeOK
  <2>2. Place[wpc] \in 0 .. 23
    BY <2>1, Places
  <2> QED BY <2>2 DEF Beyond
<1>4. Spec => []TypeInv
  BY TypeCorrect
<1>5. FairSpec => Spec
  BY PTL DEF FairSpec
<1> QED BY <1>2, <1>3, <1>4, <1>5, PTL DEF Leaves

\* Neither the loop nor anything else takes a job from the queue while the
\* loop is not at work: only WaitForJob shortens it.
LEMMA QueueStays ==
  ASSUME TypeInv, [Next]_vars, ~ WaitForJob, queue # <<>>
  PROVE  queue' # <<>>
<1> USE DEF workerVars, apiVars, StatusCall, Release, Restart
<1>1. CASE WorkerStep
  BY <1>1, Zenon DEF WorkerStep, CheckCancelled, MarkPending, MarkBuilding,
       LogHeader, RunPhase, MarkImage, MarkDeploying, Deploy, MarkReady,
       MarkActive, Supersede, StartStreaming, FailJob, MarkCancelled,
       CancelCleanup, CleanupDeployment, MarkInactive, ClearCancelSignal
<1>2. CASE WorkerCrash
  BY <1>2 DEF WorkerCrash
<1>3. ASSUME NEW r \in Request, Enqueue(r) PROVE queue' # <<>>
  <2>1. queue \in Seq(Dep) /\ queue' = Append(queue, req[r].dep)
    BY <1>3 DEF Enqueue, TypeInv, TypeOK
  <2> QED BY <2>1
<1>4. ASSUME NEW r \in Request, HandlerStep(r) \/ RequestDies(r), ~ Enqueue(r)
      PROVE  queue' = queue
  BY <1>4 DEF HandlerStep, CreateRow, PushSignal, PushOverwrite, PushRow,
       NewRow, CancelWrite, CancelPublish, RequestDies
<1>5. ASSUME NEW r \in Request, NEW p \in Project,
             CreateCheck(r, p) \/ PushRead(r, p)
      PROVE  queue' = queue
  BY <1>5 DEF CreateCheck, PushRead
<1>6. ASSUME NEW r \in Request, NEW c \in Dep, CancelRead(r, c)
      PROVE  queue' = queue
  BY <1>6 DEF CancelRead
<1>7. ASSUME NEW c \in Dep, NEW s \in ManualStatus, ManualUpdate(c, s)
      PROVE  queue' = queue
  BY <1>7 DEF ManualUpdate
<1>8. ASSUME NEW c \in Dep, SignalExpires(c)
      PROVE  queue' = queue
  BY <1>8 DEF SignalExpires
<1>9. ASSUME ExpiryStep PROVE queue' = queue
  BY <1>9 DEF ExpiryStep, ExpiryFetch, ExpiryNext, ExpiryCleanup, ExpiryMark,
       ExpiryInactive
<1>10. ASSUME UNCHANGED vars PROVE queue' = queue
  BY <1>10 DEF vars
<1> QED BY <1>1, <1>2, <1>3, <1>4, <1>5, <1>6, <1>7, <1>8, <1>9, <1>10, Zenon
        DEF Next

\* Names for the state formulae that the temporal steps are about.
JobsWait == queue # <<>>
LoopWorks == wpc # "idle"

\* A queue with jobs in it is served: the loop takes one of them, the newest
\* by then.
THEOREM QueueIsServed ==
  FairSpec /\ []LoopIsNeverStuck => (JobsWait ~> LoopWorks)
<1>1. TypeInv /\ JobsWait /\ [Next]_vars => JobsWait' \/ LoopWorks'
  BY QueueStays, Labels DEF JobsWait, LoopWorks, WaitForJob
<1>2. JobsWait /\ ~ LoopWorks /\ <<WorkerStep>>_vars => LoopWorks'
  <2> SUFFICES ASSUME JobsWait, ~ LoopWorks, WorkerStep PROVE LoopWorks'
    OBVIOUS
  <2>1. CASE WaitForJob
    BY <2>1 DEF WaitForJob, LoopWorks
  <2>2. CASE ~ WaitForJob
    BY <2>2, Labels, LabelSets
       DEF LoopWorks, WorkerStep, CheckCancelled, MarkPending, MarkBuilding,
       LogHeader, RunPhase, MarkImage, MarkDeploying, Deploy,
       MarkReady, MarkActive, Supersede, StartStreaming, FailJob,
       MarkCancelled, CancelCleanup, CleanupDeployment, MarkInactive,
       ClearCancelSignal
  <2> QED BY <2>1, <2>2
<1>3. LoopIsNeverStuck /\ JobsWait => ENABLED <<WorkerStep>>_vars
  BY DEF LoopIsNeverStuck, JobsWait
<1>4. Spec => []TypeInv
  BY TypeCorrect
<1>5. FairSpec => Spec /\ WF_vars(WorkerStep)
  BY PTL DEF FairSpec
<1> QED BY <1>1, <1>2, <1>3, <1>4, <1>5, PTL DEF Spec

InPhase(d, x) == phaseOf[d] = x

\* A job that the worker has taken is over some day, and for good: the part of
\* EveryJobEnds that does not need to count the jobs ahead in the queue.
THEOREM TakenJobEnds ==
  ASSUME NEW d \in Dep
  PROVE  FairSpec /\ []LoopIsNeverStuck
           => (InPhase(d, "running") ~> []InPhase(d, "over"))
<1>1. wpc = "idle" => ~ InPhase(d, "running")
  BY DEF InPhase, phaseOf, Running
<1>2. [Lifecycle!Next]_phaseOf
        => \/ phaseOf' = phaseOf
           \/ \E e \in Dep, x \in Lifecycle!Phase :
                /\ phaseOf' = [phaseOf EXCEPT ![e] = x]
                /\ phaseOf[e] # "over"
                /\ phaseOf[e] = "running" => x = "over"
  BY Zenon
     DEF Lifecycle!Next, Lifecycle!Submit, Lifecycle!Start, Lifecycle!Finish,
         Lifecycle!Drop, Lifecycle!Dep, Lifecycle!Phase, Dep
<1>3. InPhase(d, "running") /\ [Lifecycle!Next]_phaseOf
        => InPhase(d, "running")' \/ InPhase(d, "over")'
  <2>1. DOMAIN phaseOf = Dep
    BY DEF phaseOf
  <2> QED BY <1>2, <2>1 DEF InPhase
<1>4. InPhase(d, "over") /\ [Lifecycle!Next]_phaseOf => InPhase(d, "over")'
  <2>1. DOMAIN phaseOf = Dep
    BY DEF phaseOf
  <2> QED BY <1>2, <2>1 DEF InPhase
<1>5. Spec => [][Lifecycle!Next]_phaseOf
  BY PipelineImplementsLifecycle, PTL DEF ImplementsLifecycle, Lifecycle!Spec
<1>6. FairSpec => Spec
  BY PTL DEF FairSpec
<1> QED BY <1>1, <1>3, <1>4, <1>5, <1>6, LoopComesBack, PTL

RowSettles(d) == status[d] \notin InProgress \/ d \in faulted \cup headless

\* A row whose job the worker has taken comes out of QUEUED, BUILDING and
\* DEPLOYING some day, and for good, unless a fault had it in its hands or its
\* commit hash is "HEAD": the part of EverySettles that begins with the pop.
THEOREM TakenRowSettles ==
  ASSUME ManualStatus \cap InProgress = {}, NEW d \in Dep
  PROVE  FairSpec /\ []LoopIsNeverStuck
           => (InPhase(d, "running") ~> []RowSettles(d))
<1>1. InProgressIsOwned /\ InPhase(d, "over") => RowSettles(d)
  BY DEF InProgressIsOwned, InPhase, phaseOf, RowSettles
<1>2. Spec => []InProgressIsOwned
  BY NoneLeftInProgress
<1>3. FairSpec => Spec
  BY PTL DEF FairSpec
<1> QED BY <1>1, <1>2, <1>3, TakenJobEnds, PTL

=============================================================================

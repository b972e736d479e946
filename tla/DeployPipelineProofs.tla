------------------------ MODULE DeployPipelineProofs ------------------------
(***************************************************************************)
(* Theorems about DeployPipeline, for every number of projects, requests   *)
(* and deployments, every set of operations and every set of faults.       *)
(***************************************************************************)
EXTENDS DeployPipeline, SequenceTheorems, TLAPS

-----------------------------------------------------------------------------
(* Type correctness *)

\* The first n elements of a sequence.
LEMMA Prefix ==
  ASSUME NEW S, NEW q, NEW n \in Nat, \A i \in 1 .. n : q[i] \in S
  PROVE  /\ SubSeq(q, 1, n) \in Seq(S)
         /\ Len(SubSeq(q, 1, n)) = n
         /\ \A i \in 1 .. n : SubSeq(q, 1, n)[i] = q[i]
<1>1. 1 \in Int /\ n \in Int
  OBVIOUS
<1>2. /\ SubSeq(q, 1, n) \in Seq(S)
      /\ Len(SubSeq(q, 1, n)) = IF 1 <= n THEN n - 1 + 1 ELSE 0
      /\ \A i \in 1 .. n - 1 + 1 : SubSeq(q, 1, n)[i] = q[1 + i - 1]
  BY <1>1, SubSeqProperties
<1>3. (IF 1 <= n THEN n - 1 + 1 ELSE 0) = n /\ n - 1 + 1 = n
  OBVIOUS
<1>4. \A i \in 1 .. n : 1 + i - 1 = i
  OBVIOUS
<1>5. QED BY <1>2, <1>3, <1>4

\* What BRPOP takes from the build queue and what it leaves.
LEMMA RemainingProperties ==
  ASSUME NEW S, NEW q \in Seq(S), q # <<>>
  PROVE  /\ NextJob(q) \in S
         /\ Remaining(q) \in Seq(S)
         /\ Len(q) \in Nat /\ Len(q) > 0
         /\ Len(Remaining(q)) = Len(q) - 1
         /\ \A i \in 1 .. Len(q) - 1 : Remaining(q)[i] = q[i]
         /\ NextJob(q) = q[Len(q)]
<1>1. Len(q) \in Nat /\ Len(q) > 0
  BY EmptySeq, LenProperties
<1>2. \A i \in 1 .. Len(q) : q[i] \in S
  BY ElementOfSeq
<1>3. Len(q) - 1 \in Nat /\ \A i \in 1 .. Len(q) - 1 : q[i] \in S
  BY <1>1, <1>2
<1>4. q[Len(q)] \in S
  BY <1>1, <1>2
<1> DEFINE n == Len(q) - 1
<1>5. /\ SubSeq(q, 1, n) \in Seq(S)
      /\ Len(SubSeq(q, 1, n)) = n
      /\ \A i \in 1 .. n : SubSeq(q, 1, n)[i] = q[i]
  <2> HIDE DEF n
  <2>1. n \in Nat /\ \A i \in 1 .. n : q[i] \in S
    BY <1>3 DEF n
  <2>2. QED BY <2>1, Prefix
<1>6. QED BY <1>1, <1>4, <1>5 DEF NextJob, Remaining

\* The labels of processJob, spelled out.
LEMMA Labels ==
  /\ DOMAIN CheckNext = {"check1", "check2", "check3", "check4", "check5"}
  /\ DOMAIN PhaseNext = {"token", "clone", "build"}
  /\ CheckNext["check1"] = "pending" /\ CheckNext["check2"] = "token"
  /\ CheckNext["check3"] = "clone" /\ CheckNext["check4"] = "build"
  /\ CheckNext["check5"] = "deploying"
  /\ PhaseNext["token"] = "check3" /\ PhaseNext["clone"] = "check4"
  /\ PhaseNext["build"] = "image"
BY DEF CheckNext, PhaseNext

\* The sets of labels, without CheckNext and PhaseNext.
LEMMA LabelSets ==
  /\ BeforeLastCheck = {"check1", "check2", "check3", "check4", "check5",
                        "token", "clone", "build", "pending", "building",
                        "header", "image"}
  /\ WorkerPc = {"idle", "failing"} \cup BeforeLastCheck \cup Deploying
                  \cup Live \cup Cancelling
BY Labels, Zenon DEF BeforeLastCheck, WorkerPc

TypeInv == TypeOK /\ Shape

LEMMA InitTypeInv == Init => TypeInv
BY PipelineAssumption, EmptySeq, LabelSets
   DEF Init, TypeInv, TypeOK, Shape, Dep, NoDep, NoRequest, RequestPc,
       RequestState, NeedsRow

\* A handler goes on, with a row where it needs one.
LEMMA GotoType ==
  ASSUME TypeInv, NEW r \in Request, NEW pc \in RequestPc,
         NEW p \in Project \cup {NoProject}, NEW d \in Dep \cup {NoDep},
         NEW prev \in Dep \cup {NoDep}, pc \in NeedsRow => d # NoDep,
         Goto(r, pc, p, d, prev)
  PROVE  /\ req' \in [Request -> RequestState]
         /\ \A q \in Request : req'[q].pc \in NeedsRow => req'[q].dep # NoDep
<1>1. [pc |-> pc, project |-> p, dep |-> d, previous |-> prev] \in RequestState
  BY DEF RequestState
<1>2. QED BY <1>1 DEF Goto, TypeInv, TypeOK, Shape

\* A handler ends.
LEMMA IdleType ==
  ASSUME TypeInv, NEW r \in Request, req' = [req EXCEPT ![r] = NoRequest]
  PROVE  /\ req' \in [Request -> RequestState]
         /\ \A q \in Request : req'[q].pc \in NeedsRow => req'[q].dep # NoDep
<1>1. NoRequest \in RequestState /\ NoRequest.pc \notin NeedsRow
  BY DEF NoRequest, RequestState, RequestPc, NeedsRow
<1>2. QED BY <1>1 DEF TypeInv, TypeOK, Shape

\* What a handler has read.
LEMMA RequestFields ==
  ASSUME TypeInv, NEW r \in Request
  PROVE  /\ req[r].project \in Project \cup {NoProject}
         /\ req[r].dep \in Dep \cup {NoDep}
         /\ req[r].previous \in Dep \cup {NoDep}
         /\ req[r].pc \in NeedsRow => req[r].dep \in Dep
BY DEF TypeInv, TypeOK, Shape, RequestState

\* A row is created.
LEMMA NewRowType ==
  ASSUME TypeInv, NEW r \in Request, NEW prev \in Dep \cup {NoDep},
         NewRow(r, prev)
  PROVE  /\ created + 1 \in Dep
         /\ created' \in 0 .. MaxDep
         /\ status' \in [Dep -> Status \cup {"ABSENT"}]
         /\ project' \in [Dep -> Project \cup {NoProject}]
         /\ previous' \in [Dep -> Dep \cup {NoDep}]
         /\ req' \in [Request -> RequestState]
         /\ \A q \in Request : req'[q].pc \in NeedsRow => req'[q].dep # NoDep
<1>1. created + 1 \in Dep /\ created + 1 # NoDep /\ created' \in 0 .. MaxDep
  BY PipelineAssumption DEF NewRow, TypeInv, TypeOK, Dep, NoDep
<1>2. "enqueue" \in RequestPc
  BY DEF RequestPc
<1>3. /\ req' \in [Request -> RequestState]
      /\ \A q \in Request : req'[q].pc \in NeedsRow => req'[q].dep # NoDep
  BY <1>1, <1>2, GotoType, RequestFields DEF NewRow
<1>4. "QUEUED" \in Status
  BY DEF Status, InProgress
<1>5. /\ status' \in [Dep -> Status \cup {"ABSENT"}]
      /\ project' \in [Dep -> Project \cup {NoProject}]
      /\ previous' \in [Dep -> Dep \cup {NoDep}]
  BY <1>1, <1>4, RequestFields DEF NewRow, TypeInv, TypeOK
<1>6. QED BY <1>1, <1>3, <1>5

\* While its loop is not waiting, the worker holds a row's job.
LEMMA WorkerJob == TypeInv /\ wpc # "idle" => wjob \in Dep
BY DEF TypeInv, TypeOK, Shape

\* A row's status is written by the internal API.
LEMMA ApplyType ==
  ASSUME TypeInv, NEW d \in Dep, NEW s \in Status, ApplyStatus(d, s)
  PROVE  /\ status' \in [Dep -> Status \cup {"ABSENT"}]
         /\ isSuccess' \in SUBSET Dep
BY DEF ApplyStatus, TypeInv, TypeOK

\* A status call of the worker ends at ok or at err.
LEMMA StatusCallType ==
  ASSUME TypeInv, NEW d \in Dep, NEW s \in Status, NEW ok, NEW err,
         StatusCall(d, s, ok, err)
  PROVE  /\ status' \in [Dep -> Status \cup {"ABSENT"}]
         /\ isSuccess' \in SUBSET Dep
         /\ faulted' \in SUBSET Dep
         /\ wpc' \in {ok, err}
<1>1. faulted' \in SUBSET Dep /\ wpc' \in {ok, err}
  BY DEF StatusCall, TypeInv, TypeOK
<1>2. CASE ApplyStatus(d, s)
  BY <1>1, <1>2, ApplyType
<1>3. CASE UNCHANGED <<status, isSuccess>>
  BY <1>1, <1>3 DEF TypeInv, TypeOK
<1>4. QED BY <1>2, <1>3 DEF StatusCall

\* A project's online status is written, or not.
LEMMA OnlineType ==
  ASSUME TypeInv, NEW p, NEW s \in {"PENDING", "ACTIVE", "INACTIVE"},
         OnlineCall(p, s)
  PROVE  online' \in [Project -> {"PENDING", "ACTIVE", "INACTIVE"}]
BY DEF OnlineCall, TypeInv, TypeOK

\* A project's resources are deleted, or not.
LEMMA TearDownType ==
  ASSUME TypeInv, NEW p, TearDown(p)
  PROVE  cluster' \in [Project -> Dep \cup {NoDep}]
BY DEF TearDown, TypeInv, TypeOK

\* One step of each handler, of the worker and of the expiry goroutine.
LEMMA NextTypeInv == TypeInv /\ [Next]_vars => TypeInv'
<1> SUFFICES ASSUME TypeInv, [Next]_vars PROVE TypeInv'
  OBVIOUS
<1> USE DEF dbVars, apiVars, workerVars, expiryVars, ghostVars
<1>1. ASSUME NEW r \in Request, NEW p \in Project, CreateCheck(r, p)
      PROVE  TypeInv'
  <2>1. Goto(r, "createRow", p, NoDep, NoDep)
    BY <1>1 DEF CreateCheck
  <2>2. "createRow" \in RequestPc \ NeedsRow
    BY DEF RequestPc, NeedsRow
  <2>3. QED BY <1>1, <2>1, <2>2, GotoType DEF CreateCheck, TypeInv, TypeOK, Shape
<1>2. ASSUME NEW r \in Request, NEW p \in Project, PushRead(r, p)
      PROVE  TypeInv'
  <2>1. PICK pc \in {"pushRow", "signal"}, d \in Dep \cup {NoDep},
             prev \in Dep \cup {NoDep} :
          Goto(r, pc, p, d, prev) /\ (pc \in NeedsRow => d # NoDep)
    <3> DEFINE candidates ==
          {d \in RowsOf(p) : status[d] \in InProgress \cup {"READY"}}
    <3>1. \A d \in candidates : d \in Dep /\ d # NoDep
      BY PipelineAssumption DEF RowsOf, Row, Dep, NoDep, TypeInv, TypeOK
    <3>2. "pushRow" \notin NeedsRow
      BY DEF NeedsRow
    <3> HIDE DEF candidates
    <3>3. \/ Goto(r, "pushRow", p, NoDep, NoDep)
          \/ \E d \in candidates : \/ Goto(r, "pushRow", p, NoDep, d)
                                   \/ Goto(r, "signal", p, d, NoDep)
      BY <1>2 DEF PushRead, candidates
    <3>4. QED BY <3>1, <3>2, <3>3
  <2>2. pc \in RequestPc
    BY DEF RequestPc
  <2>3. QED BY <1>2, <2>1, <2>2, GotoType DEF PushRead, TypeInv, TypeOK, Shape
<1>3. ASSUME NEW r \in Request, NEW d \in Dep, CancelRead(r, d)
      PROVE  TypeInv'
  <2>1. Goto(r, "markCanceled", project[d], d, NoDep) /\ d # NoDep
    BY <1>3 DEF CancelRead, Dep, NoDep
  <2>2. "markCanceled" \in RequestPc /\ project[d] \in Project \cup {NoProject}
    BY DEF RequestPc, TypeInv, TypeOK
  <2>3. QED BY <1>3, <2>1, <2>2, GotoType DEF CancelRead, TypeInv, TypeOK, Shape
<1>4. ASSUME NEW r \in Request, CreateRow(r)
      PROVE  TypeInv'
  <2>1. NewRow(r, NoDep) /\ headless' \subseteq headless \cup {created + 1}
    BY <1>4 DEF CreateRow
  <2>2. QED BY <2>1, NewRowType DEF NewRow, TypeInv, TypeOK, Shape
<1>5. ASSUME NEW r \in Request, PushSignal(r)
      PROVE  TypeInv'
  <2>1. req[r].dep \in Dep /\ req[r].dep # NoDep
    BY <1>5, RequestFields DEF PushSignal, NeedsRow, Dep, NoDep
  <2>2. "overwrite" \in RequestPc
    BY DEF RequestPc
  <2>3. /\ req' \in [Request -> RequestState]
        /\ \A q \in Request : req'[q].pc \in NeedsRow => req'[q].dep # NoDep
    BY <1>5, <2>1, <2>2, GotoType, RequestFields DEF PushSignal
  <2>4. cancelKey' \subseteq Dep /\ binding' \subseteq Dep
    BY <1>5, <2>1 DEF PushSignal, PublishCancelSignal, TypeInv, TypeOK
  <2>5. QED BY <1>5, <2>3, <2>4 DEF PushSignal, TypeInv, TypeOK, Shape
<1>6. ASSUME NEW r \in Request, PushOverwrite(r)
      PROVE  TypeInv'
  <2>1. "pushRow" \in RequestPc \ NeedsRow
    BY DEF RequestPc, NeedsRow
  <2>2. /\ req' \in [Request -> RequestState]
        /\ \A q \in Request : req'[q].pc \in NeedsRow => req'[q].dep # NoDep
    BY <1>6, <2>1, GotoType, RequestFields DEF PushOverwrite
  <2>3. status' \in [Dep -> Status \cup {"ABSENT"}]
    BY <1>6 DEF PushOverwrite, WriteCanceled, Status, Settled, TypeInv, TypeOK
  <2>4. QED BY <1>6, <2>2, <2>3 DEF PushOverwrite, TypeInv, TypeOK, Shape
<1>7. ASSUME NEW r \in Request, PushRow(r)
      PROVE  TypeInv'
  <2>1. NewRow(r, req[r].previous) /\ UNCHANGED headless
    BY <1>7 DEF PushRow
  <2>2. QED BY <2>1, NewRowType, RequestFields
            DEF NewRow, TypeInv, TypeOK, Shape
<1>8. ASSUME NEW r \in Request, Enqueue(r)
      PROVE  TypeInv'
  <2>1. req[r].dep \in Dep
    BY <1>8, RequestFields DEF Enqueue, NeedsRow
  <2>2. queue' \in Seq(Dep)
    BY <1>8, <2>1, AppendProperties DEF Enqueue, TypeInv, TypeOK
  <2>3. QED BY <1>8, <2>2, IdleType DEF Enqueue, TypeInv, TypeOK, Shape
<1>9. ASSUME NEW r \in Request, CancelWrite(r)
      PROVE  TypeInv'
  <2>1. req[r].dep \in Dep /\ req[r].dep # NoDep
    BY <1>9, RequestFields DEF CancelWrite, NeedsRow, Dep, NoDep
  <2>2. "publish" \in RequestPc
    BY DEF RequestPc
  <2>3. /\ req' \in [Request -> RequestState]
        /\ \A q \in Request : req'[q].pc \in NeedsRow => req'[q].dep # NoDep
    BY <1>9, <2>1, <2>2, GotoType, RequestFields DEF CancelWrite
  <2>4. status' \in [Dep -> Status \cup {"ABSENT"}]
    BY <1>9 DEF CancelWrite, WriteCanceled, Status, Settled, TypeInv, TypeOK
  <2>5. QED BY <1>9, <2>3, <2>4 DEF CancelWrite, TypeInv, TypeOK, Shape
<1>10. ASSUME NEW r \in Request, CancelPublish(r)
      PROVE  TypeInv'
  <2>1. req[r].dep \in Dep
    BY <1>10, RequestFields DEF CancelPublish, NeedsRow
  <2>2. cancelKey' \subseteq Dep /\ binding' \subseteq Dep
    BY <1>10, <2>1 DEF CancelPublish, PublishCancelSignal, TypeInv, TypeOK
  <2>3. QED BY <1>10, <2>2, IdleType DEF CancelPublish, TypeInv, TypeOK, Shape
<1>11. ASSUME NEW r \in Request, RequestDies(r)
      PROVE  TypeInv'
  <2>1. faulted' \subseteq Dep
    BY <1>11, RequestFields DEF RequestDies, TypeInv, TypeOK
  <2>2. QED BY <1>11, <2>1, IdleType DEF RequestDies, TypeInv, TypeOK, Shape
<1>12. ASSUME NEW d \in Dep, NEW s \in ManualStatus, ManualUpdate(d, s)
      PROVE  TypeInv'
  BY <1>12, PipelineAssumption DEF ManualUpdate, TypeInv, TypeOK, Shape
<1>13. ASSUME NEW d \in Dep, SignalExpires(d)
      PROVE  TypeInv'
  BY <1>13 DEF SignalExpires, TypeInv, TypeOK, Shape
<1>14. ASSUME WaitForJob
      PROVE  TypeInv'
  <2>1. NextJob(queue) \in Dep /\ Remaining(queue) \in Seq(Dep)
    BY <1>14, RemainingProperties DEF WaitForJob, TypeInv, TypeOK
  <2>2. NextJob(queue) # NoDep
    BY <2>1 DEF Dep, NoDep
  <2>3. wpc' \in WorkerPc /\ wpc' # "idle"
    BY <1>14, LabelSets DEF WaitForJob
  <2>4. QED BY <1>14, <2>1, <2>2, <2>3 DEF WaitForJob, TypeInv, TypeOK, Shape
<1>15. ASSUME CheckCancelled
      PROVE  TypeInv'
  <2>1. wpc # "idle" /\ CheckNext[wpc] \in WorkerPc \ {"idle"}
    BY <1>15, Labels, LabelSets DEF CheckCancelled, Deploying
  <2>2. wpc' \in WorkerPc \ {"idle"}
    BY <1>15, <2>1, LabelSets DEF CheckCancelled, Cancelling
  <2>3. binding' \subseteq Dep
    BY <1>15 DEF CheckCancelled, TypeInv, TypeOK
  <2>4. QED BY <1>15, <2>1, <2>2, <2>3 DEF CheckCancelled, TypeInv, TypeOK, Shape
<1>16. ASSUME MarkPending
      PROVE  TypeInv'
  <2>1. wpc # "idle" /\ wpc' \in WorkerPc \ {"idle"}
    BY <1>16, LabelSets DEF MarkPending
  <2>2. online' \in [Project -> {"PENDING", "ACTIVE", "INACTIVE"}]
    BY <1>16, OnlineType DEF MarkPending
  <2>3. QED BY <1>16, <2>1, <2>2 DEF MarkPending, TypeInv, TypeOK, Shape
<1>17. ASSUME MarkBuilding
      PROVE  TypeInv'
  <2>1. wpc # "idle" /\ StatusCall(wjob, "BUILDING", "header", "failing")
    BY <1>17 DEF MarkBuilding
  <2>2. wjob \in Dep /\ "BUILDING" \in Status
    BY <2>1, WorkerJob DEF Status, InProgress, Settled
  <2>3. {"header", "failing"} \subseteq WorkerPc \ {"idle"}
    BY LabelSets
  <2>4. QED BY <1>17, <2>1, <2>2, <2>3, StatusCallType
            DEF MarkBuilding, TypeInv, TypeOK, Shape
<1>18. ASSUME LogHeader
      PROVE  TypeInv'
  <2>1. wpc # "idle" /\ "check2" \in WorkerPc \ {"idle"} /\ "idle" \in WorkerPc
    BY <1>18, LabelSets DEF LogHeader
  <2>2. CASE wjob \notin headless
    BY <1>18, <2>1, <2>2 DEF LogHeader, TypeInv, TypeOK, Shape
  <2>3. CASE wjob \in headless
    BY <1>18, <2>1, <2>3 DEF LogHeader, Restart, Release, TypeInv, TypeOK, Shape
  <2>4. QED BY <2>2, <2>3
<1>19. ASSUME RunPhase
      PROVE  TypeInv'
  <2>1. wpc # "idle" /\ {PhaseNext[wpc], "failing"} \subseteq WorkerPc \ {"idle"}
    BY <1>19, Labels, LabelSets DEF RunPhase
  <2>2. QED BY <1>19, <2>1 DEF RunPhase, TypeInv, TypeOK, Shape
<1>20. ASSUME MarkImage
      PROVE  TypeInv'
  <2>1. wpc # "idle" /\ StatusCall(wjob, "BUILDING", "check5", "check5")
    BY <1>20 DEF MarkImage
  <2>2. wjob \in Dep /\ "BUILDING" \in Status
    BY <2>1, WorkerJob DEF Status, InProgress, Settled
  <2>3. {"check5", "check5"} \subseteq WorkerPc \ {"idle"}
    BY LabelSets
  <2>4. QED BY <1>20, <2>1, <2>2, <2>3, StatusCallType
            DEF MarkImage, TypeInv, TypeOK, Shape
<1>21. ASSUME MarkDeploying
      PROVE  TypeInv'
  <2>1. wpc # "idle" /\ StatusCall(wjob, "DEPLOYING", "deploy", "failing")
    BY <1>21 DEF MarkDeploying
  <2>2. wjob \in Dep /\ "DEPLOYING" \in Status
    BY <2>1, WorkerJob DEF Status, InProgress, Settled
  <2>3. {"deploy", "failing"} \subseteq WorkerPc \ {"idle"}
    BY LabelSets DEF Deploying
  <2>4. QED BY <1>21, <2>1, <2>2, <2>3, StatusCallType
            DEF MarkDeploying, TypeInv, TypeOK, Shape
<1>22. ASSUME Deploy
      PROVE  TypeInv'
  <2>1. wpc # "idle" /\ {"ready", "failing"} \subseteq WorkerPc \ {"idle"}
    BY <1>22, LabelSets DEF Deploy, Deploying
  <2>2. cluster' \in [Project -> Dep \cup {NoDep}]
    BY <1>22, <2>1, WorkerJob DEF Deploy, TypeInv, TypeOK
  <2>3. wpc' \in {"ready", "failing"}
    BY <1>22 DEF Deploy
  <2>4. QED BY <1>22, <2>1, <2>2, <2>3 DEF Deploy, TypeInv, TypeOK, Shape
<1>23. ASSUME MarkReady
      PROVE  TypeInv'
  <2>1. wpc # "idle" /\ StatusCall(wjob, "READY", "active", "failing")
    BY <1>23 DEF MarkReady
  <2>2. wjob \in Dep /\ "READY" \in Status
    BY <2>1, WorkerJob DEF Status, InProgress, Settled
  <2>3. {"active", "failing"} \subseteq WorkerPc \ {"idle"}
    BY LabelSets DEF Live
  <2>4. QED BY <1>23, <2>1, <2>2, <2>3, StatusCallType
            DEF MarkReady, TypeInv, TypeOK, Shape
<1>24. ASSUME MarkActive
      PROVE  TypeInv'
  <2>1. wpc # "idle" /\ wpc' \in WorkerPc \ {"idle"}
    BY <1>24, LabelSets DEF MarkActive, Live
  <2>2. online' \in [Project -> {"PENDING", "ACTIVE", "INACTIVE"}]
    BY <1>24, OnlineType DEF MarkActive
  <2>3. QED BY <1>24, <2>1, <2>2 DEF MarkActive, TypeInv, TypeOK, Shape
<1>25. ASSUME Supersede
      PROVE  TypeInv'
  <2>1. wpc # "idle" /\ wjob \in Dep /\ "stream" \in WorkerPc \ {"idle"}
    BY <1>25, WorkerJob, LabelSets DEF Supersede, Live
  <2>2. CASE previous[wjob] = NoDep
    BY <1>25, <2>1, <2>2 DEF Supersede, TypeInv, TypeOK, Shape
  <2>3. CASE previous[wjob] # NoDep
    <3>1. previous[wjob] \in Dep /\ "SUPERSEDED" \in Status
      BY <2>1, <2>3 DEF TypeInv, TypeOK, Status, Settled
    <3>2. /\ StatusCall(previous[wjob], "SUPERSEDED", "stream", "stream")
          /\ streams' = streams \ {previous[wjob]}
      BY <1>25, <2>3 DEF Supersede
    <3>3. QED BY <1>25, <2>1, <3>1, <3>2, StatusCallType
              DEF Supersede, TypeInv, TypeOK, Shape
  <2>4. QED BY <2>2, <2>3
<1>26. ASSUME StartStreaming
      PROVE  TypeInv'
  <2>1. wpc # "idle" /\ wjob \in Dep /\ "idle" \in WorkerPc
    BY <1>26, WorkerJob, LabelSets DEF StartStreaming
  <2>2. QED BY <1>26, <2>1 DEF StartStreaming, Release, TypeInv, TypeOK, Shape
<1>27. ASSUME FailJob
      PROVE  TypeInv'
  <2>1. wjob \in Dep /\ "idle" \in WorkerPc /\ "FAILED" \in Status
    BY <1>27, WorkerJob, LabelSets DEF FailJob, Status, Settled
  <2>2. CASE ApplyStatus(wjob, "FAILED") /\ UNCHANGED faulted
    BY <1>27, <2>1, <2>2, ApplyType
       DEF FailJob, Release, TypeInv, TypeOK, Shape
  <2>3. CASE UNCHANGED <<status, isSuccess>> /\ faulted' = faulted \cup {wjob}
    BY <1>27, <2>1, <2>3 DEF FailJob, Release, TypeInv, TypeOK, Shape
  <2>4. QED BY <1>27, <2>2, <2>3 DEF FailJob
<1>28. ASSUME MarkCancelled
      PROVE  TypeInv'
  <2>1. wpc # "idle" /\ StatusCall(wjob, "CANCELED", "cleanup", "cleanup")
    BY <1>28 DEF MarkCancelled
  <2>2. wjob \in Dep /\ "CANCELED" \in Status
    BY <2>1, WorkerJob DEF Status, InProgress, Settled
  <2>3. {"cleanup", "cleanup"} \subseteq WorkerPc \ {"idle"}
    BY LabelSets DEF Cancelling
  <2>4. QED BY <1>28, <2>1, <2>2, <2>3, StatusCallType
            DEF MarkCancelled, TypeInv, TypeOK, Shape
<1>29. ASSUME CancelCleanup
      PROVE  TypeInv'
  <2>1. wpc # "idle" /\ wpc' \in WorkerPc \ {"idle"}
    BY <1>29, LabelSets DEF CancelCleanup, Cancelling
  <2>2. QED BY <1>29, <2>1, TearDownType
            DEF CancelCleanup, TypeInv, TypeOK, Shape
<1>30. ASSUME CleanupDeployment
      PROVE  TypeInv'
  <2>1. wpc # "idle" /\ StatusCall(wjob, "CANCELED", "inactive", "inactive")
    BY <1>30 DEF CleanupDeployment
  <2>2. wjob \in Dep /\ "CANCELED" \in Status
    BY <2>1, WorkerJob DEF Status, InProgress, Settled
  <2>3. {"inactive", "inactive"} \subseteq WorkerPc \ {"idle"}
    BY LabelSets DEF Cancelling
  <2>4. QED BY <1>30, <2>1, <2>2, <2>3, StatusCallType
            DEF CleanupDeployment, TypeInv, TypeOK, Shape
<1>31. ASSUME MarkInactive
      PROVE  TypeInv'
  <2>1. wpc # "idle" /\ wpc' \in WorkerPc \ {"idle"}
    BY <1>31, LabelSets DEF MarkInactive, Cancelling
  <2>2. online' \in [Project -> {"PENDING", "ACTIVE", "INACTIVE"}]
    BY <1>31, OnlineType DEF MarkInactive
  <2>3. QED BY <1>31, <2>1, <2>2 DEF MarkInactive, TypeInv, TypeOK, Shape
<1>32. ASSUME ClearCancelSignal
      PROVE  TypeInv'
  <2>1. "idle" \in WorkerPc
    BY LabelSets
  <2>2. QED BY <1>32, <2>1 DEF ClearCancelSignal, Release, TypeInv, TypeOK, Shape
<1>33. ASSUME ExpiryFetch
      PROVE  TypeInv'
  <2>1. elist' \subseteq Dep
    BY <1>33, PipelineAssumption DEF ExpiryFetch, Expired, Row, Dep, TypeInv, TypeOK
  <2>2. QED BY <1>33, <2>1 DEF ExpiryFetch, TypeInv, TypeOK, Shape
<1>34. ASSUME ExpiryNext
      PROVE  TypeInv'
  BY <1>34 DEF ExpiryNext, TypeInv, TypeOK, Shape
<1>35. ASSUME ExpiryCleanup
      PROVE  TypeInv'
  BY <1>35, TearDownType DEF ExpiryCleanup, TypeInv, TypeOK, Shape
<1>36. ASSUME ExpiryMark
      PROVE  TypeInv'
  <2>1. /\ status' \in [Dep -> Status \cup {"ABSENT"}]
        /\ isSuccess' \in SUBSET Dep
    BY <1>36 DEF ExpiryMark, ApplyStatus, Status, Settled, TypeInv, TypeOK
  <2>2. epc' \in {"next", "inactive"}
    BY <1>36 DEF ExpiryMark
  <2>3. QED BY <1>36, <2>1, <2>2 DEF ExpiryMark, TypeInv, TypeOK, Shape
<1>37. ASSUME ExpiryInactive
      PROVE  TypeInv'
  BY <1>37, OnlineType DEF ExpiryInactive, TypeInv, TypeOK, Shape
<1>38. ASSUME WorkerCrash
      PROVE  TypeInv'
  <2>1. "idle" \in WorkerPc
    BY LabelSets
  <2>2. QED BY <1>38, <2>1 DEF WorkerCrash, Restart, Release, TypeInv, TypeOK, Shape
<1>39. CASE UNCHANGED vars
  BY <1>39 DEF vars, TypeInv, TypeOK, Shape
<1>40. QED
  BY <1>1, <1>2, <1>3, <1>4, <1>5, <1>6, <1>7, <1>8, <1>9, <1>10, <1>11,
     <1>12, <1>13, <1>14, <1>15, <1>16, <1>17, <1>18, <1>19, <1>20, <1>21,
     <1>22, <1>23, <1>24, <1>25, <1>26, <1>27, <1>28, <1>29, <1>30, <1>31,
     <1>32, <1>33, <1>34, <1>35, <1>36, <1>37, <1>38, <1>39, Zenon DEF
     Next, HandlerStep, WorkerStep, ExpiryStep

\* Every variable keeps its type, and the worker holds a row's job exactly
\* while its loop is not waiting for one.
THEOREM TypeCorrect == Spec => []TypeInv
<1>1. Init => TypeInv
  BY InitTypeInv
<1>2. TypeInv /\ [Next]_vars => TypeInv'
  BY NextTypeInv
<1>3. QED BY <1>1, <1>2, PTL DEF Spec

\* Rows only hold statuses of the enum, queue and signals only rows, and both
\* loops are at one of their steps (schema.prisma:128, queue.go:65).
THEOREM RowsAndQueueTyped == Spec => []TypeOK
<1>1. TypeInv => TypeOK
  BY DEF TypeInv
<1>2. QED BY <1>1, TypeCorrect, PTL

-----------------------------------------------------------------------------
(* A row's job is in one place, and is taken once *)

\* A step that leaves every job where it is.
JobsStay ==
  /\ UNCHANGED <<created, project, queue, popped, wjob>>
  /\ \A r \in Request : /\ req'[r].pc = "enqueue" <=> req[r].pc = "enqueue"
                        /\ req[r].pc = "enqueue" => req'[r].dep = req[r].dep
  /\ wpc' = "idle" <=> wpc = "idle"

\* A step after which the worker holds no job.
JobEnds == Release /\ UNCHANGED <<created, project, queue, popped, req>>

\* A handler that pushes no job creates a row.
RowCreated(r) ==
  /\ req[r].pc # "enqueue"
  /\ \E prev \in Dep \cup {NoDep} : NewRow(r, prev)

\* Five kinds of step move a job.
LEMMA NextCases ==
  TypeInv /\ [Next]_vars =>
    \/ \E r \in Request : RowCreated(r)
    \/ \E r \in Request : Enqueue(r)
    \/ \E r \in Request : RequestDies(r)
    \/ WaitForJob
    \/ JobEnds
    \/ JobsStay
<1> SUFFICES ASSUME TypeInv, [Next]_vars,
                    ~ \E r \in Request : RowCreated(r),
                    ~ \E r \in Request : Enqueue(r),
                    ~ \E r \in Request : RequestDies(r),
                    ~ WaitForJob,
                    ~ JobEnds
             PROVE  JobsStay
  OBVIOUS
<1> USE DEF dbVars, apiVars, workerVars, expiryVars, ghostVars, JobsStay
<1>1. \A r \in Request : \A pc, p, d, prev :
        req[r].pc # "enqueue" /\ Goto(r, pc, p, d, prev) /\ pc # "enqueue" =>
          \A q \in Request :
            /\ req'[q].pc = "enqueue" <=> req[q].pc = "enqueue"
            /\ req[q].pc = "enqueue" => req'[q].dep = req[q].dep
  BY DEF Goto, TypeInv, TypeOK
<1>2. ASSUME NEW r \in Request, NEW p \in Project, CreateCheck(r, p)
      PROVE  JobsStay
  BY <1>2, <1>1 DEF CreateCheck
<1>3. ASSUME NEW r \in Request, NEW p \in Project, PushRead(r, p)
      PROVE  JobsStay
  BY <1>3, <1>1 DEF PushRead
<1>4. ASSUME NEW r \in Request, NEW d \in Dep, CancelRead(r, d)
      PROVE  JobsStay
  BY <1>4, <1>1 DEF CancelRead
<1>5. ASSUME NEW r \in Request, PushSignal(r)
      PROVE  JobsStay
  BY <1>5, <1>1 DEF PushSignal
<1>6. ASSUME NEW r \in Request, PushOverwrite(r)
      PROVE  JobsStay
  BY <1>6, <1>1 DEF PushOverwrite
<1>7. ASSUME NEW r \in Request, CancelWrite(r)
      PROVE  JobsStay
  BY <1>7, <1>1 DEF CancelWrite
<1>8. ASSUME NEW r \in Request, CancelPublish(r)
      PROVE  JobsStay
  BY <1>8 DEF CancelPublish, NoRequest, TypeInv, TypeOK
<1>9. ASSUME NEW d \in Dep, NEW s \in ManualStatus, ManualUpdate(d, s)
      PROVE  JobsStay
  BY <1>9 DEF ManualUpdate
<1>10. ASSUME NEW d \in Dep, SignalExpires(d)
      PROVE  JobsStay
  BY <1>10 DEF SignalExpires
<1>11. ASSUME WorkerStep PROVE JobsStay
  <2>1. CASE CheckCancelled
    BY <2>1, Labels DEF CheckCancelled
  <2>2. CASE MarkPending
    BY <2>2 DEF MarkPending
  <2>3. CASE MarkBuilding
    BY <2>3 DEF MarkBuilding, StatusCall
  <2>4. CASE LogHeader
    BY <2>4 DEF LogHeader, JobEnds, Restart
  <2>5. CASE RunPhase
    BY <2>5, Labels DEF RunPhase
  <2>6. CASE MarkImage
    BY <2>6 DEF MarkImage, StatusCall
  <2>7. CASE MarkDeploying
    BY <2>7 DEF MarkDeploying, StatusCall
  <2>8. CASE Deploy
    BY <2>8 DEF Deploy
  <2>9. CASE MarkReady
    BY <2>9 DEF MarkReady, StatusCall
  <2>10. CASE MarkActive
    BY <2>10 DEF MarkActive
  <2>11. CASE Supersede
    BY <2>11 DEF Supersede, StatusCall
  <2>12. CASE StartStreaming
    BY <2>12 DEF StartStreaming, JobEnds
  <2>13. CASE FailJob
    BY <2>13 DEF FailJob, JobEnds
  <2>14. CASE MarkCancelled
    BY <2>14 DEF MarkCancelled, StatusCall
  <2>15. CASE CancelCleanup
    BY <2>15 DEF CancelCleanup
  <2>16. CASE CleanupDeployment
    BY <2>16 DEF CleanupDeployment, StatusCall
  <2>17. CASE MarkInactive
    BY <2>17 DEF MarkInactive
  <2>18. CASE ClearCancelSignal
    BY <2>18 DEF ClearCancelSignal, JobEnds
  <2>19. QED
    BY <1>11, <2>1, <2>2, <2>3, <2>4, <2>5, <2>6, <2>7, <2>8, <2>9,
       <2>10, <2>11, <2>12, <2>13, <2>14, <2>15, <2>16,
       <2>17, <2>18,
       Zenon DEF WorkerStep
<1>12. ASSUME ExpiryStep PROVE JobsStay
  BY <1>12 DEF ExpiryStep, ExpiryFetch, ExpiryNext, ExpiryCleanup,
       ExpiryMark, ExpiryInactive
<1>13. ASSUME WorkerCrash PROVE JobsStay
  BY <1>13 DEF WorkerCrash, JobEnds, Restart
<1>14. CASE UNCHANGED vars
  BY <1>14 DEF vars
<1>15. ASSUME NEW r \in Request, CreateRow(r) \/ PushRow(r)
      PROVE  RowCreated(r)
  BY <1>15, RequestFields DEF CreateRow, PushRow, RowCreated
<1>16. QED
  BY <1>2, <1>3, <1>4, <1>5, <1>6, <1>7, <1>8, <1>9,
     <1>10, <1>11, <1>12, <1>13, <1>14, <1>15,
     Zenon DEF Next, HandlerStep

JobTypeInv == TypeInv /\ JobInv

LEMMA InitJobInv == Init => JobInv
BY EmptySeq DEF Init, JobInv, NoRequest

\* A new row's job is pushed by the handler that created the row, and is
\* nowhere else.
LEMMA NewRowJobInv ==
  ASSUME JobTypeInv, NEW r \in Request, RowCreated(r)
  PROVE  JobInv'
<1> USE DEF JobTypeInv
<1> PICK prev \in Dep \cup {NoDep} : NewRow(r, prev)
  BY DEF RowCreated
<1>1. /\ created \in Nat /\ created' = created + 1 /\ Row' = Row \cup {created + 1}
      /\ created + 1 \notin Row
  BY DEF NewRow, Row, TypeInv, TypeOK
<1>2. /\ UNCHANGED <<queue, popped, wpc, wjob>>
      /\ \A q \in Request \ {r} : req'[q] = req[q]
      /\ req'[r].pc = "enqueue" /\ req'[r].dep = created + 1
  BY DEF NewRow, Goto, TypeInv, TypeOK, workerVars, ghostVars
<1>3. QED BY <1>1, <1>2 DEF JobInv, RowCreated

LEMMA EnqueueJobInv ==
  ASSUME JobTypeInv, NEW r \in Request, Enqueue(r)
  PROVE  JobInv'
<1> USE DEF JobTypeInv
<1> DEFINE d == req[r].dep
<1>1. d \in Row \ popped /\ \A i \in DOMAIN queue : queue[i] # d
  BY DEF Enqueue, JobInv
<1>2. queue \in Seq(Dep) /\ d \in Dep
  BY RequestFields DEF Enqueue, NeedsRow, TypeInv, TypeOK
<1>3. /\ DOMAIN queue = 1 .. Len(queue) /\ Len(queue) \in Nat
      /\ DOMAIN queue' = 1 .. Len(queue) + 1
      /\ \A i \in 1 .. Len(queue) : queue'[i] = queue[i]
      /\ queue'[Len(queue) + 1] = d
  BY <1>2, AppendProperties, LenProperties DEF Enqueue
<1>4. /\ UNCHANGED <<created, popped, wpc, wjob>> /\ UNCHANGED Row
      /\ \A q \in Request \ {r} : req'[q] = req[q]
      /\ req'[r].pc # "enqueue"
  BY DEF Enqueue, NoRequest, Row, TypeInv, TypeOK, dbVars, workerVars, ghostVars
<1> HIDE DEF d
<1>5. \A q \in Request \ {r} : req[q].pc = "enqueue" => req[q].dep # d
  BY DEF JobInv, Enqueue, d
<1>6. \A i \in DOMAIN queue' : queue'[i] \in Row \ popped
  BY <1>1, <1>3 DEF JobInv
<1>7. \A i, j \in DOMAIN queue' : queue'[i] = queue'[j] => i = j
  BY <1>1, <1>3 DEF JobInv
<1>8. QED BY <1>1, <1>3, <1>4, <1>5, <1>6, <1>7 DEF JobInv

LEMMA WaitForJobInv ==
  ASSUME JobTypeInv, WaitForJob
  PROVE  JobInv' /\ wjob' \notin popped
<1> USE DEF JobTypeInv
<1> DEFINE d == NextJob(queue)
<1>1. /\ queue \in Seq(Dep) /\ queue # <<>> /\ queue' = Remaining(queue)
      /\ wjob' = d /\ popped' = popped \cup {d}
      /\ UNCHANGED <<created, req>> /\ UNCHANGED Row
  BY DEF WaitForJob, TypeInv, TypeOK, Row, dbVars, apiVars
<1>2. /\ DOMAIN queue = 1 .. Len(queue) /\ Len(queue) \in Nat
      /\ Len(queue) \in DOMAIN queue /\ queue[Len(queue)] = d
      /\ DOMAIN queue' = 1 .. Len(queue) - 1
      /\ \A i \in DOMAIN queue' : i \in DOMAIN queue /\ i # Len(queue)
                                    /\ queue'[i] = queue[i]
  BY <1>1, RemainingProperties, LenProperties
<1> HIDE DEF d
<1>3. d \in Row \ popped
  BY <1>2 DEF JobInv
<1>4. \A i \in DOMAIN queue' : queue'[i] # d /\ queue'[i] \in Row \ popped
  BY <1>2 DEF JobInv
<1>5. \A i, j \in DOMAIN queue' : queue'[i] = queue'[j] => i = j
  BY <1>2 DEF JobInv
<1>6. \A r \in Request : req[r].pc = "enqueue" =>
        /\ req[r].dep # d
        /\ \A i \in DOMAIN queue' : queue'[i] # req[r].dep
  BY <1>2 DEF JobInv
<1>7. QED BY <1>1, <1>3, <1>4, <1>5, <1>6 DEF JobInv

\* Nobody gains a job in the other steps.
LEMMA OtherJobInv ==
  ASSUME JobTypeInv,
         (\E r \in Request : RequestDies(r)) \/ JobEnds \/ JobsStay
  PROVE  JobInv'
<1> USE DEF JobTypeInv
<1>1. ASSUME NEW r \in Request, RequestDies(r) PROVE JobInv'
  <2>1. /\ UNCHANGED <<created, queue, popped, wpc, wjob>> /\ UNCHANGED Row
        /\ \A q \in Request \ {r} : req'[q] = req[q]
        /\ req'[r].pc # "enqueue"
    BY <1>1 DEF RequestDies, NoRequest, Row, TypeInv, TypeOK, dbVars,
                workerVars
  <2>2. QED BY <2>1 DEF JobInv
<1>2. CASE JobEnds
  BY <1>2 DEF JobEnds, Release, JobInv, Row
<1>3. CASE JobsStay
  BY <1>3 DEF JobsStay, JobInv, Row
<1>4. QED BY <1>1, <1>2, <1>3

\* Every row's job is in one place, for every interleaving and every fault.
THEOREM JobInvariant == Spec => [](TypeInv /\ JobInv)
<1>1. Init => JobTypeInv
  BY InitTypeInv, InitJobInv DEF JobTypeInv
<1>2. JobTypeInv /\ [Next]_vars => JobTypeInv'
  BY NextTypeInv, NextCases, NewRowJobInv, EnqueueJobInv, WaitForJobInv,
     OtherJobInv DEF JobTypeInv
<1>3. QED BY <1>1, <1>2, PTL DEF Spec, JobTypeInv

\* One step takes no job that was taken before.
LEMMA NextTakenOnce ==
  ASSUME JobTypeInv, TypeInv', [Next]_vars,
         NEW d \in Dep, wjob' = d, wjob # d
  PROVE  d \notin popped
<1>1. wpc' # "idle"
  BY DEF TypeInv, Shape, Dep, NoDep
<1>2. CASE WaitForJob
  BY <1>2, WaitForJobInv
<1>3. CASE JobEnds
  BY <1>1, <1>3 DEF JobEnds, Release
<1>4. CASE JobsStay
  BY <1>4 DEF JobsStay
<1>5. ASSUME NEW r \in Request, RowCreated(r) \/ Enqueue(r) \/ RequestDies(r)
      PROVE  UNCHANGED wjob
  BY <1>5 DEF RowCreated, NewRow, Enqueue, RequestDies, workerVars
<1>6. QED BY <1>2, <1>3, <1>4, <1>5, NextCases DEF JobTypeInv

\* The worker never takes a deployment's job twice, whatever the number of
\* handlers, the order of their pushes and the faults.
THEOREM JobsTakenOnce == Spec => TakenOnce
<1>1. JobTypeInv /\ TypeInv' /\ [Next]_vars =>
        [\A d \in Dep : (wjob' = d /\ wjob # d) => d \notin popped]_vars
  BY NextTakenOnce
<1>2. Spec => [](TypeInv /\ JobInv)
  BY JobInvariant
<1>3. QED BY <1>1, <1>2, PTL DEF Spec, TakenOnce, JobTypeInv

-----------------------------------------------------------------------------
(* The pipeline implements DeploymentLifecycle *)

\* When two steps of a proof agree on what phaseOf reads, phaseOf agrees.
LEMMA SamePhase ==
  ASSUME created' = created,
         \A d \in Dep : (Running(d)' <=> Running(d)) /\ (Owned(d)' <=> Owned(d))
  PROVE  UNCHANGED phaseOf
BY DEF phaseOf

\* Only the phase of one job changes.
LEMMA PhaseChange ==
  ASSUME NEW c \in Dep, NEW v, phaseOf'[c] = v,
         \A d \in Dep \ {c} : phaseOf'[d] = phaseOf[d]
  PROVE  phaseOf' = [phaseOf EXCEPT ![c] = v]
BY DEF phaseOf

\* The job in the worker's hands is neither queued nor about to be pushed.
LEMMA RunningIsTaken ==
  ASSUME JobTypeInv, NEW d, Running(d)
  PROVE  d \in popped /\ d \in Row /\ ~ Queued(d)
           /\ \A r \in Request : ~ Pushing(r, d)
BY DEF JobTypeInv, JobInv, Running, Queued, Pushing

LEMMA SubmitStep ==
  ASSUME JobTypeInv, JobTypeInv', NEW r \in Request, RowCreated(r)
  PROVE  Lifecycle!Next
<1> PICK prev \in Dep \cup {NoDep} : NewRow(r, prev)
  BY DEF RowCreated
<1> PICK c : c = created + 1
  OBVIOUS
<1>1. /\ c \in Dep /\ created \in Nat /\ created' = c
      /\ UNCHANGED <<queue, popped, wpc, wjob>>
      /\ \A q \in Request \ {r} : req'[q] = req[q]
      /\ req'[r].pc = "enqueue" /\ req'[r].dep = c /\ req[r].pc # "enqueue"
  BY NewRowType DEF NewRow, Goto, JobTypeInv, TypeInv, TypeOK, workerVars, ghostVars,
     RowCreated
<1>2. \A d \in Dep : Running(d)' <=> Running(d)
  BY <1>1 DEF Running
<1>3. \A d \in Dep \ {c} : Owned(d)' <=> Owned(d)
  BY <1>1, <1>2 DEF Owned, Pushing, Queued
<1>4. c \notin Row /\ created < c /\ ~ (created' < c)
  BY <1>1 DEF Row
<1>5. ~ Running(c)' /\ Owned(c)'
  <2>1. ~ Running(c)
    BY <1>4, RunningIsTaken
  <2>2. Pushing(r, c)'
    BY <1>1 DEF Pushing
  <2>3. QED BY <1>1, <1>2, <2>1, <2>2 DEF Owned
<1>6. phaseOf[c] = "absent" /\ phaseOf'[c] = "waiting"
  <2>1. phaseOf[c] = "absent"
    BY <1>1, <1>4 DEF phaseOf
  <2>2. phaseOf'[c] = "waiting"
    BY <1>1, <1>4, <1>5 DEF phaseOf
  <2>3. QED BY <2>1, <2>2
<1>7. \A d \in Dep \ {c} : phaseOf'[d] = phaseOf[d]
  <2>1. \A d \in Dep \ {c} : d > created' <=> d > created
    BY <1>1 DEF Dep
  <2>2. QED BY <1>2, <1>3, <2>1 DEF phaseOf
<1>8. Lifecycle!Submit(c)
  BY <1>1, <1>6, <1>7, PhaseChange DEF Lifecycle!Submit
<1>9. QED BY <1>1, <1>8 DEF Lifecycle!Next, Lifecycle!Dep, Dep

LEMMA EnqueueStep ==
  ASSUME JobTypeInv, NEW r \in Request, Enqueue(r)
  PROVE  UNCHANGED phaseOf
<1> PICK c : c = req[r].dep
  OBVIOUS
<1>1. /\ queue \in Seq(Dep) /\ c \in Dep
  BY RequestFields DEF Enqueue, NeedsRow, JobTypeInv, TypeInv, TypeOK
<1>2. /\ DOMAIN queue = 1 .. Len(queue) /\ Len(queue) \in Nat
      /\ DOMAIN queue' = 1 .. Len(queue) + 1
      /\ \A i \in 1 .. Len(queue) : queue'[i] = queue[i]
      /\ queue'[Len(queue) + 1] = c
  BY <1>1, AppendProperties, LenProperties DEF Enqueue
<1>3. /\ UNCHANGED <<created, wpc, wjob>>
      /\ \A q \in Request \ {r} : req'[q] = req[q]
      /\ req[r].pc = "enqueue" /\ req'[r].pc # "enqueue"
  BY DEF Enqueue, NoRequest, JobTypeInv, TypeInv, TypeOK, dbVars, workerVars
<1>4. Pushing(r, c)
  BY <1>3 DEF Pushing
<1>5. \A d \in Dep : \A q \in Request :
        /\ Pushing(q, d) => d = c \/ Pushing(q, d)'
        /\ Pushing(q, d)' => Pushing(q, d)
  BY <1>3 DEF Pushing
<1>6. \A d \in Dep : Queued(d)' <=> Queued(d) \/ d = c
  BY <1>2 DEF Queued
<1>7. \A d \in Dep : Running(d)' <=> Running(d)
  BY <1>3 DEF Running
<1>8. \A d \in Dep : Owned(d)' <=> Owned(d)
  BY <1>4, <1>5, <1>6, <1>7 DEF Owned
<1>9. QED BY <1>3, <1>7, <1>8, SamePhase

LEMMA DropStep ==
  ASSUME JobTypeInv, NEW r \in Request, RequestDies(r)
  PROVE  Lifecycle!Next \/ UNCHANGED phaseOf
<1> PICK c : c = req[r].dep
  OBVIOUS
<1>1. /\ UNCHANGED <<created, queue, popped, wpc, wjob>>
      /\ \A q \in Request \ {r} : req'[q] = req[q]
      /\ req'[r].pc # "enqueue"
  BY DEF RequestDies, NoRequest, JobTypeInv, TypeInv, TypeOK, dbVars,
         workerVars
<1>2. \A d \in Dep : /\ Running(d)' <=> Running(d)
                     /\ Queued(d)' <=> Queued(d)
  BY <1>1 DEF Running, Queued
<1>3. CASE req[r].pc # "enqueue"
  <2>1. \A d \in Dep : \A q \in Request : Pushing(q, d)' <=> Pushing(q, d)
    BY <1>1, <1>3 DEF Pushing
  <2>2. \A d \in Dep : Owned(d)' <=> Owned(d)
    BY <1>2, <2>1 DEF Owned
  <2>3. QED BY <1>1, <1>2, <2>2, SamePhase
<1>4. CASE req[r].pc = "enqueue"
  <2>1. /\ c \in Dep /\ c \in Row \ popped /\ ~ Queued(c)
        /\ \A q \in Request \ {r} : ~ Pushing(q, c)
    BY <1>4, RequestFields
       DEF JobTypeInv, JobInv, NeedsRow, Queued, Pushing
  <2>2. ~ Running(c) /\ Owned(c) /\ ~ Owned(c)'
    <3>1. ~ Running(c)
      BY <2>1, RunningIsTaken
    <3>2. Pushing(r, c) /\ \A q \in Request : ~ Pushing(q, c)'
      BY <1>1, <1>4, <2>1 DEF Pushing
    <3>3. QED BY <1>2, <2>1, <3>1, <3>2 DEF Owned
  <2>3. \A d \in Dep \ {c} : \A q \in Request : Pushing(q, d)' <=> Pushing(q, d)
    BY <1>1, <1>4 DEF Pushing
  <2>4. \A d \in Dep \ {c} : Owned(d)' <=> Owned(d)
    BY <1>2, <2>3 DEF Owned
  <2>5. phaseOf[c] = "waiting" /\ phaseOf'[c] = "over"
    <3>1. ~ (c > created) /\ ~ (c > created')
      BY <1>1, <2>1 DEF Row, JobTypeInv, TypeInv, TypeOK
    <3>2. QED BY <1>2, <2>1, <2>2, <3>1 DEF phaseOf
  <2>6. \A d \in Dep \ {c} : phaseOf'[d] = phaseOf[d]
    BY <1>1, <1>2, <2>4 DEF phaseOf
  <2>7. Lifecycle!Drop(c)
    BY <2>1, <2>5, <2>6, PhaseChange DEF Lifecycle!Drop
  <2>8. QED BY <2>1, <2>7 DEF Lifecycle!Next, Lifecycle!Dep, Dep
<1>5. QED BY <1>3, <1>4

LEMMA StartStep ==
  ASSUME JobTypeInv, JobTypeInv', WaitForJob
  PROVE  Lifecycle!Next
<1> PICK c : c = NextJob(queue)
  OBVIOUS
<1>1. /\ queue \in Seq(Dep) /\ queue # <<>> /\ queue' = Remaining(queue)
      /\ wpc = "idle" /\ wjob' = c /\ wpc' # "idle"
      /\ UNCHANGED <<created, req>>
  BY DEF WaitForJob, JobTypeInv, TypeInv, TypeOK, dbVars, apiVars
<1>2. /\ DOMAIN queue = 1 .. Len(queue) /\ Len(queue) \in Nat
      /\ Len(queue) \in DOMAIN queue /\ queue[Len(queue)] = c /\ c \in Dep
      /\ DOMAIN queue' = 1 .. Len(queue) - 1
      /\ \A i \in DOMAIN queue' : queue'[i] = queue[i]
  BY <1>1, RemainingProperties, LenProperties
<1>3. Queued(c) /\ c \in Row
  BY <1>2 DEF Queued, JobTypeInv, JobInv
<1>4. \A d \in Dep \ {c} : Queued(d)' <=> Queued(d)
  BY <1>2 DEF Queued
<1>5. /\ \A d \in Dep : ~ Running(d)
      /\ \A d \in Dep \ {c} : ~ Running(d)'
      /\ Running(c)'
  BY <1>1 DEF Running
<1>6. \A d \in Dep \ {c} : Owned(d)' <=> Owned(d)
  BY <1>1, <1>4, <1>5 DEF Owned, Pushing
<1>7. phaseOf[c] = "waiting" /\ phaseOf'[c] = "running"
  <2>1. ~ (c > created) /\ ~ (c > created')
    BY <1>1, <1>3 DEF Row, JobTypeInv, TypeInv, TypeOK
  <2>2. ~ Running(c) /\ Owned(c)
    BY <1>2, <1>3, <1>5 DEF Owned
  <2>3. QED BY <1>2, <1>5, <2>1, <2>2 DEF phaseOf
<1>8. \A d \in Dep \ {c} : phaseOf'[d] = phaseOf[d]
  BY <1>1, <1>5, <1>6 DEF phaseOf
<1>9. \A d \in Dep : phaseOf[d] # "running"
  BY <1>5 DEF phaseOf
<1>10. Lifecycle!Start(c)
  BY <1>2, <1>7, <1>8, <1>9, PhaseChange
     DEF Lifecycle!Start, Lifecycle!Dep, Dep
<1>11. QED BY <1>2, <1>10 DEF Lifecycle!Next, Lifecycle!Dep, Dep

LEMMA FinishStep ==
  ASSUME JobTypeInv, JobEnds
  PROVE  Lifecycle!Next \/ UNCHANGED phaseOf
<1> PICK c : c = wjob
  OBVIOUS
<1>1. /\ wpc' = "idle" /\ UNCHANGED <<created, queue, req>>
  BY DEF JobEnds, Release
<1>2. \A d \in Dep : /\ ~ Running(d)'
                     /\ Queued(d)' <=> Queued(d)
                     /\ \A q \in Request : Pushing(q, d)' <=> Pushing(q, d)
  BY <1>1 DEF Running, Queued, Pushing
<1>3. CASE wpc = "idle"
  <2>1. \A d \in Dep : ~ Running(d)
    BY <1>3 DEF Running
  <2>2. \A d \in Dep : Owned(d)' <=> Owned(d)
    BY <1>2, <2>1 DEF Owned
  <2>3. QED BY <1>1, <1>2, <2>1, <2>2, SamePhase
<1>4. CASE wpc # "idle"
  <2>1. c \in Dep /\ Running(c)
    BY <1>4, WorkerJob DEF Running, JobTypeInv
  <2>2. c \in Row /\ ~ Queued(c) /\ \A q \in Request : ~ Pushing(q, c)
    BY <2>1, RunningIsTaken
  <2>3. \A d \in Dep \ {c} : ~ Running(d)
    BY DEF Running
  <2>4. ~ Owned(c)' /\ \A d \in Dep \ {c} : Owned(d)' <=> Owned(d)
    BY <1>2, <2>1, <2>2, <2>3 DEF Owned
  <2>5. phaseOf[c] = "running" /\ phaseOf'[c] = "over"
    <3>1. ~ (c > created) /\ ~ (c > created')
      BY <1>1, <2>2 DEF Row, JobTypeInv, TypeInv, TypeOK
    <3>2. ~ Running(c)'
      BY <1>2, <2>1
    <3>3. QED BY <2>1, <2>4, <3>1, <3>2 DEF phaseOf
  <2>6. \A d \in Dep \ {c} : phaseOf'[d] = phaseOf[d]
    BY <1>1, <1>2, <2>3, <2>4 DEF phaseOf
  <2>7. Lifecycle!Finish(c)
    BY <2>1, <2>5, <2>6, PhaseChange DEF Lifecycle!Finish
  <2>8. QED BY <2>1, <2>7 DEF Lifecycle!Next, Lifecycle!Dep, Dep
<1>5. QED BY <1>3, <1>4

LEMMA StutterStep ==
  ASSUME JobsStay
  PROVE  UNCHANGED phaseOf
<1>1. \A d \in Dep : /\ Running(d)' <=> Running(d)
                     /\ Queued(d)' <=> Queued(d)
                     /\ \A q \in Request : Pushing(q, d)' <=> Pushing(q, d)
  BY DEF JobsStay, Running, Queued, Pushing
<1>2. \A d \in Dep : Owned(d)' <=> Owned(d)
  BY <1>1 DEF Owned
<1>3. QED BY <1>1, <1>2, SamePhase DEF JobsStay

\* Every behaviour of handlers, queue and worker, with every fault, is a
\* behaviour of DeploymentLifecycle under phaseOf: a job is submitted once,
\* started at most once and alone, and is over for good after that.
THEOREM PipelineImplementsLifecycle == Spec => ImplementsLifecycle
<1>1. Init => Lifecycle!Init
  BY DEF Init, Lifecycle!Init, Lifecycle!Dep, phaseOf, Dep
<1>2. JobTypeInv /\ JobTypeInv' /\ [Next]_vars => [Lifecycle!Next]_phaseOf
  BY NextCases, SubmitStep, EnqueueStep, DropStep, StartStep, FinishStep,
     StutterStep DEF JobTypeInv
<1>3. Spec => [](TypeInv /\ JobInv)
  BY JobInvariant
<1>4. QED BY <1>1, <1>2, <1>3, PTL
          DEF Spec, ImplementsLifecycle, Lifecycle!Spec, JobTypeInv

=============================================================================

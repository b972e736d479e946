----------------------------- MODULE LogStreams -----------------------------
(***************************************************************************)
(* The worker follows the pods of a live deployment                        *)
(* (apps/worker/internal/k8s/logs.go): the build loop starts the streams   *)
(* of a deployment once it is READY and stops its predecessor's; the       *)
(* expiry and project-cleanup goroutines stop them before they delete the  *)
(* objects.  They share the map activeStreams.  The deployments 1..N are   *)
(* of one project and are built in this order; a pod is named for the      *)
(* deployment whose image it runs.                                         *)
(***************************************************************************)
EXTENDS Integers

CONSTANTS
  N,           \* bound on the deployments
  MaxRestart   \* bound on containers that end and start again

ASSUME StreamsAssumption == N \in Nat \ {0} /\ MaxRestart \in Nat

Build == 1 .. N  \* the deployments
None == 0

VARIABLES
  spc, sdep,  \* the build loop: "idle", "applied", "ready", "entered"
  applied,    \* the deployment in the Deployment object, None without one
  pod,        \* [Build -> "none", "running", "ended", "gone"]
  entry,      \* the keys of activeStreams
  cancelled,  \* deployments whose context was cancelled
  stream,     \* [Build -> [pod -> where streamPodLogs is]]
  teardown,   \* [who -> deployment whose streams were just stopped]
  ended,      \* history: deployments that were stopped
  started,    \* history: deployments whose context was made
  startedLate,\* history: started after they were stopped
  restarts

podVars == <<applied, pod, restarts>>
mapVars == <<entry, cancelled, ended, started, startedLate>>
streamsVars == <<spc, sdep, podVars, mapVars, stream, teardown>>

Alive == {"check", "open", "retry"}
Who == {"expiry", "removal"}

StreamsTypeOK ==
  /\ spc \in {"idle", "applied", "ready", "entered"}
  /\ {sdep, applied} \subseteq Build \cup {None}
  /\ pod \in [Build -> {"none", "running", "ended", "gone"}]
  /\ entry \subseteq started
  /\ cancelled \subseteq started
  /\ ended \subseteq Build /\ started \subseteq Build
  /\ startedLate \subseteq Build
  /\ stream \in [Build -> [Build -> Alive \cup {"none", "over"}]]
  /\ teardown \in [Who -> Build \cup {None}]
  /\ restarts \in 0 .. MaxRestart

StreamsInit ==
  /\ spc = "idle" /\ sdep = None /\ applied = None
  /\ pod = [d \in Build |-> "none"]
  /\ entry = {} /\ cancelled = {}
  /\ stream = [d \in Build |-> [p \in Build |-> "none"]]
  /\ teardown = [w \in Who |-> None]
  /\ ended = {} /\ started = {} /\ startedLate = {}
  /\ restarts = 0

-----------------------------------------------------------------------------
(* The map. *)

\* Mutant of StopStreaming: the entry goes, the context stays.
ForgetStreaming(d) ==
  /\ entry' = entry \ {d}
  /\ ended' = ended \cup {d}
  /\ UNCHANGED <<cancelled, started, startedLate>>

\* StopStreaming: cancel and delete under the lock.
StopStreaming(d) ==
  /\ cancelled' = IF d \in entry THEN cancelled \cup {d} ELSE cancelled
  /\ entry' = entry \ {d}
  /\ ended' = ended \cup {d}
  /\ UNCHANGED <<started, startedLate>>

-----------------------------------------------------------------------------
(* The build loop. *)

\* The next job has got as far as Deploy.
Apply ==
  /\ spc = "idle" /\ sdep < N
  /\ spc' = "applied" /\ sdep' = sdep + 1 /\ applied' = sdep + 1
  /\ UNCHANGED <<pod, restarts, mapVars, stream, teardown>>

\* READY; the predecessor's streams are stopped.
Retire ==
  /\ spc = "applied"
  /\ spc' = "ready"
  /\ IF sdep > 1 THEN StopStreaming(sdep - 1) ELSE UNCHANGED mapVars
  /\ UNCHANGED <<sdep, podVars, stream, teardown>>

\* A later step of the job fails: its own streams are stopped.
JobFails ==
  /\ spc = "applied"
  /\ spc' = "idle"
  /\ StopStreaming(sdep)
  /\ UNCHANGED <<sdep, podVars, stream, teardown>>

\* StartStreaming up to the unlock.
EnterStream ==
  /\ spc = "ready"
  /\ spc' = "entered"
  /\ entry' = entry \cup {sdep}
  /\ started' = started \cup {sdep}
  /\ startedLate' = startedLate \cup ({sdep} \cap ended)
  /\ UNCHANGED <<sdep, podVars, cancelled, ended, stream, teardown>>

Present == {p \in Build : pod[p] \in {"running", "ended"}}

\* The pods of the app are listed: one goroutine each, whatever became of
\* the context meanwhile.
ListPods ==
  /\ spc = "entered"
  /\ Present # {}
  /\ spc' = "idle"
  /\ stream' = [stream EXCEPT ![sdep] =
                  [p \in Build |-> IF p \in Present THEN "check" ELSE @[p]]]
  /\ UNCHANGED <<sdep, podVars, mapVars, teardown>>

\* No pods, or the call fails: the context is cancelled, the entry stays.
ListFails ==
  /\ spc = "entered"
  /\ spc' = "idle"
  /\ cancelled' = cancelled \cup {sdep}
  /\ UNCHANGED <<sdep, podVars, entry, ended, started, startedLate, stream,
                 teardown>>

-----------------------------------------------------------------------------
(* streamPodLogs, and the cluster. *)

Goto(d, p, pc) == stream' = [stream EXCEPT ![d][p] = pc]

Rest == <<spc, sdep, podVars, mapVars, teardown>>

\* The context is looked at first in every round, and after a stream ends.
Notice(d, p) ==
  /\ stream[d][p] \in Alive
  /\ d \in cancelled
  /\ Goto(d, p, "over")
  /\ UNCHANGED Rest

Open(d, p) ==
  /\ stream[d][p] = "check" /\ d \notin cancelled
  /\ Goto(d, p, IF p \in Present THEN "open" ELSE "retry")
  /\ UNCHANGED Rest

\* The container ended: the stream ends without an error and is opened again
\* at once.  The pod is gone: an error, and five seconds' pause.
Disconnect(d, p) ==
  /\ stream[d][p] = "open" /\ pod[p] # "running"
  /\ Goto(d, p, IF pod[p] = "ended" THEN "check" ELSE "retry")
  /\ UNCHANGED Rest

Retry(d, p) ==
  /\ stream[d][p] = "retry" /\ d \notin cancelled
  /\ Goto(d, p, "check")
  /\ UNCHANGED Rest

\* The rollout: the pod of the template starts, and then the others go.
PodStarts(p) ==
  /\ applied = p /\ pod[p] \in {"none", "ended"}
  /\ pod[p] = "ended" => restarts < MaxRestart
  /\ restarts' = IF pod[p] = "ended" THEN restarts + 1 ELSE restarts
  /\ pod' = [pod EXCEPT ![p] = "running"]
  /\ UNCHANGED <<spc, sdep, applied, mapVars, stream, teardown>>

PodEnds(p) ==
  /\ pod[p] = "running" /\ restarts < MaxRestart
  /\ pod' = [pod EXCEPT ![p] = "ended"]
  /\ UNCHANGED <<spc, sdep, applied, restarts, mapVars, stream, teardown>>

PodGoes(p) ==
  /\ p \in Present
  /\ applied # p
  /\ applied # None => pod[applied] = "running"
  /\ pod' = [pod EXCEPT ![p] = "gone"]
  /\ UNCHANGED <<spc, sdep, applied, restarts, mapVars, stream, teardown>>

-----------------------------------------------------------------------------
(* The other goroutines. *)

\* A deployment that was READY when their list was made: its streams are
\* stopped, then the objects of the project are deleted.
StopFor(w, d) ==
  /\ teardown[w] = None
  /\ d < sdep \/ (d = sdep /\ spc # "applied")
  /\ teardown' = [teardown EXCEPT ![w] = d]
  /\ StopStreaming(d)
  /\ UNCHANGED <<spc, sdep, podVars, stream>>

CleanupAfter(w) ==
  /\ teardown[w] # None
  /\ teardown' = [teardown EXCEPT ![w] = None]
  /\ applied' = None
  /\ UNCHANGED <<spc, sdep, pod, restarts, mapVars, stream>>

\* Mutant of StopAll: the map is made anew, nothing is cancelled.
NewMap ==
  /\ spc = "idle" /\ sdep = N /\ entry # {}
  /\ entry' = {}
  /\ UNCHANGED <<spc, sdep, podVars, cancelled, ended, started, startedLate,
                 stream, teardown>>

\* shutdown, after the build loop.
StopAll ==
  /\ spc = "idle" /\ sdep = N /\ entry # {}
  /\ cancelled' = cancelled \cup entry
  /\ entry' = {}
  /\ ended' = ended \cup entry
  /\ UNCHANGED <<spc, sdep, podVars, started, startedLate, stream, teardown>>

StreamStep(d, p) ==
  Notice(d, p) \/ Open(d, p) \/ Disconnect(d, p) \/ Retry(d, p)

StreamsNext ==
  \/ Apply \/ Retire \/ JobFails \/ EnterStream \/ ListPods \/ ListFails
  \/ \E d, p \in Build : StreamStep(d, p)
  \/ \E p \in Build : PodStarts(p) \/ PodEnds(p) \/ PodGoes(p)
  \/ \E w \in Who : CleanupAfter(w) \/ \E d \in Build : StopFor(w, d)
  \/ StopAll

StreamsSpec == StreamsInit /\ [][StreamsNext]_streamsVars

-----------------------------------------------------------------------------
(* Properties. *)

Running(d) == \E p \in Build : stream[d][p] \in Alive

\* A stream that was not told to end can still be told: its key is in the
\* map, whoever has stopped or started what in between (logs.go:36-77,
\* 175-201).
StreamsReachable ==
  \A d \in Build : Running(d) /\ d \notin cancelled => d \in entry

\* A deployment that was superseded, expired or removed is followed no
\* longer, unless the build loop made its context after the others had
\* stopped it (worker.go:456-485, cleanup.go:122, project_cleanup.go:102).
EndedIsSilent ==
  \A d \in ended \ startedLate :
    Running(d) \/ (spc = "entered" /\ sdep = d) => d \in cancelled
=============================================================================

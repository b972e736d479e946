------------------------- MODULE DeploymentLifecycle -------------------------
(***************************************************************************)
(* What the pipeline promises about one deployment's job, whatever the     *)
(* handlers, the queue and the worker do: it is submitted once, it is      *)
(* started at most once, at most one job runs at a time, and a job that is *)
(* over is never started again.  DeployPipeline implements this module.    *)
(***************************************************************************)
EXTENDS Integers

CONSTANT MaxDep

Dep == 1 .. MaxDep

VARIABLE phase   \* phase[d]: where the job of deployment d is

Phase == {"absent", "waiting", "running", "over"}

Init == phase = [d \in Dep |-> "absent"]

\* A deployment is recorded: its job is to be run.
Submit(d) ==
  /\ phase[d] = "absent"
  /\ phase' = [phase EXCEPT ![d] = "waiting"]

\* The worker takes a waiting job while it runs no other.
Start(d) ==
  /\ phase[d] = "waiting"
  /\ \A e \in Dep : phase[e] # "running"
  /\ phase' = [phase EXCEPT ![d] = "running"]

Finish(d) ==
  /\ phase[d] = "running"
  /\ phase' = [phase EXCEPT ![d] = "over"]

\* The job is lost before the worker has seen it.
Drop(d) ==
  /\ phase[d] = "waiting"
  /\ phase' = [phase EXCEPT ![d] = "over"]

Next == \E d \in Dep : Submit(d) \/ Start(d) \/ Finish(d) \/ Drop(d)

Spec == Init /\ [][Next]_phase

\* Every job submitted is over some day, for good.
EveryJobEnds == \A d \in Dep : (phase[d] = "waiting") ~> [](phase[d] = "over")

=============================================================================

--------------------------- MODULE PipelineClaims ---------------------------
(***************************************************************************)
(* What comments and pages of the repository say of the deployment         *)
(* pipeline and the code does not do.  Each property quotes the line it    *)
(* restates; TLC finds a behaviour of DeployPipeline against it.           *)
(***************************************************************************)
EXTENDS DeployPipeline

\* webhooks.service.ts:224-225: "the Go worker checks cancel signals at each
\* build phase boundary and aborts": a deployment recorded as cancelled would
\* not become live.  There is no check after the one before DEPLOYING.
CanceledNeverLive ==
  [][\A d \in Dep : status[d] = "CANCELED" => status'[d] # "READY"]_vars

\* webhooks.service.ts:63: "READY (live) -> Rolling update (zero downtime)":
\* pushes alone would never take the running workload away.
ZeroDowntime ==
  [][\A p \in Project : cluster[p] # NoDep => cluster'[p] # NoDep]_vars

\* git.service.ts:328: the sha "HEAD" is a "Fallback to avoid breaking the
\* flow": the deployment would still come to an end.
FallbackSettles == \A d \in Dep : <>[](d \in Row => status[d] \in Settled)

\* analytics.service.ts:79-91 and 217-227: of the rows that started in the
\* last thirty days (those from some row on) a successful one counts above the
\* line whatever its status, below it only when READY, EXPIRED or FAILED.
successRate(S) ==
  LET totalCompleted == Cardinality({d \in S : status[d] \in {"READY", "EXPIRED", "FAILED"}})
      successCount == Cardinality(S \cap isSuccess)
  IN  IF totalCompleted = 0 THEN 100
      ELSE (200 * successCount + totalCompleted) \div (2 * totalCompleted)

\* types/analytics.ts:41: "successRate: number; // 0-100", of one project and
\* of all the projects of a user, whichever rows the thirty days hold.
SuccessRateIsPercentage ==
  \A first \in Dep :
    /\ successRate({d \in Row : d >= first}) \in 0 .. 100
    /\ \A p \in Project :
         successRate({d \in Row : d >= first /\ project[d] = p}) \in 0 .. 100

=============================================================================

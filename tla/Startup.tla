------------------------------ MODULE Startup -------------------------------
(***************************************************************************)
(* How the API and the worker come up.  The API connects to the database   *)
(* before it listens, and its readiness, which asks the database and       *)
(* Redis, decides whether its Service has an endpoint.  The worker exits   *)
(* unless Redis answers its PING and the API its health check, which       *)
(* reports more than it requires.  Kubernetes restarts what exits.         *)
(***************************************************************************)
EXTENDS Integers

CONSTANTS
  Installed,  \* the tools in the worker's image
  Threshold,  \* failures in a row after which a probe counts as failed
  MaxKill     \* bound on the processes killed

Dependency == {"database", "redis", "memory"}

ASSUME StartupAssumption ==
  /\ "git" \in Installed /\ Threshold \in Nat \ {0} /\ MaxKill \in Nat

VARIABLES
  healthy,  \* the dependencies whose check passes
  server,   \* the API: its phase, failed probes in a row, its endpoint
  agent,    \* the worker's phase
  kills

startupVars == <<healthy, server, agent, kills>>

ServerOff == [pc |-> "off", misses |-> 0, ready |-> FALSE]

StartupInit ==
  /\ healthy \in SUBSET Dependency
  /\ server = ServerOff /\ agent = "off" /\ kills = 0

-----------------------------------------------------------------------------
(* The checks of HealthService. *)

IsDatabaseHealthy == "database" \in healthy
IsRedisHealthy == "redis" \in healthy

\* checkReadiness, of /health/ready and of /health/startup.
CheckReadiness == IsDatabaseHealthy /\ IsRedisHealthy

CriticalServices == {"database"}

\* Mutant of GetFullHealth: every check is critical.
GetWorstHealth == IF healthy = Dependency THEN "healthy" ELSE "unhealthy"

\* getFullHealth: what is down degrades it, the database makes it unhealthy.
GetFullHealth ==
  CASE healthy = Dependency -> "healthy"
    [] CriticalServices \subseteq healthy -> "degraded"
    [] OTHER -> "unhealthy"

\* /health: only an unhealthy API answers with an error.
Health == GetFullHealth # "unhealthy"

-----------------------------------------------------------------------------
(* The API, under the probes of its container. *)

ServerTurns(s) == server' = s /\ UNCHANGED <<healthy, agent, kills>>

Restarted == server.pc = "off" /\ ServerTurns([server EXCEPT !.pc = "booting"])

\* PrismaService.onModuleInit: bootstrap rejects when $connect does.
Bootstrap ==
  /\ server.pc = "booting"
  /\ ServerTurns(IF IsDatabaseHealthy
                   THEN [server EXCEPT !.pc = "listening"] ELSE ServerOff)

StartupProbe ==
  /\ server.pc = "listening"
  /\ ServerTurns(
       CASE CheckReadiness -> [ServerOff EXCEPT !.pc = "started"]
         [] ~ CheckReadiness /\ server.misses + 1 < Threshold ->
              [server EXCEPT !.misses = @ + 1]
         [] OTHER -> ServerOff)

ReadinessProbe ==
  /\ server.pc = "started"
  /\ ServerTurns(
       IF CheckReadiness THEN [server EXCEPT !.ready = TRUE, !.misses = 0]
       ELSE [server EXCEPT !.misses = IF @ < Threshold THEN @ + 1 ELSE @,
                           !.ready = @ /\ server.misses + 1 < Threshold])

-----------------------------------------------------------------------------
(* The worker: main and worker.New. *)

AgentTurns(pc) == agent' = pc /\ UNCHANGED <<healthy, server, kills>>

\* Loads the configuration and verifies git; a missing railpack is ignored.
LoadAndVerify ==
  /\ agent = "off"
  /\ AgentTurns(IF "git" \in Installed THEN "verified" ELSE "off")

\* queue.New pings Redis.
NewQueue ==
  /\ agent = "verified"
  /\ AgentTurns(IF "redis" \in healthy THEN "queued" ELSE "off")

\* The health check goes to the Service, which needs a ready endpoint.
HealthCheck ==
  /\ agent = "queued"
  /\ AgentTurns(IF server.ready /\ Health THEN "checked" ELSE "off")

\* k8s.NewClient only builds its clients; Start then waits for jobs, and goes
\* on when Redis fails.
NewClientAndStart == agent = "checked" /\ AgentTurns("running")

-----------------------------------------------------------------------------
(* The surroundings. *)

DependencyTurns(d) ==
  /\ healthy' = (healthy \ {d}) \cup ({d} \ healthy)
  /\ UNCHANGED <<server, agent, kills>>

ServerKilled ==
  /\ server.pc # "off" /\ kills < MaxKill
  /\ kills' = kills + 1 /\ server' = ServerOff
  /\ UNCHANGED <<healthy, agent>>

AgentKilled ==
  /\ agent # "off" /\ kills < MaxKill
  /\ kills' = kills + 1 /\ agent' = "off"
  /\ UNCHANGED <<healthy, server>>

ServerStep == Restarted \/ Bootstrap \/ StartupProbe \/ ReadinessProbe
AgentStep == LoadAndVerify \/ NewQueue \/ HealthCheck \/ NewClientAndStart

StartupNext ==
  \/ ServerStep \/ AgentStep
  \/ \E d \in Dependency : DependencyTurns(d)
  \/ ServerKilled \/ AgentKilled

\* Kubernetes restarts the containers and runs the probes.
StartupSpec ==
  /\ StartupInit /\ [][StartupNext]_startupVars
  /\ WF_startupVars(ServerStep) /\ WF_startupVars(AgentStep)

-----------------------------------------------------------------------------
(* Properties. *)

\* Once the database and Redis stay up, the API serves and the worker runs for
\* good, in whatever order they were started or restarted and whatever the
\* memory check says (health.service.ts:96-128, worker.go:53-72).
PlatformComesUp ==
  <>[](IsDatabaseHealthy /\ IsRedisHealthy)
    => <>[](server.ready /\ agent = "running")

StartupTypeOK ==
  /\ healthy \subseteq Dependency
  /\ server.pc \in {"off", "booting", "listening", "started"}
  /\ server.misses \in 0 .. Threshold /\ server.ready \in BOOLEAN
  /\ agent \in {"off", "verified", "queued", "checked", "running"}
  /\ kills \in 0 .. MaxKill
=============================================================================

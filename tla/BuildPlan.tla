----------------------------- MODULE BuildPlan ------------------------------
(***************************************************************************)
(* From a repository's files to a port that answers: the framework that is *)
(* detected, the output directory and the start command that follow from   *)
(* it in three tables of three components, and the port, which the image,  *)
(* the environment of the pods and the Service must agree on while the     *)
(* user changes PORT, builds push over the same tag and Deploy is stopped  *)
(* half-way.                                                               *)
(***************************************************************************)
EXTENDS Integers, Sequences, SequencesExt

CONSTANTS
  Files,      \* the contents a directory may have, see FilesAssumption
  PortValue,  \* values the user gives a variable that names a port
  MaxPlan     \* bound on the deployments

Unset == 0
NoDir == ""

ASSUME FilesAssumption ==
  \A f \in Files : /\ f.package \in {"absent", "broken", "parsed"}
                   /\ f.requirements \in BOOLEAN
                   /\ f.names \subseteq STRING
ASSUME PlanAssumption == PortValue \subseteq Nat \ {Unset} /\ MaxPlan \in Nat

-----------------------------------------------------------------------------
(* The three tables. *)

Entry(name, framework, output) ==
  [name |-> name, framework |-> framework, output |-> output]

\* nodeFrameworks: the first dependency that is found decides.
NodeFrameworks == <<
  Entry("next", "nextjs", ".next"), Entry("@nestjs/core", "nestjs", "dist"),
  Entry("nuxt", "nuxt", ".output/public"), Entry("express", "express", "."),
  Entry("fastify", "fastify", "."), Entry("vite", "vite", "dist"),
  Entry("@angular/core", "angular", "dist"),
  Entry("react-scripts", "create-react-app", "build"),
  Entry("vue", "vue", "dist"), Entry("@sveltejs/kit", "sveltekit", "build"),
  Entry("astro", "astro", "dist"), Entry("gatsby", "gatsby", "public"),
  Entry("koa", "node-server", ".") >>

PythonFrameworks == <<
  Entry("django", "django", "staticfiles"), Entry("fastapi", "fastapi", "."),
  Entry("flask", "flask", "."), Entry("streamlit", "streamlit", ".") >>

FirstOf(table, names, otherwise) ==
  LET i == SelectInSeq(table, LAMBDA e : e.name \in names)
  IN  IF i = 0 THEN otherwise ELSE table[i]

\* detectFrameworkFromContents: a package.json that does not parse is skipped.
Detect(f) ==
  CASE f.package = "parsed" ->
         FirstOf(NodeFrameworks, f.names, Entry("", "node", "."))
    [] f.package # "parsed" /\ f.requirements ->
         FirstOf(PythonFrameworks, f.names, Entry("", "python", "."))
    [] OTHER -> Entry("", "unknown", NoDir)

Dist == {"vite", "vue", "angular", "astro"}
Build == {"create-react-app", "sveltekit"}
Here == {"express", "fastify", "node", "flask", "fastapi", "streamlit", "python"}

\* FRAMEWORK_PRESETS: the output directories of the dialog.
Preset ==
  [f \in Dist \cup Build \cup Here \cup {"nestjs", "nextjs", "nuxt", "django"} |->
     CASE f \in Dist \cup {"nestjs"} -> "dist"
       [] f \in Build -> "build"
       [] f \in Here -> "."
       [] f = "nextjs" -> ".next"
       [] f = "nuxt" -> ".output/public"
       [] f = "django" -> "staticfiles"]

\* Mutant of ServedBy: one directory for all.
AllServeDist == [f \in Dist \cup Build \cup {"gatsby"} |-> "dist"]

\* FrameworkStartCommand: the directory `serve` is started on.
ServedBy ==
  [f \in Dist \cup Build \cup {"gatsby"} |->
     CASE f \in Dist -> "dist" [] f \in Build -> "build" [] OTHER -> "public"]

\* FrameworkRuntimePortEnv: the frameworks with a variable of their own.
OwnPort == {"nuxt", "flask", "fastapi", "streamlit"}

-----------------------------------------------------------------------------
VARIABLES
  project,   \* framework, output, run command, and the user's variables
  task,      \* the worker's job and its phase
  built,     \* what the tag holds in the registry
  template,  \* of the Kubernetes Deployment
  target,    \* of the Service
  pods,      \* the pods: their environment and where they listen
  plans

planVars == <<project, task, built, template, target, pods, plans>>

\* The variables the user sets: PORT, and the framework's own.
Environments ==
  UNION {[K -> PortValue] : K \in SUBSET {"PORT", "OWN"}}

NoTask == [pc |-> "idle"]
Nowhere == [port |-> Unset, by |-> 0]

\* Imported with what was detected at the repository's root.
PlanInit ==
  /\ \E f \in Files, run \in {"none", "serve"} :
       project = [framework |-> Detect(f).framework,
                  output |-> Detect(f).output,
                  run |-> run, env |-> <<>>, preset |-> TRUE]
  /\ task = NoTask /\ plans = 0
  /\ built = Nowhere /\ template = Nowhere /\ target = Nowhere /\ pods = {}

\* handleRootDirectoryChange and handleFrameworkChange, in the dialog: without
\* a preset, the directory stays.
PickDirectory(f) ==
  LET new == Detect(f).framework
      known == new \in DOMAIN Preset
  IN  /\ plans = 0
      /\ project' = [framework |-> new, preset |-> known, env |-> project.env,
                     output |-> IF known THEN Preset[new] ELSE project.output,
                     run |-> IF known THEN "none" ELSE project.run]
      /\ UNCHANGED <<task, built, template, target, pods, plans>>

SetVariables(env) ==
  /\ project' = [project EXCEPT !.env = env]
  /\ UNCHANGED <<task, built, template, target, pods, plans>>

-----------------------------------------------------------------------------
(* One deployment: processJob and Deploy. *)

ResolvePort(env) ==
  IF "PORT" \in DOMAIN env /\ env["PORT"] <= 65535 THEN env["PORT"] ELSE 3000

FrameworkRuntimePortEnv(framework, port) ==
  [k \in IF framework \in OwnPort THEN {"PORT", "OWN"} ELSE {"PORT"} |-> port]

\* Later maps win.
MergeEnvVars(env, last) ==
  [k \in DOMAIN env \cup DOMAIN last |->
     IF k \in DOMAIN last THEN last[k] ELSE env[k]]

\* Mutant of RuntimeEnv: the user's variables come last.
UserEnvLast(job) ==
  LET port == ResolvePort(job.env)
  IN  [MergeEnvVars(FrameworkRuntimePortEnv(job.framework, port), job.env)
         EXCEPT !["PORT"] = port]

\* What processJob gives Deploy, with PORT set last of all.
RuntimeEnv(job) ==
  LET port == ResolvePort(job.env)
  IN  [MergeEnvVars(job.env, FrameworkRuntimePortEnv(job.framework, port))
         EXCEPT !["PORT"] = port]

TakePlan ==
  /\ task = NoTask /\ plans < MaxPlan
  /\ plans' = plans + 1
  /\ task' = [pc |-> "build", job |-> project]
  /\ UNCHANGED <<project, built, template, target, pods>>

\* FrameworkStartCommand puts the port into the image of a static site, unless
\* the user's command already serves it, on $PORT.
BuildImage ==
  /\ task.pc = "build"
  /\ built' = [framework |-> task.job.framework, by |-> plans,
               port |-> IF task.job.framework \in DOMAIN ServedBy
                           /\ task.job.run # "serve"
                        THEN ResolvePort(task.job.env) ELSE Unset]
  /\ task' = [pc |-> "deploy", job |-> task.job]
  /\ UNCHANGED <<project, template, target, pods, plans>>

CreateOrUpdateDeployment ==
  /\ task.pc = "deploy"
  /\ template' = [env |-> RuntimeEnv(task.job), by |-> plans,
                  port |-> ResolvePort(task.job.env)]
  /\ task' = [pc |-> "service", job |-> task.job]
  /\ UNCHANGED <<project, built, target, pods, plans>>

CreateOrUpdateService ==
  /\ task.pc = "service"
  /\ target' = [port |-> ResolvePort(task.job.env), by |-> plans]
  /\ task' = NoTask
  /\ UNCHANGED <<project, built, template, pods, plans>>

\* A failed call, a cancel or a crash.
TaskEnds ==
  /\ task # NoTask
  /\ task' = NoTask
  /\ UNCHANGED <<project, built, template, target, pods, plans>>

-----------------------------------------------------------------------------
(* The cluster pulls the tag whenever a container starts. *)

\* An application listens where its image or its environment says.
ListensAt(env) ==
  IF built.port # Unset THEN built.port
  ELSE IF "OWN" \in DOMAIN env /\ built.framework \in OwnPort THEN env["OWN"]
  ELSE env["PORT"]

Pod(of) == [of |-> of, at |-> ListensAt(of.env)]

PodComes ==
  /\ template.by > 0
  /\ pods' = pods \cup {Pod(template)}
  /\ UNCHANGED <<project, task, built, template, target, plans>>

PodRestarts(p) ==
  /\ pods' = (pods \ {p}) \cup {Pod(p.of)}
  /\ UNCHANGED <<project, task, built, template, target, plans>>

\* The rolling update: an old pod goes once a new one passes the TCP probe.
PodRetires(p) ==
  /\ p.of # template
  /\ \E q \in pods : q.of = template /\ q.at = template.port
  /\ pods' = pods \ {p}
  /\ UNCHANGED <<project, task, built, template, target, plans>>

PlanNext ==
  \/ \E f \in Files : PickDirectory(f)
  \/ \E env \in Environments : SetVariables(env)
  \/ TakePlan \/ BuildImage
  \/ CreateOrUpdateDeployment \/ CreateOrUpdateService
  \/ TaskEnds \/ PodComes
  \/ \E p \in pods : PodRestarts(p) \/ PodRetires(p)

PlanSpec == PlanInit /\ [][PlanNext]_planVars

-----------------------------------------------------------------------------
(* Properties. *)

\* Unless a later build has pushed over its tag, or Deploy was stopped before
\* its Service, every pod of the newest template listens where the Service
\* sends, whatever the user set PORT or the framework's own variable to
\* (worker.go:360-417, deployment.go:40-49, service.go:43-48).
RoutedPortIsServed ==
  \A p \in pods :
    p.of = template /\ built.by = template.by /\ target.by = template.by
      => p.at = target.port

\* The directory that the worker serves is the one that the detection or the
\* dialog's preset recorded for the project (git.service.ts:187-203,
\* types/git.ts:81-104, env.go:128-148).
ServesItsOutput ==
  project.framework \in DOMAIN ServedBy /\ project.preset
    => project.output = ServedBy[project.framework]

PlanTypeOK ==
  /\ project.run \in {"none", "serve"} /\ project.env \in Environments
  /\ task.pc \in {"idle", "build", "deploy", "service"}
  /\ {built.by, template.by, target.by} \subseteq 0 .. MaxPlan
  /\ \A p \in pods : p.of.by \in 1 .. MaxPlan
  /\ plans \in 0 .. MaxPlan
=============================================================================

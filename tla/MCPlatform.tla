----------------------------- MODULE MCPlatform -----------------------------
(* What the platform runs in the cluster: the objects of projects, under two *)
(* sets of requests; the streams that follow their pods; and the variables   *)
(* their jobs carry, once for the panel that saves them and once for the     *)
(* handlers that read what is saved.  These five parts share no state that   *)
(* is explored in more than one; a behaviour explores one of them.  The      *)
(* panel never reads what a handler writes.  What the handlers see of the    *)
(* panel are its saves: for them it is edited once for a save, right before  *)
(* it, and removal, Undo, discards and revalidation add no case.             *)
EXTENDS ProjectLifecycle, LogStreams, Configuration

VARIABLE part

MCK8sNameOf == [n \in Name |-> IF n = "App" THEN "app" ELSE n]

\* Variable 3 is variable 1 with an empty value; 2 is not for production.
MCKeyOf == [v \in Variable |-> IF v = 3 THEN 1 ELSE v]

\* The names are alike: the project that comes first is called "app".
Canonical ==
  (\A p \in Project : phase[p] = "none") => \A p \in Project : name'[p] # "web"

MCInit ==
  /\ Init /\ StreamsInit /\ ConfigurationInit
  /\ part \in {"removals", "requests", "streams", "panel", "handlers"}

\* Projects are renamed and removed, and users deploy again.
RemovalsNext ==
  \/ ProjectStep /\ Canonical
  \/ BuildStep \/ CleanupStep \/ WorkerCrash
  \/ \E r \in Request :
       \/ \E p \in Project : RedeployRead(r, p)
       \/ CreateRow(r) \/ AddBuildJob(r)

\* Pushes, cancels and expiries, of projects that stay; they are alike too.
RequestsNext ==
  \/ \E p \in Project :
       \/ /\ p = "p1" \/ phase["p1"] # "none"
          /\ \E n \in Name : CreateProject(p, n) /\ Canonical
       \/ EndTransaction(p) /\ phase'[p] = "live"
  \/ \E r \in Request : RequestStart(r) \/ RequestStep(r)
  \/ BuildStep \/ ExpiryStep

PanelNext == ConfigurationNext /\ UNCHANGED <<creating, jobVars>>

Sent == Cardinality({s \in Save : save[s].pc # "new"})

HandlersNext ==
  /\ ConfigurationNext
  /\ UNCHANGED removed /\ (cache' # cache => edits' = edits /\ save' # save)
  /\ edits' # edits => edits = Sent
  /\ edits <= Sent \/ Sent' # Sent

MCNext ==
  /\ UNCHANGED part
  /\ \/ /\ UNCHANGED <<streamsVars, configurationVars>>
        /\ \/ part = "removals" /\ RemovalsNext
           \/ part = "requests" /\ RequestsNext
     \/ part = "streams" /\ StreamsNext /\ UNCHANGED <<vars, configurationVars>>
     \/ /\ UNCHANGED <<vars, streamsVars>>
        /\ \/ part = "panel" /\ PanelNext
           \/ part = "handlers" /\ HandlersNext

MCSpec ==
  /\ MCInit
  /\ [][MCNext]_<<part, vars, streamsVars, configurationVars>>
  /\ WF_vars(part = "removals" /\ CleanupStep)
=============================================================================

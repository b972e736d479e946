--------------------------- MODULE Configuration ----------------------------
(***************************************************************************)
(* The environment variables of a project: the panel that edits them       *)
(* (EnvVarsPanel.tsx), the optimistic cache it saves through               *)
(* (use-projects.ts), the transaction that replaces them all               *)
(* (env-vars.service.ts), and the deployments that read them and decide    *)
(* what becomes of the banner "Configuration Changed"                      *)
(* (deployments.service.ts, webhooks.service.ts).                          *)
(*                                                                         *)
(* A variable is a key with a value and targets: data, but for whether it  *)
(* is meant for production and whether its value is empty.                 *)
(* Postgres runs transactions as READ COMMITTED: a statement sees what was *)
(* committed when it began, and waits for rows another one has locked.     *)
(***************************************************************************)
EXTENDS Integers, FiniteSets

CONSTANTS
  Variable, keyOf,
  Production,  \* the variables with the target PRODUCTION
  Blank,       \* those with an empty value: stored, but never decrypted again
  Handler,     \* requests that create a deployment, one after another each
  Webhook,     \* those of them that answer a push
  MaxSave,  \* bound on the saves ever sent
  MaxEdit   \* bound on the edits of the panel

ASSUME ConfigurationAssumption ==
  /\ MaxSave \in Nat /\ MaxEdit \in Nat
  /\ DOMAIN keyOf = Variable
  /\ Production \subseteq Variable /\ Blank \subseteq Variable
  /\ Webhook \subseteq Handler

Save == 1 .. MaxSave

VARIABLES
  entries,     \* table EnvironmentVariable: who wrote which variable
  changed,     \* Project.configChanged
  save,        \* PUT /projects/:id/envs of a save: how far its transaction is,
               \* the rows it deletes, and those that deleted before it
  panel, dirty, removed,  \* EnvVarsPanel: envVars, ui.dirty, the Undo toasts
  cache,       \* envVars of the project in the SWR cache
  creating,    \* how far each handler is, and what it read
  job,         \* the newest job: the variables it carries, and who made it
  edits,
  overlapped,  \* history: saves that were open at the same time
  missed,      \* history: the newest job was read before a save it overlapped
  lost,        \* history: since then a manual row was left without its job
  doubts       \* history: why a clean panel may differ from the table

panelVars == <<panel, dirty, removed, edits>>
jobVars == <<job, missed, lost>>
configurationVars == <<entries, changed, save, panelVars, cache,
                       creating, jobVars, overlapped, doubts>>

Entry == [by : Save, variable : Variable]
Values(T) == {e.variable : e \in T}
Keys(V) == {keyOf[v] : v \in V}
Unique(V) == Cardinality(Keys(V)) = Cardinality(V)

NoSave == [pc |-> "new", variables |-> {}, seen |-> {}, ahead |-> {},
           previous |-> {}]
Reading == [pc : {"idle", "read", "created"}, variables : SUBSET Variable,
            late : BOOLEAN]
NoReading == [pc |-> "idle", variables |-> {}, late |-> FALSE]

ConfigurationTypeOK ==
  /\ entries \subseteq Entry /\ Unique(Values(entries))
  /\ changed \in BOOLEAN
  /\ save \in [Save -> [pc : {"new", "sent", "deleted", "saved", "failed",
                              "done"},
                        variables : SUBSET Variable, seen : SUBSET Entry,
                        ahead : SUBSET Save, previous : SUBSET Variable]]
  /\ {panel, cache, removed} \subseteq SUBSET Variable /\ dirty \in BOOLEAN
  /\ creating \in [Handler -> Reading]
  /\ job \in [pushed : BOOLEAN, variables : SUBSET Variable]
  /\ edits \in 0 .. MaxEdit
  /\ overlapped \subseteq SUBSET Save /\ missed \in BOOLEAN /\ lost \in BOOLEAN
  /\ doubts \subseteq {"undone", "edited", "overlap", "stale"}

\* A project created and deployed without variables, on the screen.
ConfigurationInit ==
  /\ entries = {} /\ panel = {} /\ cache = {}
  /\ job = [pushed |-> FALSE, variables |-> {}]
  /\ changed = FALSE /\ dirty = FALSE /\ removed = {}
  /\ save = [s \in Save |-> NoSave]
  /\ creating = [h \in Handler |-> NoReading]
  /\ edits = 0 /\ overlapped = {} /\ missed = FALSE /\ lost = FALSE
  /\ doubts = {}

-----------------------------------------------------------------------------
(* The panel. *)

InFlight == {s \in Save : save[s].pc \in {"sent", "deleted", "saved", "failed"}}

Edit(V) ==
  /\ edits < MaxEdit /\ edits' = edits + 1
  /\ panel' = V /\ dirty' = TRUE
  /\ doubts' = doubts \cup (IF InFlight = {} THEN {} ELSE {"edited"})
  /\ UNCHANGED <<entries, changed, save, cache, creating, jobVars,
                 overlapped>>

\* addEmptyVar and the typing of its key; nothing keeps keys apart.
AddVar(v) == v \notin panel /\ Edit(panel \cup {v}) /\ UNCHANGED removed

HandleEnvChange(v, w) ==
  /\ v \in panel /\ w \notin panel
  /\ Edit((panel \ {v}) \cup {w}) /\ UNCHANGED removed

RemoveVar(v) ==
  /\ v \in panel
  /\ Edit(panel \ {v}) /\ removed' = removed \cup {v}

\* The toast's action: the panel is not made dirty again.
Undo(v) ==
  /\ v \in removed \ panel
  /\ removed' = removed \ {v}
  /\ panel' = panel \cup {v}
  /\ doubts' = doubts \cup {"undone"}
  /\ UNCHANGED <<entries, changed, save, dirty, edits, cache, creating,
                 jobVars, overlapped>>

\* importEnvFile: keys that are there already are left alone.
ImportEnvFile(v) ==
  /\ keyOf[v] \notin Keys(panel)
  /\ Edit(panel \cup {v}) /\ UNCHANGED removed

\* discardChanges, behind a button that only a dirty panel has.
DiscardChanges ==
  /\ dirty
  /\ panel' = cache /\ dirty' = FALSE
  /\ doubts' = {d \in {"stale", "edited"} :
                   IF d = "stale" THEN cache # Values(entries)
                   ELSE InFlight # {}}
  /\ UNCHANGED <<entries, changed, save, removed, edits, cache,
                 creating, jobVars, overlapped>>

-----------------------------------------------------------------------------
(* Saving. *)

\* saveEnvVars: the cache is written before the answer.  The button stays.
SaveEnvVars(s) ==
  /\ dirty
  /\ save[s].pc = "new" /\ \A q \in Save : q < s => save[q].pc # "new"
  /\ save' = [save EXCEPT ![s] = [pc |-> "sent", variables |-> panel,
                                  seen |-> {}, ahead |-> {},
                                  previous |-> cache]]
  /\ cache' = panel
  /\ doubts' = IF InFlight = {} THEN {} ELSE {"overlap"}
  /\ UNCHANGED <<entries, changed, panelVars, creating, jobVars,
                 overlapped>>

\* Mutant of DeleteMany: only the keys that are saved again.
DeleteSame(s) == {e \in entries : keyOf[e.variable] \in Keys(save[s].variables)}

\* deleteMany: what is committed at this moment.
DeleteMany(s) == entries

\* Transactions that have deleted and hold the locks of those rows.
Holders == {s \in Save : save[s].pc = "deleted"}

Holding(s) ==
  [save[s] EXCEPT !.pc = "deleted", !.seen = DeleteMany(s), !.ahead = Holders]

DeleteAll(s) ==
  /\ save[s].pc = "sent"
  /\ save' = [save EXCEPT ![s] = Holding(s)]
  /\ overlapped' = overlapped \cup {{s, q} : q \in Holders}
  /\ UNCHANGED <<entries, changed, panelVars, cache, creating, jobVars, doubts>>

\* Those that were open before s hold the rows that s wants to delete.
Waits(s) == \E q \in save[s].ahead \cap Holders : save[q].seen \cap save[s].seen # {}

\* Mutant of Flagged: the project keeps its flag.
NotFlagged == changed

Flagged == TRUE

\* The unique index on project and key.
Fits(s, kept) ==
  /\ Unique(save[s].variables)
  /\ Keys(Values(kept)) \cap Keys(save[s].variables) = {}

Ended(s, pc) == [save[s] EXCEPT !.pc = pc, !.seen = {}, !.ahead = {}]

\* The handlers that have read what this save replaces.
Overtaken ==
  [h \in Handler |-> IF creating[h].pc = "idle" THEN creating[h]
                     ELSE [creating[h] EXCEPT !.late = TRUE]]

\* createMany and the update of the project; a key that is there twice rolls
\* everything back.
Insert(s) ==
  LET kept == entries \ save[s].seen
      new  == {[by |-> s, variable |-> v] : v \in save[s].variables}
  IN  /\ save[s].pc = "deleted" /\ ~Waits(s)
      /\ IF Fits(s, kept)
         THEN /\ save' = [save EXCEPT ![s] = Ended(s, "saved")]
              /\ entries' = kept \cup new
              /\ changed' = Flagged
              /\ creating' = Overtaken
         ELSE /\ save' = [save EXCEPT ![s] = Ended(s, "failed")]
              /\ UNCHANGED <<entries, changed, creating>>
      /\ UNCHANGED <<panelVars, cache, jobVars, overlapped, doubts>>

\* Mutant of StaysDirty: the panel is clean after any answer.
NeverDirty(s) == FALSE

StaysDirty(s) == dirty /\ save[s].pc = "failed"

\* Saved: the panel is clean, whatever it shows by now.  Failed: the cache goes
\* back to what it was when this save was sent.
SaveAnswered(s) ==
  /\ save[s].pc \in {"saved", "failed"}
  /\ dirty' = StaysDirty(s)
  /\ cache' = IF save[s].pc = "saved" THEN cache ELSE save[s].previous
  /\ save' = [save EXCEPT ![s] = [NoSave EXCEPT !.pc = "done"]]
  /\ UNCHANGED <<entries, changed, panel, removed, edits, creating, jobVars,
                 overlapped, doubts>>

\* An empty value is stored without a ciphertext, which decrypt refuses.
Decrypts(V) == V \cap Blank = {}

\* mutate() after a save, and SWR's own revalidation.  GET /projects decrypts
\* every value, and fails when one does not decrypt.
Revalidate ==
  /\ cache # Values(entries) /\ Decrypts(Values(entries))
  /\ cache' = Values(entries)
  /\ UNCHANGED <<entries, changed, save, panelVars, creating, jobVars,
                 overlapped, doubts>>

-----------------------------------------------------------------------------
(* Deploying. *)

\* What a job made of the variables V carries: a push takes all of them, a
\* manual deployment those for production that decrypt.
Given(pushed, V) == IF pushed THEN V ELSE (V \cap Production) \ Blank

Turns(h, reading) ==
  /\ creating' = [creating EXCEPT ![h] = reading]
  /\ UNCHANGED <<entries, save, panelVars, cache, overlapped, doubts>>

Commits(h) == Turns(h, [creating[h] EXCEPT !.pc = "created"])
Ends(h) == Turns(h, NoReading)

ReadProject(h) ==
  /\ creating[h].pc = "idle"
  /\ Turns(h, [pc |-> "read", variables |-> Values(entries), late |-> FALSE])
  /\ UNCHANGED <<changed, jobVars>>

\* After the calls to GitHub, the transaction: the row, and no banner.
CreateManual(h) ==
  /\ h \notin Webhook /\ creating[h].pc = "read"
  /\ changed' = FALSE
  /\ Commits(h) /\ UNCHANGED jobVars

\* A push decrypts first, and creates nothing when that fails; the banner stays.
CreateForPush(h) ==
  /\ h \in Webhook /\ creating[h].pc = "read"
  /\ Decrypts(creating[h].variables)
  /\ Commits(h) /\ UNCHANGED <<changed, jobVars>>

\* The variables as they were read, not as they are by now.
PushBuildJob(h) ==
  /\ creating[h].pc = "created"
  /\ job' = [pushed |-> h \in Webhook,
             variables |-> Given(h \in Webhook, creating[h].variables)]
  /\ missed' = creating[h].late /\ lost' = FALSE
  /\ Ends(h) /\ UNCHANGED changed

\* The handler is refused, fails or dies; after the row is committed, without
\* its job ever being pushed.
GivesUp(h) ==
  /\ creating[h].pc # "idle"
  /\ lost' = (lost \/ (h \notin Webhook /\ creating[h].pc = "created"))
  /\ Ends(h) /\ UNCHANGED <<changed, job, missed>>

TriggerStep(h) ==
  \/ ReadProject(h) \/ CreateManual(h) \/ CreateForPush(h)
  \/ PushBuildJob(h) \/ GivesUp(h)

ConfigurationNext ==
  \/ \E v, w \in Variable : HandleEnvChange(v, w)
  \/ \E v \in Variable :
       AddVar(v) \/ RemoveVar(v) \/ Undo(v) \/ ImportEnvFile(v)
  \/ DiscardChanges \/ Revalidate
  \/ \E s \in Save :
       SaveEnvVars(s) \/ DeleteAll(s) \/ Insert(s) \/ SaveAnswered(s)
  \/ \E h \in Handler : TriggerStep(h)

ConfigurationSpec ==
  ConfigurationInit /\ [][ConfigurationNext]_configurationVars

-----------------------------------------------------------------------------
(* Properties. *)

\* A manual row whose job is not pushed yet: the banner is gone already.
Handing == {h \in Handler \ Webhook : creating[h].pc = "created"}

\* Without the banner the newest job carries what its handler would be given
\* of the table, unless a save was committed between the handler's read and
\* its push, or a manual deployment that took the banner away has not pushed
\* its job, or never will (deployments.service.ts:29-177,
\* webhooks.service.ts:136-306).
BannerIsRight ==
  ~changed => \/ job.variables = Given(job.pushed, Values(entries))
              \/ missed \/ lost \/ Handing # {}

\* The table holds what one save sent, or what saves left whose transactions
\* were open at the same time (env-vars.service.ts:35-62).
TableIsOneSave ==
  \A d, e \in entries : d.by = e.by \/ {d.by, e.by} \in overlapped

\* A panel without a Save button shows what is in the table, unless a
\* deletion was undone, something was edited or discarded while a save was
\* under way, two saves were, or the cache that was discarded to was stale
\* (EnvVarsPanel.tsx:84-170, use-projects.ts:58-80).
CleanPanelIsSaved ==
  ~dirty /\ InFlight = {} /\ doubts = {} => panel = Values(entries)
=============================================================================

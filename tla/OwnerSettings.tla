--------------------------- MODULE OwnerSettings ----------------------------
(***************************************************************************)
(* The settings of a user: the row SystemConfig, the settings page, which  *)
(* copies it once and sends the whole copy back, in as many tabs as are    *)
(* open, and what the row decides when one of the user's deployments ends: *)
(* the mail and the Slack message that the worker asks the API for.        *)
(***************************************************************************)
EXTENDS Integers, Sequences

CONSTANTS
  Window,    \* the tabs that show the settings page
  Hook,      \* webhook addresses, as numbers above 0
  MaxForm,   \* bound on the presses of Save
  MaxChange  \* bound on the edits

\* slackWebhook: null, or "" once the user has emptied the field.
Null == 0
Empty == -1

ASSUME SettingsAssumption ==
  Hook \subseteq Nat \ {Null} /\ {MaxForm, MaxChange} \subseteq Nat

\* The fields that something else reads: the time to live in minutes, the mail
\* for a success, the webhook.
Form == [ttl : {5, 60}, mail : BOOLEAN, hook : Hook \cup {Null, Empty}]
NoConfig == [ttl |-> 0]

\* The defaults of the schema.
DefaultRow == [ttl |-> 5, mail |-> TRUE, hook |-> Null]

VARIABLES
  config,    \* the row, if there is one
  copy,      \* each tab's localSettings
  unsaved,     \* the tabs that show the button
  puts,      \* requests under way: which press, what it sends, from where
  pressed,   \* history: the forms sent
  changes,
  outcome,   \* the deployment: how far the worker's job is
  told       \* history: what its messages said

pageVars == <<copy, unsaved, puts, pressed, changes>>
ownerVars == <<config, pageVars, outcome, told>>

\* signUp creates the row with the user, validateOAuthLogin does not.
OwnerInit ==
  /\ config \in {NoConfig, DefaultRow}
  /\ copy = [w \in Window |-> NoConfig] /\ unsaved = {} /\ puts = {}
  /\ pressed = <<>> /\ changes = 0
  /\ outcome = "running" /\ told = {}

-----------------------------------------------------------------------------
(* The settings page. *)

\* getConfig upserts the row; the page copies the first answer only.
Load(w) ==
  /\ copy[w] = NoConfig
  /\ config' = IF config = NoConfig THEN DefaultRow ELSE config
  /\ copy' = [copy EXCEPT ![w] = config']
  /\ UNCHANGED <<unsaved, puts, pressed, changes, outcome, told>>

\* handleToggle and handleChange.
Change(w) ==
  /\ copy[w] # NoConfig /\ changes < MaxChange
  /\ \/ copy' = [copy EXCEPT ![w].mail = ~ @]
     \/ \E t \in {5, 60} : copy' = [copy EXCEPT ![w].ttl = t]
     \/ \E h \in Hook \cup {Empty} : copy' = [copy EXCEPT ![w].hook = h]
  /\ unsaved' = unsaved \cup {w} /\ changes' = changes + 1
  /\ UNCHANGED <<config, puts, pressed, outcome, told>>

\* saveSettings: the button stays while a request is under way.
SaveSettings(w) ==
  /\ w \in unsaved /\ Len(pressed) < MaxForm
  /\ pressed' = Append(pressed, copy[w])
  /\ puts' = puts \cup {[n |-> Len(pressed'), pc |-> "sent", from |-> w]}
  /\ UNCHANGED <<config, copy, unsaved, changes, outcome, told>>

\* Mutant of IsValid: the DTO takes any string.
AnyString(form) == TRUE

\* UpdateSettingsDto: IsOptional lets null pass, IsUrl refuses "".
IsValid(form) == form.hook # Empty

\* updateConfig: an empty address would leave the stored one as it is.
Stored(form) ==
  IF form.hook # Empty THEN form
  ELSE [form EXCEPT !.hook = IF config = NoConfig THEN Null ELSE config.hook]

UpdateConfig(p) ==
  /\ p.pc = "sent"
  /\ LET form == pressed[p.n]
         answer == IF IsValid(form) THEN "stored" ELSE "refused"
     IN  /\ config' = IF IsValid(form) THEN Stored(form) ELSE config
         /\ puts' = (puts \ {p}) \cup {[p EXCEPT !.pc = answer]}
  /\ UNCHANGED <<copy, unsaved, pressed, changes, outcome, told>>

\* The button goes with the answer, whatever was changed since.
SettingsSaved(p) ==
  /\ p.pc = "stored"
  /\ puts' = puts \ {p} /\ unsaved' = unsaved \ {p.from}
  /\ UNCHANGED <<config, copy, pressed, changes, outcome, told>>

\* Refused, or the request or its answer is lost.
SettingsNotSaved(p) ==
  /\ puts' = puts \ {p}
  /\ UNCHANGED <<config, copy, unsaved, pressed, changes, outcome, told>>

-----------------------------------------------------------------------------
(* A deployment of one of the user's projects ends. *)

WorkerTurns(pc) == outcome' = pc /\ UNCHANGED <<config, pageVars, told>>

\* READY is written, or the job has failed, also when the call for READY did.
MarkedReady == outcome = "running" /\ WorkerTurns("ready")
JobFails == outcome = "running" /\ WorkerTurns("failing")

\* sendDeploymentNotification, by the row of the project's owner: without a
\* row there is neither.  The mail for a failure is taken as wanted.
Messages(status) ==
  IF config = NoConfig THEN {}
  ELSE LET slack == [by |-> "slack", says |-> status]
           mail == [by |-> "mail", says |-> status]
       IN  {m \in {slack, mail} :
              IF m = slack THEN config.hook # Null
                           ELSE status = "FAILED" \/ config.mail}

Announces(status, next) ==
  /\ \E sent \in SUBSET Messages(status) : told' = told \cup sent
  /\ outcome' = next
  /\ UNCHANGED <<config, pageVars>>

\* Mutant of AfterLostNotice: the error reaches the build loop.
FailsTheJob == "failing"

\* SendDeploymentNotification logs an error and drops it.
AfterLostNotice == "over"

\* NotifySuccess: answered, or failed before or after the API served it.
NotifySuccess ==
  /\ outcome = "ready"
  /\ \/ Announces("READY", "over")
     \/ Announces("READY", AfterLostNotice)
     \/ WorkerTurns(AfterLostNotice)

\* NotifyFailure, after FailDeployment or a cancellation.
NotifyFailure ==
  /\ outcome = "failing"
  /\ \/ Announces("FAILED", "over")
     \/ WorkerTurns("over")

OwnerNext ==
  \/ \E w \in Window : Load(w) \/ Change(w) \/ SaveSettings(w)
  \/ \E p \in puts : UpdateConfig(p) \/ SettingsSaved(p) \/ SettingsNotSaved(p)
  \/ MarkedReady \/ JobFails \/ NotifySuccess \/ NotifyFailure

OwnerSpec == OwnerInit /\ [][OwnerNext]_ownerVars

-----------------------------------------------------------------------------
(* Properties. *)

\* Whatever tabs save, and in whatever order, the row is the defaults or the
\* whole of one form that was sent: a request that is refused leaves no part
\* of it (settings.service.ts:31-52, update-settings.dto.ts:30-33).
RowIsOneForm ==
  config \in {NoConfig, DefaultRow} \cup {pressed[n] : n \in DOMAIN pressed}

\* A deployment that was announced as successful is never announced as
\* failed: a lost notification does not fail its job (notifications.go:17-36).
ToldOneOutcome == \A a, b \in told : a.says = b.says

OwnerTypeOK ==
  /\ config \in Form \cup {NoConfig} /\ copy \in [Window -> Form \cup {NoConfig}]
  /\ unsaved \subseteq Window /\ \A p \in puts : p.n \in DOMAIN pressed
  /\ outcome \in {"running", "ready", "failing", "over"}
  /\ changes \in 0 .. MaxChange
=============================================================================

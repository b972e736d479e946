--------------------------- MODULE ProjectImport ----------------------------
(***************************************************************************)
(* The dialog that imports a repository (NewProjectDialog.tsx): a list of  *)
(* repositories, a form with a root directory and a framework that is      *)
(* detected for it, and the request that creates the project.  The page    *)
(* keeps the dialog mounted while it is closed, and four things come back  *)
(* to it later, whatever it shows by then: the half second of an import,   *)
(* the timer that clears a closed dialog, the answers of the framework     *)
(* detection and the answer of the creation.                               *)
(***************************************************************************)
EXTENDS Integers, Sequences

CONSTANTS
  Repository,   \* repositories of the selected account
  Dir,          \* directories of a repository
  MaxChange,    \* bound on directories chosen, each of which is detected
  MaxPress,     \* bound on imports begun
  MaxTimer,     \* bound on closed dialogs not cleared yet
  MaxRequest,   \* bound on creations in flight
  DetectFaults  \* "fails": no answer; "unknown": GitHub did not show the files

Root == "./"
NoRepo == "none"
Unknown == <<"unknown">>
Chosen == <<"chosen">>

ASSUME ImportAssumption ==
  /\ Root \in Dir /\ NoRepo \notin Repository
  /\ {MaxChange, MaxPress, MaxTimer, MaxRequest} \subseteq Nat
  /\ DetectFaults \subseteq {"fails", "unknown"}

\* A framework is told by what it was detected for.
Framework == (Repository \X Dir) \cup {Unknown, Chosen}

VARIABLES
  shown,            \* newProjectOpen: the page shows the dialog
  selectedRepo, deploying,
  form, defaults,   \* root directory and framework: the form's, and those of
                    \* its last reset with values
  importing,        \* repositories whose Import was pressed, in that order
  timers,           \* closed dialogs that will be cleared
  detections,       \* detections in flight
  requests,         \* how many creations are in flight
  changes, imports, \* how many directories were chosen and imports begun
  sinceOpen,        \* history: repositories imported since the dialog opened
  byHand,           \* history: the framework of the form was chosen by hand
  overlap,          \* history: a detection was in flight when the form changed
  undetected,       \* history: the last detection failed
  hasty,            \* history: opened before it was cleared, closed during an
                    \* import, or several imports pressed
  escaped,          \* history: the dialog was closed during a creation
  lost              \* history: a form in view went away by itself

dialogVars == <<shown, selectedRepo, deploying, form, defaults>>
pendingVars == <<importing, timers, detections, requests, changes, imports>>
formHistory == <<byHand, overlap, undetected>>
dialogHistory == <<sinceOpen, hasty, escaped, lost>>
importVars == <<dialogVars, pendingVars, formHistory, dialogHistory>>

EmptyForm == [root |-> Root, framework |-> Unknown]

ImportInit ==
  /\ shown = FALSE /\ selectedRepo = NoRepo /\ deploying = FALSE
  /\ form = EmptyForm /\ defaults = EmptyForm
  /\ importing = <<>> /\ timers = 0 /\ detections = {} /\ requests = 0
  /\ changes = 0 /\ imports = 0 /\ sinceOpen = {}
  /\ byHand = FALSE /\ overlap = FALSE /\ undetected = FALSE
  /\ hasty = FALSE /\ escaped = FALSE /\ lost = FALSE

\* The views that can be acted on: the list and the form.
Listing == shown /\ ~ deploying /\ selectedRepo = NoRepo
Configuring == shown /\ ~ deploying /\ selectedRepo # NoRepo

-----------------------------------------------------------------------------
(* The user *)

OpenDialog ==
  /\ ~ shown
  /\ shown' = TRUE /\ sinceOpen' = {}
  /\ hasty' = (hasty \/ timers > 0)
  /\ UNCHANGED <<selectedRepo, deploying, form, defaults, pendingVars,
                 formHistory, escaped, lost>>

\* handleClose: the state goes 300 ms later.
CloseDialog ==
  /\ shown /\ timers < MaxTimer
  /\ shown' = FALSE /\ timers' = timers + 1
  /\ hasty' = (hasty \/ importing # <<>>)
  /\ escaped' = (escaped \/ requests > 0)
  /\ UNCHANGED <<selectedRepo, deploying, form, defaults, importing,
                 detections, requests, changes, imports, formHistory,
                 sinceOpen, lost>>

\* handleImport waits half a second.
HandleImport(r) ==
  /\ Listing /\ imports < MaxPress
  /\ importing' = Append(importing, r) /\ imports' = imports + 1
  /\ sinceOpen' = sinceOpen \cup {r}
  /\ hasty' = (hasty \/ importing # <<>>)
  /\ UNCHANGED <<dialogVars, timers, detections, requests, changes,
                 formHistory, escaped, lost>>

Back ==
  /\ Configuring
  /\ selectedRepo' = NoRepo
  /\ UNCHANGED <<shown, deploying, form, defaults, pendingVars, formHistory,
                 dialogHistory>>

HandleFrameworkChange ==
  /\ Configuring
  /\ form' = [form EXCEPT !.framework = Chosen]
  /\ byHand' = TRUE /\ overlap' = (detections # {}) /\ undetected' = FALSE
  /\ UNCHANGED <<shown, selectedRepo, deploying, defaults, pendingVars,
                 dialogHistory>>

HandleRootDirectoryChange(d) ==
  /\ Configuring /\ changes < MaxChange
  /\ form' = [form EXCEPT !.root = d]
  /\ changes' = changes + 1
  /\ detections' = detections \cup
       {[of |-> <<selectedRepo, d>>, id |-> changes']}
  /\ byHand' = FALSE /\ overlap' = (detections # {}) /\ undetected' = FALSE
  /\ UNCHANGED <<shown, selectedRepo, deploying, defaults, importing, timers,
                 requests, imports, dialogHistory>>

OnSubmit ==
  /\ Configuring /\ requests < MaxRequest
  /\ deploying' = TRUE /\ requests' = requests + 1
  /\ UNCHANGED <<shown, selectedRepo, form, defaults, importing, timers,
                 detections, changes, imports, formHistory, dialogHistory>>

-----------------------------------------------------------------------------
(* What comes back *)

\* Mutant of Imported: only the repository is set.
ImportedKeepsForm(r) == form

\* form.reset with the values of the repository.
Imported(r) == [root |-> Root, framework |-> <<r, Root>>]

ImportDone ==
  /\ importing # <<>>
  /\ importing' = Tail(importing)
  /\ form' = Imported(Head(importing)) /\ defaults' = form'
  /\ selectedRepo' = Head(importing)
  /\ byHand' = FALSE /\ overlap' = (detections # {}) /\ undetected' = FALSE
  /\ lost' = (lost \/ Configuring)
  /\ UNCHANGED <<shown, deploying, timers, detections, requests, changes,
                 imports, sinceOpen, hasty, escaped>>

\* The answer goes into the form, whichever directory it shows by now.
Detected ==
  \E x \in detections :
    /\ detections' = detections \ {x}
    /\ \/ /\ form' = [form EXCEPT !.framework = x.of]
          /\ UNCHANGED undetected
       \/ /\ "unknown" \in DetectFaults
          /\ form' = [form EXCEPT !.framework = Unknown]
          /\ undetected' = TRUE
       \/ /\ "fails" \in DetectFaults
          /\ undetected' = TRUE
          /\ UNCHANGED form
    /\ UNCHANGED <<shown, selectedRepo, deploying, defaults, importing, timers,
                   requests, changes, imports, byHand, overlap, dialogHistory>>

\* Mutant of RepoAfterClose: the repository stays.
RepoIsKept == selectedRepo

\* The timer of handleClose: setSelectedRepo(null), and form.reset() without
\* values, which are those of the last reset.
RepoAfterClose == NoRepo

ClearClosed ==
  /\ timers > 0
  /\ timers' = timers - 1
  /\ selectedRepo' = RepoAfterClose /\ deploying' = FALSE
  /\ form' = defaults
  /\ lost' = (lost \/ Configuring)
  /\ UNCHANGED <<shown, defaults, importing, detections, requests, changes,
                 imports, formHistory, sinceOpen, hasty, escaped>>

\* The dialog closes and the router leaves the page, which unmounts both: what
\* is still under way finds nothing to change.  The user may come back.
Created ==
  /\ requests > 0
  /\ requests' = requests - 1
  /\ shown' = FALSE /\ selectedRepo' = NoRepo /\ deploying' = FALSE
  /\ form' = EmptyForm /\ defaults' = EmptyForm
  /\ importing' = <<>> /\ timers' = 0 /\ detections' = {}
  /\ lost' = (lost \/ Configuring)
  /\ UNCHANGED <<changes, imports, formHistory, sinceOpen, hasty, escaped>>

CreationFails ==
  /\ requests > 0
  /\ requests' = requests - 1 /\ deploying' = FALSE
  /\ UNCHANGED <<shown, selectedRepo, form, defaults, importing, timers,
                 detections, changes, imports, formHistory, dialogHistory>>

ImportNext ==
  \/ OpenDialog \/ CloseDialog \/ Back \/ HandleFrameworkChange \/ OnSubmit
  \/ \E r \in Repository : HandleImport(r)
  \/ \E d \in Dir : HandleRootDirectoryChange(d)
  \/ ImportDone \/ Detected \/ ClearClosed \/ Created \/ CreationFails

ImportSpec == ImportInit /\ [][ImportNext]_importVars

-----------------------------------------------------------------------------
ImportTypeOK ==
  /\ {shown, deploying, byHand, overlap, undetected, hasty, escaped, lost}
       \subseteq BOOLEAN
  /\ selectedRepo \in Repository \cup {NoRepo} /\ importing \in Seq(Repository)
  /\ {form, defaults} \subseteq [root : Dir, framework : Framework]
  /\ detections \subseteq [of : Repository \X Dir, id : 1 .. MaxChange]
  /\ timers \in 0 .. MaxTimer /\ requests \in 0 .. MaxRequest
  /\ changes \in 0 .. MaxChange /\ imports \in 0 .. MaxPress
  /\ sinceOpen \subseteq Repository

\* The framework a form shows, and OnSubmit sends, is the one chosen by hand or
\* the one detected for its own repository and directory, unless GitHub failed
\* or the form changed while a detection was under way: then the last answer
\* wins, whatever it is about (NewProjectDialog.tsx:103-121, 196-221).
FrameworkIsItsOwn ==
  Configuring /\ detections = {} /\ ~ overlap /\ ~ undetected =>
    form.framework = IF byHand THEN Chosen ELSE <<selectedRepo, form.root>>

\* A form in view is of a repository imported since the dialog was opened, and
\* only the user takes it away.  It takes a dialog opened within the 300 ms in
\* which it is not cleared, one closed within the 500 ms of an import, two
\* imports pressed, or one closed during a creation, to break this
\* (NewProjectDialog.tsx:142-155, 181-222, 261-271).
FormIsTheUsers ==
  \/ hasty \/ escaped
  \/ ~ lost /\ (Configuring => selectedRepo \in sinceOpen)
=============================================================================

---------------------------- MODULE SourcesProofs ----------------------------
(***************************************************************************)
(* From a repository to what is served, for any users, repositories and    *)
(* answers.  Import: the form is that of the repository, or the user's.    *)
(* Plan: the Service reaches the port that the container listens on, and   *)
(* what is served is what was recorded.  Access: a project that nobody has *)
(* disturbed stays readable; the row is written long after the callback    *)
(* has read the cookie and asked GitHub, so the invariant is about the     *)
(* callbacks in flight: Harmless says that what one carries takes no row,  *)
(* and adds none, that such a project is built through.                    *)
(***************************************************************************)
EXTENDS GitAccess, ProjectImport, BuildPlan, FiniteSetTheorems, TLAPS
-----------------------------------------------------------------------------
(* The dialog that imports a repository. *)

Form == [root : Dir, framework : Framework]
Detection == [of : Repository \X Dir, id : Nat]

ImportTypes ==
  /\ form \in Form /\ defaults \in Form
  /\ detections \subseteq Detection /\ changes \in Nat
  /\ importing \in Seq(Repository)
  /\ timers \in Nat /\ requests \in Nat

LEMMA FormTypes ==
  /\ EmptyForm \in Form
  /\ \A r \in Repository : Imported(r) \in Form
  BY ImportAssumption DEF EmptyForm, Imported, Form, Framework

LEMMA ChangedForm ==
  ASSUME NEW f \in Form
  PROVE  /\ \A w \in Framework : [f EXCEPT !.framework = w] \in Form
         /\ \A d \in Dir : [f EXCEPT !.root = d] \in Form
         /\ \A w : [f EXCEPT !.framework = w].framework = w
                   /\ [f EXCEPT !.framework = w].root = f.root
         /\ \A d : [f EXCEPT !.root = d].root = d
  BY DEF Form

\* A repository that is shown is one that was imported.
ImportInv ==
  /\ ImportTypes
  /\ selectedRepo \in Repository \cup {NoRepo}

LEMMA NextImportTypes == ImportInv /\ [ImportNext]_importVars => ImportInv'
<1> SUFFICES ASSUME ImportInv, [ImportNext]_importVars PROVE ImportInv'
  OBVIOUS
<1> USE DEF ImportInv, dialogVars, pendingVars, formHistory, dialogHistory
<1>0. Unknown \in Framework /\ Chosen \in Framework
  BY DEF Framework
<1>1. CASE OpenDialog \/ CloseDialog \/ Back \/ OnSubmit \/ CreationFails
           \/ UNCHANGED importVars
  BY <1>1 DEF OpenDialog, CloseDialog, Back, OnSubmit, CreationFails, importVars,
     ImportTypes
<1>2. ASSUME NEW r \in Repository, HandleImport(r) PROVE ImportInv'
  BY <1>2 DEF HandleImport, ImportTypes
<1>3. CASE HandleFrameworkChange
  BY <1>0, <1>3, ChangedForm DEF HandleFrameworkChange, ImportTypes
<1>4. ASSUME NEW d \in Dir, HandleRootDirectoryChange(d) PROVE ImportInv'
  <2>1. changes' \in Nat /\ selectedRepo \in Repository
    BY <1>4 DEF HandleRootDirectoryChange, Configuring, ImportTypes
  <2>3. [of |-> <<selectedRepo, d>>, id |-> changes'] \in Detection
    BY <2>1 DEF Detection
  <2>2. form' \in Form
    BY <1>4, ChangedForm DEF HandleRootDirectoryChange, ImportTypes
  <2>4. detections' \subseteq Detection
    BY <1>4, <2>3 DEF HandleRootDirectoryChange, ImportTypes
  <2> QED BY <1>4, <2>1, <2>2, <2>4 DEF HandleRootDirectoryChange, ImportTypes
<1>5. CASE ImportDone
  <2>1. Head(importing) \in Repository /\ Tail(importing) \in Seq(Repository)
    BY <1>5 DEF ImportDone, ImportTypes
  <2> QED BY <1>5, <2>1, FormTypes DEF ImportDone, ImportTypes
<1>6. CASE Detected
  <2>1. PICK x \in detections : detections' = detections \ {x}
                                /\ form' \in {form, [form EXCEPT !.framework = x.of],
                                           [form EXCEPT !.framework = Unknown]}
    BY <1>6 DEF Detected
  <2>2. x.of \in Framework
    BY DEF ImportTypes, Detection, Framework
  <2>3. form' \in Form
    BY <1>0, <2>1, <2>2, ChangedForm DEF ImportTypes
  <2> QED BY <1>6, <2>1, <2>3 DEF Detected, ImportTypes
<1>7. CASE ClearClosed
  BY <1>7 DEF ClearClosed, RepoAfterClose, ImportTypes
<1>8. CASE Created
  BY <1>8, FormTypes DEF Created, ImportTypes
<1> QED BY <1>1, <1>2, <1>3, <1>4, <1>5, <1>6, <1>7, <1>8 DEF ImportNext

LEMMA ImportTypesAlways == ImportSpec => []ImportInv
<1>1. ImportInit => ImportInv
  <2> SUFFICES ASSUME ImportInit PROVE ImportInv
    OBVIOUS
  <2>1. << >> \in Seq(Repository)
    OBVIOUS
  <2> QED BY <2>1, FormTypes DEF ImportInit, ImportInv, ImportTypes
<1> QED BY <1>1, NextImportTypes, PTL DEF ImportSpec

\* The flags are flags, and what is counted stays within its bounds.
Flagged ==
  /\ shown \in BOOLEAN /\ deploying \in BOOLEAN /\ byHand \in BOOLEAN
  /\ overlap \in BOOLEAN /\ undetected \in BOOLEAN /\ hasty \in BOOLEAN
  /\ escaped \in BOOLEAN /\ lost \in BOOLEAN

Counted ==
  /\ detections \subseteq [of : Repository \X Dir, id : 1 .. MaxChange]
  /\ timers \in 0 .. MaxTimer /\ requests \in 0 .. MaxRequest
  /\ changes \in 0 .. MaxChange /\ imports \in 0 .. MaxPress
  /\ sinceOpen \subseteq Repository

LEMMA NextFlagged ==
  Flagged /\ [ImportNext]_importVars => Flagged'
<1> SUFFICES ASSUME Flagged, [ImportNext]_importVars PROVE Flagged'
  OBVIOUS
<1>0. Configuring \in BOOLEAN /\ (detections # {}) \in BOOLEAN
  BY DEF Configuring
<1> USE DEF Flagged, dialogVars, pendingVars, formHistory, dialogHistory
<1>1. CASE OpenDialog \/ CloseDialog \/ Back \/ OnSubmit \/ UNCHANGED importVars
  BY <1>1 DEF OpenDialog, CloseDialog, Back, OnSubmit, importVars
<1>2. ASSUME NEW r \in Repository, HandleImport(r) PROVE Flagged'
  BY <1>2 DEF HandleImport
<1>3. CASE \/ HandleFrameworkChange \/ ImportDone
           \/ \E d \in Dir : HandleRootDirectoryChange(d)
  <2>1. /\ UNCHANGED <<shown, deploying, hasty, escaped>>
        /\ byHand' \in BOOLEAN /\ overlap' = (detections # {})
        /\ undetected' = FALSE /\ lost' \in {lost, lost \/ Configuring}
    BY <1>3, Zenon
    DEF HandleFrameworkChange, ImportDone, HandleRootDirectoryChange
  <2> QED BY <1>0, <2>1
<1>4. CASE Detected
  <2>1. /\ UNCHANGED <<shown, deploying, byHand, overlap, hasty, escaped, lost>>
        /\ undetected' \in BOOLEAN
    BY <1>4, Zenon DEF Detected
  <2> QED BY <2>1
<1>5. CASE ClearClosed \/ Created \/ CreationFails
  <2>1. /\ UNCHANGED <<byHand, overlap, undetected, hasty, escaped>>
        /\ shown' \in BOOLEAN /\ deploying' = FALSE
        /\ lost' \in {lost, lost \/ Configuring}
    BY <1>5, Zenon DEF ClearClosed, Created, CreationFails
  <2> QED BY <1>0, <2>1
<1> QED BY <1>1, <1>2, <1>3, <1>4, <1>5 DEF ImportNext

LEMMA NextCounted ==
  ImportInv /\ Counted /\ [ImportNext]_importVars => Counted'
<1> SUFFICES ASSUME ImportInv, Counted, [ImportNext]_importVars PROVE Counted'
  OBVIOUS
<1>0. /\ MaxChange \in Nat /\ MaxPress \in Nat /\ MaxTimer \in Nat
      /\ MaxRequest \in Nat
      /\ selectedRepo \in Repository \cup {NoRepo}
  BY ImportAssumption DEF ImportAssumption, ImportInv, ImportTypes
<1> DEFINE counts == <<detections, timers, requests, changes, imports, sinceOpen>>
<1> USE DEF Counted, dialogVars, pendingVars, formHistory, dialogHistory
<1>1. UNCHANGED counts => Counted'
  OBVIOUS
<1>2. CASE Back \/ HandleFrameworkChange \/ ImportDone \/ UNCHANGED importVars
  <2>1. UNCHANGED counts
    BY <1>2, Zenon DEF Back, HandleFrameworkChange, ImportDone, importVars
  <2> QED BY <1>1, <2>1
<1>3. CASE OpenDialog \/ CloseDialog \/ OnSubmit
  BY <1>0, <1>3 DEF OpenDialog, CloseDialog, OnSubmit
<1>4. ASSUME NEW r \in Repository, HandleImport(r) PROVE Counted'
  BY <1>0, <1>4 DEF HandleImport
<1>5. ASSUME NEW d \in Dir, HandleRootDirectoryChange(d) PROVE Counted'
  <2>1. /\ selectedRepo # NoRepo /\ changes < MaxChange
        /\ changes' = changes + 1
        /\ detections' = detections \cup {[of |-> <<selectedRepo, d>>, id |-> changes']}
        /\ UNCHANGED <<timers, requests, imports, sinceOpen>>
    BY <1>5, Zenon DEF HandleRootDirectoryChange, Configuring
  <2> QED BY <1>0, <2>1
<1>6. CASE Detected
  <2>1. /\ detections' \subseteq detections
        /\ UNCHANGED <<timers, requests, changes, imports, sinceOpen>>
    BY <1>6, Zenon DEF Detected
  <2> QED BY <2>1
<1>7. CASE ClearClosed \/ Created \/ CreationFails
  BY <1>0, <1>7 DEF ClearClosed, Created, CreationFails
<1> QED BY <1>2, <1>3, <1>4, <1>5, <1>6, <1>7 DEF ImportNext

\* The dialog's form, timers and requests stay in their types, whatever is
\* pressed and whenever timers and answers come (NewProjectDialog.tsx:103-221).
THEOREM ImportTypeCorrect == ImportSpec => []ImportTypeOK
<1>1. ImportInit => Flagged
  BY DEF ImportInit, Flagged
<1>2. ImportInit => Counted
  <2> SUFFICES ASSUME ImportInit PROVE Counted
    OBVIOUS
  <2>1. /\ detections = {} /\ timers = 0 /\ requests = 0 /\ changes = 0
        /\ imports = 0 /\ sinceOpen = {}
    BY DEF ImportInit
  <2> QED BY <2>1, ImportAssumption DEF Counted, ImportAssumption
<1>3. ImportInv /\ Flagged /\ Counted => ImportTypeOK
  <2> SUFFICES ASSUME ImportInv, Flagged, Counted PROVE ImportTypeOK
    OBVIOUS
  <2>1. {shown, deploying, byHand, overlap, undetected, hasty, escaped, lost}
          \subseteq BOOLEAN
    BY DEF Flagged
  <2> QED BY <2>1 DEF ImportInv, ImportTypes, Counted, ImportTypeOK, Form
<1> QED BY <1>1, <1>2, <1>3, NextFlagged, NextCounted, ImportTypesAlways,
        PTL DEF ImportSpec

-----------------------------------------------------------------------------
\* Nothing is under way but for what the form shows, and once it is answered
\* the framework is its own.
FrameworkFollows ==
  selectedRepo # NoRepo /\ ~ overlap =>
    /\ \A x \in detections : ~ byHand /\ x.of = <<selectedRepo, form.root>>
    /\ detections = {} /\ ~ undetected =>
         form.framework = IF byHand THEN Chosen ELSE <<selectedRepo, form.root>>

LEMMA NextFramework ==
  ImportInv /\ FrameworkFollows /\ [ImportNext]_importVars => FrameworkFollows'
<1> SUFFICES ASSUME ImportInv, FrameworkFollows, [ImportNext]_importVars
             PROVE  FrameworkFollows'
  OBVIOUS
<1> USE DEF dialogVars, pendingVars, formHistory, dialogHistory
<1>0. form \in Form
  BY DEF ImportInv, ImportTypes
<1>1. UNCHANGED <<selectedRepo, form, detections, formHistory>>
        => FrameworkFollows'
  BY DEF FrameworkFollows
<1>2. selectedRepo' = NoRepo => FrameworkFollows'
  BY DEF FrameworkFollows
<1>3. CASE OpenDialog \/ CloseDialog \/ OnSubmit \/ CreationFails
           \/ UNCHANGED importVars
  BY <1>1, <1>3 DEF OpenDialog, CloseDialog, OnSubmit, CreationFails, importVars
<1>4. ASSUME NEW r \in Repository, HandleImport(r) PROVE FrameworkFollows'
  BY <1>1, <1>4 DEF HandleImport
<1>5. CASE Back \/ ClearClosed \/ Created
  BY <1>2, <1>5 DEF Back, ClearClosed, RepoAfterClose, Created
<1>6. CASE HandleFrameworkChange
  <2>1. /\ form'.framework = Chosen /\ byHand' /\ UNCHANGED detections
        /\ overlap' = (detections # {})
    BY <1>0, <1>6, ChangedForm DEF HandleFrameworkChange
  <2> QED BY <2>1 DEF FrameworkFollows
<1>7. ASSUME NEW d \in Dir, HandleRootDirectoryChange(d) PROVE FrameworkFollows'
  <2> DEFINE x == [of |-> <<selectedRepo, d>>, id |-> changes']
  <2>1. /\ form'.root = d /\ ~ byHand' /\ UNCHANGED selectedRepo
        /\ detections' = detections \cup {x}
        /\ overlap' = (detections # {})
    BY <1>0, <1>7, ChangedForm DEF HandleRootDirectoryChange
  <2>2. x.of = <<selectedRepo, d>>
    OBVIOUS
  <2> HIDE DEF x
  <2> QED BY <2>1, <2>2 DEF FrameworkFollows
<1>8. CASE ImportDone
  <2>1. /\ selectedRepo' = Head(importing) /\ ~ byHand' /\ UNCHANGED detections
        /\ form'.root = Root /\ form'.framework = <<selectedRepo', Root>>
        /\ overlap' = (detections # {})
    BY <1>8 DEF ImportDone, Imported
  <2> QED BY <2>1 DEF FrameworkFollows
<1>9. CASE Detected
  <2>1. PICK x \in detections :
          /\ detections' = detections \ {x}
          /\ \/ form' = [form EXCEPT !.framework = x.of] /\ UNCHANGED undetected
             \/ form' = [form EXCEPT !.framework = Unknown] /\ undetected'
             \/ UNCHANGED form /\ undetected'
    BY <1>9 DEF Detected
  <2>2. UNCHANGED <<selectedRepo, byHand, overlap>>
    BY <1>9 DEF Detected
  <2>3. form'.root = form.root
    BY <1>0, <2>1 DEF Form
  <2>4. ~ undetected' => form'.framework = x.of
    <3>1. ~ undetected' => form' = [form EXCEPT !.framework = x.of]
      BY <2>1
    <3> QED BY <1>0, <3>1 DEF Form
  <2> QED BY <2>1, <2>2, <2>3, <2>4 DEF FrameworkFollows
<1> QED BY <1>3, <1>4, <1>5, <1>6, <1>7, <1>8, <1>9 DEF ImportNext

\* The framework that is submitted is the one chosen by hand or the one detected
\* for the form's own repository and directory, unless the form changed during
\* a detection or GitHub failed (NewProjectDialog.tsx:103-121, 196-221).
THEOREM FrameworkOfTheForm == ImportSpec => []FrameworkIsItsOwn
<1>1. ImportInit => FrameworkFollows
  BY DEF ImportInit, FrameworkFollows
<1>2. FrameworkFollows => FrameworkIsItsOwn
  BY DEF FrameworkFollows, FrameworkIsItsOwn, Configuring
<1> QED BY <1>1, <1>2, NextFramework, ImportTypesAlways, PTL DEF ImportSpec

-----------------------------------------------------------------------------
\* While nobody was hasty and nothing escaped: a dialog in view will not be
\* cleared, a closed one imports and creates nothing, one import is under way at
\* most, from the list, and a creation keeps its form.
Calm ==
  /\ ~ lost
  /\ shown => timers = 0
  /\ shown \/ (importing = << >> /\ requests = 0)
  /\ shown \/ timers > 0 \/ selectedRepo = NoRepo
  /\ importing # << >> =>
       /\ Len(importing) = 1 /\ Head(importing) \in sinceOpen
       /\ selectedRepo = NoRepo
  /\ requests > 0 => requests = 1 /\ deploying
  /\ shown /\ selectedRepo # NoRepo => selectedRepo \in sinceOpen

LEMMA NextCalm ==
  ASSUME ImportInv, hasty \/ escaped \/ Calm, [ImportNext]_importVars
  PROVE  (hasty \/ escaped \/ Calm)'
<1> USE DEF dialogVars, pendingVars, formHistory, dialogHistory
<1>0. importing \in Seq(Repository) /\ timers \in Nat /\ requests \in Nat
  BY DEF ImportInv, ImportTypes
<1>1. (hasty => hasty') /\ (escaped => escaped')
  <2> DEFINE Goal == (hasty => hasty') /\ (escaped => escaped')
  <2>1. OpenDialog => Goal
    <3>1. OpenDialog => hasty' = (hasty \/ timers > 0) /\ escaped' = escaped
      BY DEF OpenDialog
    <3> QED BY <3>1, Zenon
  <2>2. CloseDialog => Goal
    <3>1. CloseDialog => /\ hasty' = (hasty \/ importing # << >>)
                         /\ escaped' = (escaped \/ requests > 0)
      BY DEF CloseDialog
    <3> QED BY <3>1, Zenon
  <2>3. ASSUME NEW r \in Repository, HandleImport(r) PROVE Goal
    <3>1. hasty' = (hasty \/ importing # << >>) /\ escaped' = escaped
      BY <2>3 DEF HandleImport
    <3> QED BY <3>1, Zenon
  <2>4. ImportDone \/ Detected \/ ClearClosed \/ Created \/ CreationFails => Goal
    BY DEF ImportDone, Detected, ClearClosed, Created, CreationFails
  <2>5. ASSUME \/ Back \/ HandleFrameworkChange \/ OnSubmit
               \/ \E d \in Dir : HandleRootDirectoryChange(d)
               \/ UNCHANGED importVars
        PROVE  Goal
    BY <2>5 DEF Back, HandleFrameworkChange, OnSubmit, HandleRootDirectoryChange,
       importVars
  <2> HIDE DEF Goal
  <2>6. Goal
    BY <2>1, <2>2, <2>3, <2>4, <2>5 DEF ImportNext
  <2> QED BY <2>6 DEF Goal
<1> SUFFICES ASSUME Calm, ~ hasty', ~ escaped' PROVE Calm'
  BY <1>1
<1> USE DEF Calm
<1>2. CASE OpenDialog
  <2>1. ~ (timers > 0) /\ ~ shown
    BY <1>2 DEF OpenDialog
  <2>2. UNCHANGED <<selectedRepo, deploying, importing, timers, requests, lost>>
    BY <1>2 DEF OpenDialog
  <2> QED BY <1>0, <2>1, <2>2
<1>3. CASE CloseDialog
  <2>1. importing = << >> /\ ~ (requests > 0)
    BY <1>3 DEF CloseDialog
  <2>2. /\ shown' = FALSE /\ timers' = timers + 1
        /\ UNCHANGED <<importing, requests, lost>>
    BY <1>3 DEF CloseDialog
  <2> QED BY <1>0, <2>1, <2>2
<1>4. CASE Back \/ HandleFrameworkChange
  <2>1. /\ selectedRepo' \in {selectedRepo, NoRepo}
        /\ UNCHANGED <<shown, deploying, importing, timers, requests, sinceOpen,
                       lost>>
    BY <1>4 DEF Back, HandleFrameworkChange
  <2> QED BY <2>1
<1>5. CASE OnSubmit
  BY <1>0, <1>5 DEF OnSubmit, Configuring
<1>6. ASSUME NEW r \in Repository, HandleImport(r) PROVE Calm'
  <2>1. importing = << >> /\ importing' = Append(importing, r)
    BY <1>6 DEF HandleImport
  <2>2. Len(importing') = 1 /\ Head(importing') = r
    BY <2>1
  <2> QED BY <1>0, <1>6, <2>2 DEF HandleImport, Listing
<1>7. ASSUME NEW d \in Dir, HandleRootDirectoryChange(d) PROVE Calm'
  BY <1>0, <1>7 DEF HandleRootDirectoryChange
<1>8. CASE ImportDone
  <2>1. /\ importing # << >> /\ Len(importing) = 1
        /\ importing' = Tail(importing) /\ selectedRepo' = Head(importing)
        /\ lost' = (lost \/ Configuring)
        /\ UNCHANGED <<shown, deploying, timers, requests, sinceOpen>>
    BY <1>8 DEF ImportDone
  <2>2. importing' = << >>
    BY <1>0, <2>1
  <2>3. ~ Configuring
    BY <2>1 DEF Configuring
  <2> QED BY <1>0, <2>1, <2>2, <2>3
<1>9. CASE Detected
  BY <1>0, <1>9 DEF Detected
<1>10. CASE ClearClosed
  <2>1. /\ timers > 0 /\ timers' = timers - 1 /\ selectedRepo' = NoRepo
        /\ UNCHANGED <<shown, importing, requests, sinceOpen>>
        /\ lost' = (lost \/ Configuring)
    BY <1>10 DEF ClearClosed, RepoAfterClose
  <2>2. ~ shown /\ ~ Configuring
    BY <1>0, <2>1 DEF Configuring
  <2>3. ~ lost'
    BY <2>1, <2>2, Zenon
  <2> QED BY <1>0, <2>1, <2>2, <2>3
<1>11. CASE Created
  <2>1. /\ requests > 0 /\ requests' = requests - 1
        /\ shown' = FALSE /\ selectedRepo' = NoRepo /\ importing' = << >>
        /\ lost' = (lost \/ Configuring)
    BY <1>11 DEF Created
  <2>2. ~ Configuring /\ requests' = 0
    BY <1>0, <2>1 DEF Configuring
  <2>3. ~ lost'
    BY <2>1, <2>2, Zenon
  <2> QED BY <2>1, <2>2, <2>3
<1>12. CASE CreationFails
  <2>1. /\ requests > 0 /\ requests' = requests - 1
        /\ UNCHANGED <<shown, selectedRepo, importing, timers, sinceOpen, lost>>
    BY <1>12 DEF CreationFails
  <2> QED BY <1>0, <2>1
<1>13. CASE UNCHANGED importVars
  BY <1>13 DEF importVars
<1> QED BY <1>2, <1>3, <1>4, <1>5, <1>6, <1>7, <1>8, <1>9, <1>10, <1>11, <1>12,
           <1>13 DEF ImportNext

\* A form in view is of a repository imported since the dialog was opened, and
\* only the user takes it away, unless one of the recorded overlaps happened
\* (NewProjectDialog.tsx:142-155, 181-222, 261-271).
THEOREM FormStaysTheUsers == ImportSpec => []FormIsTheUsers
<1>1. ImportInit => hasty \/ escaped \/ Calm
  BY DEF ImportInit, Calm
<1>2. ImportInv /\ (hasty \/ escaped \/ Calm) /\ [ImportNext]_importVars
        => (hasty \/ escaped \/ Calm)'
  BY NextCalm
<1>3. hasty \/ escaped \/ Calm => FormIsTheUsers
  BY DEF Calm, FormIsTheUsers, Configuring
<1> QED BY <1>1, <1>2, <1>3, ImportTypesAlways, PTL DEF ImportSpec
-----------------------------------------------------------------------------
(* The port of a deployment, and the directory it serves. *)

\* Whatever the user set, every variable that names the port names the one
\* that was resolved.
LEMMA OnePort ==
  ASSUME NEW job
  PROVE  /\ RuntimeEnv(job)["PORT"] = ResolvePort(job.env)
         /\ job.framework \in OwnPort =>
              RuntimeEnv(job)["OWN"] = ResolvePort(job.env)
<1> DEFINE port == ResolvePort(job.env)
           last == FrameworkRuntimePortEnv(job.framework, port)
           env == MergeEnvVars(job.env, last)
<1>1. /\ "PORT" \in DOMAIN last
      /\ job.framework \in OwnPort => "OWN" \in DOMAIN last /\ last["OWN"] = port
  BY DEF FrameworkRuntimePortEnv
<1> HIDE DEF last, port
<1>2. /\ "PORT" \in DOMAIN env
      /\ job.framework \in OwnPort => "OWN" \in DOMAIN env /\ env["OWN"] = port
  BY <1>1 DEF MergeEnvVars
<1>3. RuntimeEnv(job) = [env EXCEPT !["PORT"] = port]
  BY DEF RuntimeEnv, last, port
<1>4. env = [k \in DOMAIN env |-> env[k]]
  BY DEF MergeEnvVars
<1> HIDE DEF env
<1>5. "PORT" # "OWN"
  OBVIOUS
<1> QED BY <1>2, <1>3, <1>4, <1>5 DEF port

\* Who made what: the job at hand is the newest plan, and each thing is of the
\* plan that it names.
PlanInv ==
  /\ plans \in Nat /\ built.by \in 0 .. plans /\ template.by \in 0 .. plans
  /\ target.by \in 0 .. template.by
  /\ task.pc \in {"build", "deploy"} => template.by < plans
  /\ task.pc = "build" => built.by < plans
  /\ task.pc = "deploy" =>
       /\ built.by = plans /\ built.framework = task.job.framework
       /\ built.port \in {Unset, ResolvePort(task.job.env)}
  /\ task.pc = "service" =>
       /\ template.by = plans /\ target.by < plans
       /\ template.port = ResolvePort(task.job.env)
  /\ template.by > 0 /\ built.by = template.by =>
       ListensAt(template.env) = template.port
  /\ target.by = template.by => target.port = template.port
  /\ \A p \in pods :
       /\ p.of.by \in 1 .. template.by
       /\ p.of = template /\ built.by = template.by => p.at = template.port

LEMMA NextPlan == PlanInv /\ [PlanNext]_planVars => PlanInv'
<1> SUFFICES ASSUME PlanInv, [PlanNext]_planVars PROVE PlanInv'
  OBVIOUS
<1> USE DEF PlanInv
<1>1. ASSUME UNCHANGED <<task, built, template, target, pods, plans>>
      PROVE  PlanInv'
  BY <1>1 DEF ListensAt
<1>2. CASE TakePlan
  <2>1. /\ plans' = plans + 1 /\ task'.pc = "build"
        /\ UNCHANGED <<built, template, target, pods>>
    BY <1>2 DEF TakePlan
  <2> QED BY <2>1 DEF ListensAt
<1>3. CASE BuildImage
  <2>1. /\ built'.by = plans /\ built'.framework = task.job.framework
        /\ built'.port \in {Unset, ResolvePort(task.job.env)}
        /\ task.pc = "build" /\ task'.pc = "deploy" /\ task'.job = task.job
        /\ UNCHANGED <<template, target, pods, plans>>
    BY <1>3 DEF BuildImage
  <2> QED BY <2>1
<1>4. CASE CreateOrUpdateDeployment
  <2> DEFINE port == ResolvePort(task.job.env)
  <2>1. /\ task.pc = "deploy" /\ task'.pc = "service" /\ task'.job = task.job
        /\ template'.by = plans /\ template'.port = port
        /\ template'.env = RuntimeEnv(task.job)
        /\ UNCHANGED <<built, target, pods, plans>>
    BY <1>4 DEF CreateOrUpdateDeployment
  \* The image is the one that this plan has just pushed.
  <2>2. ListensAt(template.env)' = port
    BY <2>1, OnePort DEF ListensAt, Unset
  <2>3. \A p \in pods : p.of.by < plans
    BY <2>1
  <2> QED BY <2>1, <2>2, <2>3
<1>5. CASE CreateOrUpdateService
  <2>1. /\ task.pc = "service" /\ task'.pc = "idle"
        /\ target'.by = plans /\ target'.port = ResolvePort(task.job.env)
        /\ UNCHANGED <<built, template, pods, plans>>
    BY <1>5 DEF CreateOrUpdateService, NoTask
  <2> QED BY <2>1 DEF ListensAt
<1>6. CASE TaskEnds
  <2>1. task'.pc = "idle" /\ UNCHANGED <<built, template, target, pods, plans>>
    BY <1>6 DEF TaskEnds, NoTask
  <2> QED BY <2>1 DEF ListensAt
<1>7. ASSUME UNCHANGED <<task, built, template, target, plans>>,
             \A p \in pods' : p \in pods \/ (p = Pod(template) /\ template.by > 0)
                              \/ \E q \in pods : p = Pod(q.of)
      PROVE  PlanInv'
  <2>1. ASSUME NEW p \in pods'
        PROVE  /\ p.of.by \in 1 .. template.by
               /\ p.of = template /\ built.by = template.by => p.at = template.port
    <3>1. CASE p \in pods
      BY <3>1
    <3>2. ASSUME NEW t, p = Pod(t), t = template \/ \E q \in pods : t = q.of,
                 t.by \in 1 .. template.by
          PROVE  /\ p.of.by \in 1 .. template.by
                 /\ p.of = template /\ built.by = template.by => p.at = template.port
      BY <3>2 DEF Pod
    <3> QED BY <1>7, <3>1, <3>2
  <2> QED BY <1>7, <2>1 DEF ListensAt
<1>8. CASE PodComes
  BY <1>7, <1>8 DEF PodComes
<1>9. ASSUME NEW p \in pods, PodRestarts(p) \/ PodRetires(p) PROVE PlanInv'
  BY <1>7, <1>9 DEF PodRestarts, PodRetires
<1>10. ASSUME NEW f, PickDirectory(f) PROVE PlanInv'
  BY <1>1, <1>10 DEF PickDirectory
<1>11. ASSUME NEW env, SetVariables(env) PROVE PlanInv'
  BY <1>1, <1>11 DEF SetVariables
<1>12. CASE UNCHANGED planVars
  BY <1>1, <1>12 DEF planVars
<1> QED BY <1>2, <1>3, <1>4, <1>5, <1>6, <1>8, <1>9, <1>10, <1>11, <1>12
        DEF PlanNext

\* Unless its image was pushed over or its Service not reached, a pod of the
\* newest template listens where the Service sends (worker.go:360-417).
THEOREM ServiceReachesPods == PlanSpec => []RoutedPortIsServed
<1>1. PlanInit => PlanInv
  BY DEF PlanInit, PlanInv, NoTask, Nowhere
<1>2. PlanInv => RoutedPortIsServed
  BY DEF PlanInv, RoutedPortIsServed
<1> QED BY <1>1, <1>2, NextPlan, PTL DEF PlanSpec

\* Only a deployment that was begun is at work on an image or a template.
Numbered ==
  /\ PlanTypeOK
  /\ plans \in Nat /\ task.pc # "idle" => plans > 0

LEMMA NextNumbered == Numbered /\ [PlanNext]_planVars => Numbered'
<1> SUFFICES ASSUME Numbered, [PlanNext]_planVars PROVE Numbered'
  OBVIOUS
<1> USE PlanAssumption DEF Numbered, PlanTypeOK, PlanAssumption
<1>1. ASSUME NEW f \in Files, PickDirectory(f) PROVE Numbered'
  BY <1>1 DEF PickDirectory
<1>2. ASSUME NEW env \in Environments, SetVariables(env) PROVE Numbered'
  BY <1>2 DEF SetVariables
<1>3. CASE TakePlan
  BY <1>3 DEF TakePlan
<1>4. CASE BuildImage
  BY <1>4 DEF BuildImage
<1>5. CASE CreateOrUpdateDeployment
  BY <1>5 DEF CreateOrUpdateDeployment
<1>6. CASE CreateOrUpdateService
  BY <1>6 DEF CreateOrUpdateService, NoTask
<1>7. CASE TaskEnds \/ UNCHANGED planVars
  BY <1>7 DEF TaskEnds, NoTask, planVars
<1>8. CASE PodComes
  BY <1>8 DEF PodComes, Pod
<1>9. ASSUME NEW p \in pods, PodRestarts(p) \/ PodRetires(p) PROVE Numbered'
  BY <1>9 DEF PodRestarts, PodRetires, Pod
<1> QED BY <1>1, <1>2, <1>3, <1>4, <1>5, <1>6, <1>7, <1>8, <1>9 DEF PlanNext

\* Plan, task, image, template and pods stay in their types, for any files and
\* variables (worker.go:360-417).
THEOREM PlanTypeCorrect == PlanSpec => []PlanTypeOK
<1>1. PlanInit => Numbered
  <2> SUFFICES ASSUME PlanInit PROVE Numbered
    OBVIOUS
  <2>1. project.env = <<>> /\ project.run \in {"none", "serve"}
    BY DEF PlanInit
  <2>2. <<>> \in Environments
    <3>1. <<>> \in [{} -> PortValue]
      OBVIOUS
    <3> QED BY <3>1 DEF Environments
  <2> QED BY <2>1, <2>2, PlanAssumption
          DEF PlanInit, Numbered, PlanTypeOK, NoTask, Nowhere, PlanAssumption
<1>2. Numbered => PlanTypeOK
  BY DEF Numbered
<1> QED BY <1>1, <1>2, NextNumbered, PTL DEF PlanSpec

-----------------------------------------------------------------------------
\* A directory that is right for its framework.
Agrees(framework, output) ==
  framework \in DOMAIN ServedBy => output = ServedBy[framework]

Frameworks == {Detect(f).framework : f \in Files}
Outputs ==
  {Detect(f).output : f \in Files} \cup {Preset[k] : k \in DOMAIN Preset}

\* The smallest interval 0 .. n with n in the set.
LEMMA LeastNumber ==
  ASSUME NEW I \in SUBSET Nat, I # {}
  PROVE  \E x \in I : \A y \in I : x <= y
<1> DEFINE T == {0 .. n : n \in I}
           R == StrictSubsetOrdering(Nat)
<1>1. T \subseteq FiniteSubsetsOf(Nat) /\ T # {}
  <2>1. ASSUME NEW n \in I PROVE 0 .. n \in FiniteSubsetsOf(Nat)
    <3>1. n \in Int /\ 0 \in Int /\ 0 .. n \subseteq Nat
      OBVIOUS
    <3>2. IsFiniteSet(0 .. n)
      BY <3>1, FS_Interval
    <3> QED BY <3>1, <3>2 DEF FiniteSubsetsOf
  <2> QED BY <2>1
<1>2. IsWellFoundedOn(R, FiniteSubsetsOf(Nat))
  BY FS_StrictSubsetOrderingWellFounded
<1>3. PICK s \in T : \A t \in T : <<t, s>> \notin R
  <2> HIDE DEF T, R
  <2> QED BY <1>1, <1>2, WFMin
<1>4. PICK x \in I : s = 0 .. x
  BY <1>3
<1>5. ASSUME NEW y \in I, y < x PROVE FALSE
  <2>1. 0 .. y \in T /\ 0 .. y \subseteq 0 .. x /\ 0 .. y # 0 .. x
    <3>1. x \in 0 .. x /\ x \notin 0 .. y
      BY <1>5
    <3> QED BY <1>5, <3>1
  <2>2. 0 .. y \in SUBSET Nat /\ 0 .. x \in SUBSET Nat
    OBVIOUS
  <2> HIDE DEF T
  <2>3. <<0 .. y, 0 .. x>> \in R
    BY <2>1, <2>2 DEF StrictSubsetOrdering
  <2> QED BY <1>3, <1>4, <2>1, <2>3
<1> QED BY <1>5

LEMMA FirstOfTable ==
  ASSUME NEW table, NEW names, NEW other
  PROVE  FirstOf(table, names, other)
           \in {other} \cup {table[i] : i \in 1 .. Len(table)}
<1> DEFINE I == {i \in 1 .. Len(table) : table[i].name \in names}
<1>1. I \subseteq Nat
  OBVIOUS
<1>2. I # {} => Min(I) \in I
  <2> HIDE DEF I
  <2> QED BY <1>1, LeastNumber DEF Min
<1>3. \/ FirstOf(table, names, other) = other
      \/ I # {} /\ FirstOf(table, names, other) = table[Min(I)]
  BY <1>2 DEF FirstOf, SelectInSeq
<1> QED BY <1>2, <1>3

LEMMA PresetAgrees ==
  ASSUME NEW f \in DOMAIN Preset
  PROVE  Agrees(f, Preset[f])
  BY DEF Preset, Agrees, ServedBy, Dist, Build, Here

LEMMA TablesAgree ==
  ASSUME NEW f
  PROVE  Agrees(Detect(f).framework, Detect(f).output)
<1>1. /\ Len(NodeFrameworks) = 13
      /\ \A i \in 1 .. 13 :
           Agrees(NodeFrameworks[i].framework, NodeFrameworks[i].output)
  BY DEF NodeFrameworks, Entry, Agrees, ServedBy, Dist, Build
<1>2. /\ Len(PythonFrameworks) = 4
      /\ \A i \in 1 .. 4 :
           Agrees(PythonFrameworks[i].framework, PythonFrameworks[i].output)
  BY DEF PythonFrameworks, Entry, Agrees, ServedBy, Dist, Build
<1>3. ASSUME NEW name, NEW framework \in {"node", "python", "unknown"}, NEW output
      PROVE  Agrees(Entry(name, framework, output).framework,
                    Entry(name, framework, output).output)
  BY DEF Entry, Agrees, ServedBy, Dist, Build
<1>4. \/ Detect(f) \in {Entry("", "node", "."), Entry("", "python", "."),
                        Entry("", "unknown", NoDir)}
      \/ \E i \in 1 .. 13 : Detect(f) = NodeFrameworks[i]
      \/ \E i \in 1 .. 4 : Detect(f) = PythonFrameworks[i]
  <2> DEFINE node == FirstOf(NodeFrameworks, f.names, Entry("", "node", "."))
             python == FirstOf(PythonFrameworks, f.names, Entry("", "python", "."))
  <2>1. \/ node = Entry("", "node", ".")
        \/ \E i \in 1 .. 13 : node = NodeFrameworks[i]
    BY <1>1, FirstOfTable
  <2>2. \/ python = Entry("", "python", ".")
        \/ \E i \in 1 .. 4 : python = PythonFrameworks[i]
    BY <1>2, FirstOfTable
  <2> HIDE DEF node, python
  <2>3. Detect(f) \in {node, python, Entry("", "unknown", NoDir)}
    BY DEF Detect, node, python
  <2> QED BY <2>1, <2>2, <2>3
<1> QED BY <1>1, <1>2, <1>3, <1>4

\* The project's directory is a known one, and the right one when the dialog
\* or the detection recorded it with the framework.
OutputInv ==
  /\ project \in [framework : Frameworks, output : Outputs, env : Environments,
                  run : {"none", "serve"}, preset : BOOLEAN]
  /\ project.preset => Agrees(project.framework, project.output)

LEMMA NextOutput == OutputInv /\ [PlanNext]_planVars => OutputInv'
<1> SUFFICES ASSUME OutputInv, [PlanNext]_planVars PROVE OutputInv'
  OBVIOUS
<1>1. ASSUME NEW f \in Files, PickDirectory(f) PROVE OutputInv'
  <2> DEFINE new == Detect(f).framework
             known == new \in DOMAIN Preset
  <2>1. /\ project'.framework = new /\ project'.preset = known
        /\ project' \in [framework : {new}, output : {project'.output},
                         env : {project.env}, run : {"none", project.run},
                         preset : BOOLEAN]
        /\ project'.output = IF known THEN Preset[new] ELSE project.output
    BY <1>1 DEF PickDirectory
  <2>2. new \in Frameworks
    BY DEF Frameworks
  <2>3. known => Agrees(new, Preset[new])
    BY PresetAgrees
  <2>4. project'.output \in Outputs
    BY <2>1 DEF OutputInv, Outputs
  <2> HIDE DEF new, known
  <2> QED BY <2>1, <2>2, <2>3, <2>4 DEF OutputInv
<1>2. ASSUME NEW env \in Environments, SetVariables(env) PROVE OutputInv'
  BY <1>2 DEF SetVariables, OutputInv
<1>3. CASE UNCHANGED project
  BY <1>3 DEF OutputInv
<1>4. TakePlan \/ BuildImage \/ CreateOrUpdateDeployment \/ CreateOrUpdateService
        \/ TaskEnds \/ PodComes \/ (\E p \in pods : PodRestarts(p) \/ PodRetires(p))
        \/ UNCHANGED planVars => UNCHANGED project
  BY DEF TakePlan, BuildImage, CreateOrUpdateDeployment, CreateOrUpdateService,
     TaskEnds, PodComes, PodRestarts, PodRetires, planVars
<1> QED BY <1>1, <1>2, <1>3, <1>4 DEF PlanNext

\* The directory that the worker serves is the recorded one, for whatever files
\* a repository has (git.service.ts:187-203, types/git.ts:81-104,
\* env.go:128-148).
THEOREM RecordedIsServed == PlanSpec => []ServesItsOutput
<1>1. PlanInit => OutputInv
  <2> SUFFICES ASSUME PlanInit PROVE OutputInv
    OBVIOUS
  <2>1. PICK f \in Files, run \in {"none", "serve"} :
          project = [framework |-> Detect(f).framework,
                     output |-> Detect(f).output,
                     run |-> run, env |-> <<>>, preset |-> TRUE]
    BY DEF PlanInit
  <2>2. << >> \in Environments
    <3>1. << >> \in [{} -> PortValue] /\ {} \in SUBSET {"PORT", "OWN"}
      OBVIOUS
    <3> QED BY <3>1 DEF Environments
  <2>3. Agrees(Detect(f).framework, Detect(f).output)
    BY TablesAgree
  <2> QED BY <2>1, <2>2, <2>3 DEF OutputInv, Frameworks, Outputs
<1>2. OutputInv => ServesItsOutput
  BY DEF OutputInv, ServesItsOutput, Agrees
<1> QED BY <1>1, <1>2, NextOutput, PTL DEF PlanSpec
-----------------------------------------------------------------------------
(* Access. *)

USE AccessAssumption DEF Owner, Install, NoInstall

Kept(v, o) == <<v, o>> \in imported \ disturbed

Harmless(c, v, o) ==
  LET g == callback[c].identity
      i == callback[c].installation
      w == callback[c].user
  IN  /\ callback[c].pc # "idle" /\ g \in Matching(v, o) =>
           i = NoInstall \/ Reads(i, o)
      /\ callback[c].pc = "link" =>
           /\ g \in Matching(v, o) => w = v
           /\ w = v => g \in RowsOf(v) \/ o \in RowsOf(v)
      /\ callback[c].pc = "find" =>
           (account[g].user = Nobody /\ mailOf[g] = v => o \in RowsOf(v))

Undisturbed ==
  \A v \in User, o \in Owner :
    Kept(v, o) => Readable(v, o) /\ \A c \in Callback : Harmless(c, v, o)

\* A callback in flight knows its identity, and its user when it writes; a row
\* without a user has never been written.
Shape ==
  /\ \A c \in Callback :
       /\ callback[c].pc # "idle" => callback[c].identity \in Identity
       /\ callback[c].pc = "link" => callback[c].user \in User
  /\ \A g \in Identity : account[g].user = Nobody => account[g] = Unlinked

Types == AccessTypeOK /\ Shape

-----------------------------------------------------------------------------
(* Types. *)

LEMMA InitAccessTypes == AccessInit => Types
  BY DEF AccessInit, Types, AccessTypeOK, Shape, Unlinked, NoCallback

LEMMA InstallTypes ==
  ASSUME Types, NEW o \in Owner, InstallApp(o)
  PROVE  /\ ownerOf' \in Seq(Owner) /\ Len(ownerOf') = Len(ownerOf) + 1
         /\ DOMAIN ownerOf \subseteq DOMAIN ownerOf'
         /\ \A i \in DOMAIN ownerOf : ownerOf'[i] = ownerOf[i]
  BY DEF Types, AccessTypeOK, InstallApp

\* An installation that a callback takes from GitHub is one of those made.
InstallBound == Len(ownerOf) <= MaxInstall

LEMMA LinkTypes ==
  ASSUME Types, NEW c \in Callback, Link(c)
  PROVE  /\ callback[c].identity \in Identity /\ callback[c].user \in User
         /\ account' \in
              [Identity -> [user : User \cup {Nobody},
                            installation : Install \cup {NoInstall}]]
         /\ account'[callback[c].identity]
              = Upserted(account[callback[c].identity], callback[c].user,
                         callback[c].installation)
         /\ \A g \in Identity \ {callback[c].identity} :
              account'[g] = account[g]
  BY DEF Types, AccessTypeOK, Shape, Link, Upserted

LEMMA NextAccessTypes ==
  ASSUME Types, InstallBound, [AccessNext]_accessVars
  PROVE  Types' /\ InstallBound'
<1>1. ASSUME NEW o \in Owner, InstallApp(o) PROVE Types' /\ InstallBound'
  <2>1. removed' \subseteq DOMAIN ownerOf'
    BY <1>1, InstallTypes DEF InstallApp, Types, AccessTypeOK
  <2>2. InstallBound'
    BY <1>1, InstallTypes DEF InstallApp, InstallBound, Types, AccessTypeOK
  <2> QED BY <1>1, <2>1, <2>2, InstallTypes
          DEF InstallApp, Types, AccessTypeOK, Shape, Unlinked
<1>2. ASSUME NEW i \in Install, RemoveApp(i) PROVE Types' /\ InstallBound'
  BY <1>2 DEF RemoveApp, Live, Types, AccessTypeOK, Shape, Unlinked,
              InstallBound
<1>3. ASSUME NEW c \in Callback, NEW g \in Identity,
             NEW u \in User \cup {Nobody}, ExchangeCode(c, g, u)
      PROVE  Types' /\ InstallBound'
  <2>1. PICK i \in {j \in Live : Sees(g, j)} \cup {NoInstall} :
          callback' = [callback EXCEPT ![c] =
            [pc |-> IF u = Nobody THEN "find" ELSE "link",
             identity |-> g, installation |-> i, user |-> u]]
    BY <1>3 DEF ExchangeCode
  <2>2. i \in Install \cup {NoInstall}
    BY DEF Live, Types, AccessTypeOK, InstallBound
  <2>3. disturbed' \subseteq imported'
    BY <1>3 DEF ExchangeCode, Types, AccessTypeOK
  <2> DEFINE new == [pc |-> IF u = Nobody THEN "find" ELSE "link",
                     identity |-> g, installation |-> i, user |-> u]
  <2>4. /\ new.pc \in {"find", "link"} /\ new.identity = g
        /\ new.pc = "link" => new.user \in User
        /\ new \in [pc : {"idle", "find", "link"},
                    identity : Identity \cup {Nobody},
                    installation : Install \cup {NoInstall},
                    user : User \cup {Nobody}]
    BY <2>2
  <2> HIDE DEF new
  <2>5. /\ UNCHANGED <<ownerOf, removed, account, imported>>
        /\ callback' = [callback EXCEPT ![c] = new]
    BY <1>3, <2>1 DEF ExchangeCode, new
  <2>6. AccessTypeOK' /\ InstallBound'
    BY <2>3, <2>4, <2>5 DEF Types, AccessTypeOK, InstallBound
  <2>7. Shape'
    BY <2>4, <2>5 DEF Types, AccessTypeOK, Shape, Unlinked
  <2> QED BY <2>6, <2>7 DEF Types
<1>4. ASSUME NEW c \in Callback, FindUser(c) PROVE Types' /\ InstallBound'
  <2>1. PICK u : /\ u = IF account[callback[c].identity].user # Nobody
                        THEN account[callback[c].identity].user
                        ELSE mailOf[callback[c].identity]
                 /\ callback' = [callback EXCEPT ![c].pc = "link",
                                                ![c].user = u]
    BY <1>4 DEF FindUser
  <2>2. callback[c].identity \in Identity /\ u \in User
    BY <1>4, <2>1 DEF FindUser, Types, AccessTypeOK, Shape
  <2>3. UNCHANGED <<ownerOf, removed, account, imported, disturbed>>
    BY <1>4 DEF FindUser
  <2> DEFINE new == [callback[c] EXCEPT !.pc = "link", !.user = u]
             InFlight == [pc : {"idle", "find", "link"},
                          identity : Identity \cup {Nobody},
                          installation : Install \cup {NoInstall},
                          user : User \cup {Nobody}]
  <2>4. callback[c] \in InFlight /\ callback \in [Callback -> InFlight]
    BY DEF Types, AccessTypeOK
  <2>5. /\ callback' = [callback EXCEPT ![c] = new] /\ new \in InFlight
        /\ new.identity = callback[c].identity /\ new.user = u
    BY <2>1, <2>2, <2>4
  <2> HIDE DEF new
  <2>6. callback' \in [Callback -> InFlight]
    BY <2>4, <2>5
  <2>7. AccessTypeOK' /\ InstallBound'
    BY <2>3, <2>6 DEF Types, AccessTypeOK, InstallBound
  <2> HIDE DEF InFlight
  <2>8. Shape'
    <3>1. ASSUME NEW d \in Callback
          PROVE  /\ callback'[d].pc # "idle" => callback'[d].identity \in Identity
                 /\ callback'[d].pc = "link" => callback'[d].user \in User
      <4>1. CASE d = c
        <5>1. callback'[d] = new
          BY <2>4, <2>5, <4>1
        <5> QED BY <2>2, <2>5, <5>1
      <4>2. CASE d # c
        BY <2>4, <2>5, <4>2 DEF Types, Shape
      <4> QED BY <4>1, <4>2
    <3>2. \A g \in Identity :
            account'[g].user = Nobody => account'[g] = Unlinked'
      BY <2>3 DEF Types, Shape, Unlinked
    <3> QED BY <3>1, <3>2 DEF Shape
  <2> QED BY <2>7, <2>8 DEF Types
<1>5. ASSUME NEW c \in Callback, Link(c) PROVE Types' /\ InstallBound'
  <2>1. Shape'
    BY <1>5, LinkTypes DEF Link, Types, AccessTypeOK, Shape, Upserted,
                           NoCallback, Unlinked
  <2> QED BY <1>5, <2>1, LinkTypes
          DEF Link, Types, AccessTypeOK, NoCallback, InstallBound
<1>6. ASSUME NEW u \in User, NEW g \in Identity, Import(u, g)
      PROVE  Types' /\ InstallBound'
  <2>1. ownerOf[account[g].installation] \in Owner
    BY <1>6 DEF Import, Live, Types, AccessTypeOK
  <2> QED BY <1>6, <2>1
          DEF Import, Types, AccessTypeOK, Shape, Unlinked, InstallBound
<1>7. CASE UNCHANGED accessVars
  BY <1>7 DEF accessVars, Types, AccessTypeOK, Shape, Unlinked, InstallBound
<1> QED BY <1>1, <1>2, <1>3, <1>4, <1>5, <1>6, <1>7
        DEF AccessNext, CallbackStep

\* The tables, the callbacks' variables and the histories keep their types; a
\* project that was disturbed is one of those imported (auth.service.ts,
\* projects.service.ts).
THEOREM AccessTypeCorrect == AccessSpec => []AccessTypeOK
<1>1. AccessInit => Types /\ InstallBound
  BY InitAccessTypes DEF AccessInit, InstallBound
<1>2. Types => AccessTypeOK
  BY DEF Types
<1> QED BY <1>1, <1>2, NextAccessTypes, PTL DEF AccessSpec

-----------------------------------------------------------------------------
(* A kept project. *)

\* While accounts and callbacks stay as they are and what can be read can
\* still be, so does a kept project.
LEMMA KeepsReading ==
  ASSUME NEW v \in User, NEW o \in Owner, UNCHANGED <<account, callback>>,
         \A i : Reads(i, o) => Reads(i, o)',
         Readable(v, o), \A c \in Callback : Harmless(c, v, o)
  PROVE  Readable(v, o)' /\ \A c \in Callback : Harmless(c, v, o)'
<1>1. RowsOf(v)' = RowsOf(v) /\ Matching(v, o)' = Matching(v, o)
  BY DEF RowsOf, Matching
<1> QED BY <1>1 DEF Readable, Harmless

LEMMA ExchangeKeeps ==
  ASSUME Types, NEW c \in Callback, NEW g \in Identity,
         NEW u \in User \cup {Nobody}, ExchangeCode(c, g, u),
         NEW v \in User, NEW o \in Owner, Kept(v, o)',
         Readable(v, o), \A d \in Callback : Harmless(d, v, o)
  PROVE  Readable(v, o)' /\ \A d \in Callback : Harmless(d, v, o)'
<1>1. PICK i \in {j \in Live : Sees(g, j)} \cup {NoInstall} :
        /\ callback' = [callback EXCEPT ![c] =
             [pc |-> IF u = Nobody THEN "find" ELSE "link",
              identity |-> g, installation |-> i, user |-> u]]
        /\ disturbed' = disturbed \cup {p \in imported : Disturbs(g, u, i, p)}
  BY DEF ExchangeCode
<1>2. UNCHANGED <<account, ownerOf, removed, imported>>
  BY DEF ExchangeCode
<1>3. /\ RowsOf(v)' = RowsOf(v) /\ Matching(v, o)' = Matching(v, o)
      /\ \A j : Reads(j, o)' <=> Reads(j, o)
  BY <1>2 DEF RowsOf, Matching, Reads, Live
<1>4. ~ Disturbs(g, u, i, <<v, o>>)
  BY <1>1, <1>2 DEF Kept
<1>5. /\ g \in Matching(v, o) => u \in {v, Nobody}
      /\ g \in Matching(v, o) => i = NoInstall \/ ownerOf[i] = o
      /\ o \notin RowsOf(v) /\ g \notin RowsOf(v) =>
           u # v /\ ~ (u = Nobody /\ account[g] = Unlinked /\ mailOf[g] = v)
  BY <1>4 DEF Disturbs
<1>6. Harmless(c, v, o)'
  <2>1. callback'[c] = [pc |-> IF u = Nobody THEN "find" ELSE "link",
                        identity |-> g, installation |-> i, user |-> u]
    BY <1>1 DEF Types, AccessTypeOK
  <2>2. g \in Matching(v, o) => i = NoInstall \/ Reads(i, o)
    BY <1>1, <1>5 DEF Reads
  <2>3. account[g].user = Nobody => g \notin RowsOf(v) /\ account[g] = Unlinked
    BY DEF Types, Shape, RowsOf
  <2> QED BY <1>2, <1>3, <1>5, <2>1, <2>2, <2>3 DEF Harmless
<1>7. ASSUME NEW d \in Callback \ {c} PROVE Harmless(d, v, o)'
  <2>1. callback'[d] = callback[d]
    BY <1>1 DEF Types, AccessTypeOK
  <2> QED BY <1>2, <1>3, <2>1 DEF Harmless
<1> QED BY <1>2, <1>3, <1>6, <1>7 DEF Readable

LEMMA FindKeeps ==
  ASSUME Types, NEW c \in Callback, FindUser(c),
         NEW v \in User, NEW o \in Owner,
         Readable(v, o), \A d \in Callback : Harmless(d, v, o)
  PROVE  Readable(v, o)' /\ \A d \in Callback : Harmless(d, v, o)'
<1> DEFINE g == callback[c].identity
           w == IF account[g].user # Nobody THEN account[g].user ELSE mailOf[g]
<1>1. /\ UNCHANGED <<account, ownerOf, removed>>
      /\ callback' = [callback EXCEPT ![c].pc = "link", ![c].user = w]
      /\ callback[c].pc = "find"
  BY DEF FindUser
<1>2. /\ RowsOf(v)' = RowsOf(v) /\ Matching(v, o)' = Matching(v, o)
      /\ \A j : Reads(j, o)' <=> Reads(j, o)
  BY <1>1 DEF RowsOf, Matching, Reads, Live
<1>3. g \in Identity
  BY <1>1 DEF Types, Shape
<1>4. Harmless(c, v, o)'
  <2>1. /\ callback'[c].pc = "link" /\ callback'[c].user = w
        /\ callback'[c].identity = g
        /\ callback'[c].installation = callback[c].installation
    BY <1>1 DEF Types, AccessTypeOK
  <2>2. g \in Matching(v, o) => w = v
    BY DEF Matching, RowsOf
  <2>3. w = v => g \in RowsOf(v) \/ o \in RowsOf(v)
    BY <1>1, <1>3 DEF Harmless, RowsOf
  <2>4. g \in Matching(v, o) =>
          callback[c].installation = NoInstall
            \/ Reads(callback[c].installation, o)
    BY <1>1 DEF Harmless
  <2> HIDE DEF g, w
  <2> QED BY <1>2, <2>1, <2>2, <2>3, <2>4 DEF Harmless
<1>5. ASSUME NEW d \in Callback \ {c} PROVE Harmless(d, v, o)'
  <2>1. callback'[d] = callback[d]
    BY <1>1 DEF Types, AccessTypeOK
  <2> QED BY <1>1, <1>2, <2>1 DEF Harmless
<1> QED BY <1>1, <1>2, <1>4, <1>5 DEF Readable

\* The write of a harmless callback leaves the choice of the row as it was.
LEMMA LinkKeeps ==
  ASSUME Types, NEW c \in Callback, Link(c),
         NEW v \in User, NEW o \in Owner,
         Readable(v, o), \A d \in Callback : Harmless(d, v, o)
  PROVE  Readable(v, o)' /\ \A d \in Callback : Harmless(d, v, o)'
<1> DEFINE g == callback[c].identity
           w == callback[c].user
           i == callback[c].installation
<1>1. /\ g \in Identity /\ w \in User /\ callback[c].pc = "link"
      /\ account'[g] = Upserted(account[g], w, i)
      /\ \A h \in Identity \ {g} : account'[h] = account[h]
  BY LinkTypes DEF Link
<1>2. \A j : Reads(j, o)' <=> Reads(j, o)
  BY DEF Link, Reads, Live
<1>3. /\ g \in Matching(v, o) => w = v /\ (i = NoInstall \/ Reads(i, o))
      /\ w = v => g \in RowsOf(v) \/ o \in RowsOf(v)
  BY <1>1 DEF Harmless
<1>4. account'[g].user = w
      /\ account'[g].installation
           = IF i = NoInstall THEN account[g].installation ELSE i
  BY <1>1 DEF Upserted
<1> HIDE DEF g, w, i
<1>5. /\ o \in RowsOf(v) => o \in RowsOf(v)'
      /\ o \notin RowsOf(v) => RowsOf(v)' = RowsOf(v)
  <2>1. ASSUME o \in RowsOf(v) PROVE o \in RowsOf(v)'
    BY <2>1, <1>1, <1>3, <1>4 DEF RowsOf, Matching
  <2>2. ASSUME o \notin RowsOf(v) PROVE RowsOf(v)' = RowsOf(v)
    <3>1. g \in RowsOf(v) <=> w = v
      BY <2>2, <1>3 DEF Matching
    <3> QED BY <3>1, <1>1, <1>4 DEF RowsOf
  <2> QED BY <2>1, <2>2
<1>6. Matching(v, o)' = Matching(v, o)
  BY <1>5 DEF Matching
<1>7. Readable(v, o)'
  <2>1. ASSUME NEW h \in Matching(v, o)
        PROVE  Reads(account'[h].installation, o)
    <3>1. Reads(account[h].installation, o) /\ h \in Identity
      BY DEF Readable, Matching, RowsOf
    <3> QED BY <3>1, <1>1, <1>3, <1>4
  <2>2. RowsOf(v)' # {}
    BY <1>5 DEF Readable
  <2> QED BY <1>2, <1>6, <2>1, <2>2 DEF Readable
<1>8. ASSUME NEW d \in Callback PROVE Harmless(d, v, o)'
  <2>1. CASE d = c
    <3>1. callback'[c].pc = "idle"
      BY DEF Link, NoCallback, Types, AccessTypeOK
    <3> QED BY <2>1, <3>1 DEF Harmless
  <2>2. CASE d # c
    <3>1. callback'[d] = callback[d]
      BY <2>2 DEF Link, Types, AccessTypeOK
    <3>2. callback[d].pc # "idle" => callback[d].identity \in Identity
      BY DEF Types, Shape
    <3>3. /\ RowsOf(v) \subseteq RowsOf(v)' \/ o \in RowsOf(v)'
          /\ o \in RowsOf(v) => o \in RowsOf(v)'
      BY <1>5
    <3>4. \A h \in Identity :
            account'[h].user = Nobody => account[h].user = Nobody
      BY <1>1, <1>4
    <3> QED BY <1>2, <1>6, <3>1, <3>2, <3>3, <3>4 DEF Harmless
  <2> QED BY <2>1, <2>2
<1> QED BY <1>7, <1>8

-----------------------------------------------------------------------------
LEMMA NextUndisturbed ==
  ASSUME Types, Undisturbed, [AccessNext]_accessVars
  PROVE  Undisturbed'
<1> SUFFICES ASSUME NEW v \in User, NEW o \in Owner, Kept(v, o)'
             PROVE  Readable(v, o)' /\ \A c \in Callback : Harmless(c, v, o)'
  BY DEF Undisturbed
<1>1. ASSUME NEW n \in Owner, InstallApp(n)
      PROVE  Readable(v, o)' /\ \A c \in Callback : Harmless(c, v, o)'
  <2>1. Kept(v, o) /\ UNCHANGED <<account, callback>>
    BY <1>1 DEF InstallApp, Kept
  <2>2. \A i : Reads(i, o) => Reads(i, o)'
    BY <1>1, InstallTypes DEF InstallApp, Reads, Live
  <2> QED BY <2>1, <2>2, KeepsReading DEF Undisturbed
<1>2. ASSUME NEW i \in Install, RemoveApp(i)
      PROVE  Readable(v, o)' /\ \A c \in Callback : Harmless(c, v, o)'
  <2>1. Kept(v, o) /\ UNCHANGED <<account, callback>> /\ ownerOf[i] # o
    BY <1>2 DEF RemoveApp, Kept
  <2>2. \A j : Reads(j, o) => Reads(j, o)'
    BY <1>2, <2>1 DEF RemoveApp, Reads, Live
  <2> QED BY <2>1, <2>2, KeepsReading DEF Undisturbed
<1>3. ASSUME NEW c \in Callback, NEW g \in Identity,
             NEW u \in User \cup {Nobody}, ExchangeCode(c, g, u)
      PROVE  Readable(v, o)' /\ \A d \in Callback : Harmless(d, v, o)'
  <2>1. Kept(v, o)
    BY <1>3 DEF ExchangeCode, Kept
  <2> QED BY <1>3, <2>1, ExchangeKeeps DEF Undisturbed
<1>4. ASSUME NEW c \in Callback, FindUser(c)
      PROVE  Readable(v, o)' /\ \A d \in Callback : Harmless(d, v, o)'
  <2>1. Kept(v, o)
    BY <1>4 DEF FindUser, Kept
  <2> QED BY <1>4, <2>1, FindKeeps DEF Undisturbed
<1>5. ASSUME NEW c \in Callback, Link(c)
      PROVE  Readable(v, o)' /\ \A d \in Callback : Harmless(d, v, o)'
  <2>1. Kept(v, o)
    BY <1>5 DEF Link, Kept
  <2> QED BY <1>5, <2>1, LinkKeeps DEF Undisturbed
<1>6. ASSUME NEW u \in User, NEW g \in Identity, Import(u, g)
      PROVE  Readable(v, o)' /\ \A c \in Callback : Harmless(c, v, o)'
  <2>1. UNCHANGED <<ownerOf, removed, account, callback>>
    BY <1>6 DEF Import
  <2>2. \A i : Reads(i, o) => Reads(i, o)'
    BY <2>1 DEF Reads, Live
  <2>3. Kept(v, o) \/ (Readable(v, o) /\ Quiet)
    BY <1>6 DEF Import, Kept
  <2>4. CASE Kept(v, o)
    BY <2>1, <2>2, <2>4, KeepsReading DEF Undisturbed
  <2>5. CASE Readable(v, o) /\ Quiet
    <3>1. \A c \in Callback : Harmless(c, v, o)
      BY <2>5 DEF Quiet, Harmless
    <3> QED BY <2>1, <2>2, <2>5, <3>1, KeepsReading
  <2> QED BY <2>3, <2>4, <2>5
<1>7. CASE UNCHANGED accessVars
  <2>1. /\ Kept(v, o) /\ UNCHANGED <<account, callback>>
        /\ \A i : Reads(i, o) => Reads(i, o)'
    BY <1>7 DEF accessVars, Kept, Reads, Live
  <2> QED BY <2>1, KeepsReading DEF Undisturbed
<1> QED BY <1>1, <1>2, <1>3, <1>4, <1>5, <1>6, <1>7
        DEF AccessNext, CallbackStep

\* A project that could be built when it was imported can be, whichever of its
\* user's rows is taken, until the App is removed, its row's identity acts
\* under another user or with another owner's installation, or a second row
\* joins those of an organization's project (auth.service.ts:166-190, 213-262,
\* deployments.service.ts:66-68).
THEOREM ProjectsReadableAlways == AccessSpec => []ProjectsStayReadable
<1>1. AccessInit => Types /\ InstallBound /\ Undisturbed
  BY InitAccessTypes DEF AccessInit, InstallBound, Undisturbed, Kept
<1>2. Types /\ Undisturbed => ProjectsStayReadable
  <2> SUFFICES ASSUME Types, Undisturbed, NEW p \in imported \ disturbed
               PROVE  Readable(p[1], p[2])
    BY DEF ProjectsStayReadable
  <2>1. PICK v \in User, o \in Owner : p = <<v, o>>
    BY DEF Types, AccessTypeOK
  <2> QED BY <2>1 DEF Undisturbed, Kept
<1> QED BY <1>1, <1>2, NextAccessTypes, NextUndisturbed, PTL DEF AccessSpec
=============================================================================

-------------------------- MODULE ImageBuildProofs --------------------------
(***************************************************************************)
(* For any number of projects, pushes and deployments and all faults: what *)
(* runs for a project never goes back to an older state of the branch, a   *)
(* pod runs what was built for its row unless the image was built again,   *)
(* the head of the branch runs when all has come to rest, and the          *)
(* directories that are left behind are known.                             *)
(***************************************************************************)
EXTENDS ImageBuild, SequenceTheorems, TLAPS

USE ImageBuildAssumption DEF Commit, BuildRow, None

Row == [project : Repo, commit : Commit, status : RowStatus]

\* What every step does to the table: rows are added at its end, and a row
\* keeps its project and its commit.
RowsGrow ==
  /\ rows' \in Seq(Row) /\ DOMAIN rows \subseteq DOMAIN rows'
  /\ \A d \in DOMAIN rows : /\ rows'[d].project = rows[d].project
                            /\ rows'[d].commit = rows[d].commit

Placed ==
  /\ waiting \in Seq(Nat)
  /\ \A p \in Repo : workload[p].row \in DOMAIN rows \cup {None}
  /\ phase \in {"build", "deploy"} => source \in Commit

Types == ImagesTypeOK /\ Placed

-----------------------------------------------------------------------------
(* The table and the list. *)

LEMMA RowsAreRows ==
  ASSUME Types
  PROVE  /\ rows \in Seq(Row) /\ Len(rows) \in Nat
         /\ DOMAIN rows = 1 .. Len(rows) /\ DOMAIN rows \subseteq BuildRow
         /\ \A d \in DOMAIN rows : rows[d] \in Row
<1>1. rows \in Seq(Row) /\ Len(rows) <= MaxBuild
  BY DEF Types, ImagesTypeOK, Row
<1>2. Len(rows) \in Nat /\ DOMAIN rows = 1 .. Len(rows)
  BY <1>1, LenProperties
<1>3. \A d \in DOMAIN rows : rows[d] \in Row
  BY <1>1, <1>2, ElementOfSeq
<1> QED BY <1>1, <1>2, <1>3

LEMMA SameLength ==
  ASSUME NEW a \in Nat, NEW b \in Nat, 1 .. a = 1 .. b
  PROVE  a = b
<1>1. ASSUME a < b PROVE FALSE
  <2>1. b \in 1 .. b /\ b \notin 1 .. a
    BY <1>1
  <2> QED BY <2>1
<1>2. ASSUME b < a PROVE FALSE
  <2>1. a \in 1 .. a /\ a \notin 1 .. b
    BY <1>2
  <2> QED BY <2>1
<1> QED BY <1>1, <1>2

LEMMA MarkKeeps ==
  ASSUME Types, NEW D, NEW s \in RowStatus
  PROVE  /\ Mark(D, s) \in Seq(Row) /\ Len(Mark(D, s)) = Len(rows)
         /\ DOMAIN Mark(D, s) = DOMAIN rows
         /\ \A d \in DOMAIN rows : /\ Mark(D, s)[d].project = rows[d].project
                                   /\ Mark(D, s)[d].commit = rows[d].commit
<1> DEFINE M == Mark(D, s)
<1>1. Len(rows) \in Nat /\ DOMAIN rows = 1 .. Len(rows)
      /\ \A d \in DOMAIN rows : rows[d] \in Row
  BY RowsAreRows
<1>2. M \in [1 .. Len(rows) -> Row]
  BY <1>1 DEF Mark, Row
<1>3. \A d \in DOMAIN rows : M[d].project = rows[d].project
                             /\ M[d].commit = rows[d].commit
  BY <1>1 DEF Mark, Row
<1>4. M \in Seq(Row)
  BY <1>1, <1>2, SeqDef
<1>5. DOMAIN M = 1 .. Len(M) /\ Len(M) \in Nat
  BY <1>4, LenProperties
<1>6. DOMAIN M = 1 .. Len(rows)
  BY <1>2
<1>7. Len(M) = Len(rows)
  <2> HIDE DEF M
  <2> QED BY <1>1, <1>5, <1>6, SameLength
<1> QED BY <1>1, <1>3, <1>4, <1>6, <1>7

LEMMA MarkGrows ==
  ASSUME Types, NEW D, NEW s \in RowStatus, rows' = Mark(D, s)
  PROVE  RowsGrow /\ DOMAIN rows' = DOMAIN rows /\ Len(rows') = Len(rows)
  BY MarkKeeps DEF RowsGrow

LEMMA NewRowGrows ==
  ASSUME Types, NEW p \in Repo, NEW c \in Commit, NEW old \in Seq(Row),
         Len(old) = Len(rows), NewRow(old, p, c),
         \A d \in DOMAIN rows : /\ old[d].project = rows[d].project
                                /\ old[d].commit = rows[d].commit
  PROVE  /\ RowsGrow /\ Len(rows') <= MaxBuild
         /\ Len(rows) + 1 \in DOMAIN rows' \ DOMAIN rows
         /\ DOMAIN rows' = DOMAIN rows \cup {Len(rows) + 1}
<1> DEFINE new == [project |-> p, commit |-> c, status |-> "QUEUED"]
<1>1. new \in Row /\ rows' = Append(old, new) /\ Len(rows) < MaxBuild
  BY DEF NewRow, Row, RowStatus
<1>2. Len(rows) \in Nat /\ DOMAIN rows = 1 .. Len(rows)
  BY RowsAreRows
<1>3. /\ rows' \in Seq(Row) /\ Len(rows') = Len(rows) + 1
      /\ \A d \in 1 .. Len(old) : rows'[d] = old[d]
  <2> HIDE DEF new
  <2> QED BY <1>1, AppendProperties
<1>4. DOMAIN rows' = 1 .. Len(rows) + 1
  BY <1>3, LenProperties
<1> QED BY <1>1, <1>2, <1>3, <1>4 DEF RowsGrow

\* What BRPOP takes and what it leaves.
LEMMA TakeWaiting ==
  ASSUME waiting \in Seq(Nat), waiting # <<>>
  PROVE  /\ Front(waiting) \in Seq(Nat)
         /\ Len(waiting) \in Nat \ {0}
         /\ Len(Front(waiting)) = Len(waiting) - 1
         /\ \A i \in 1 .. Len(waiting) - 1 : Front(waiting)[i] = waiting[i]
         /\ Last(waiting) = waiting[Len(waiting)]
<1>1. Len(waiting) \in Nat \ {0}
  BY EmptySeq, LenProperties
<1>2. \A i \in 1 .. Len(waiting) : waiting[i] \in Nat
  BY ElementOfSeq
<1> DEFINE n == Len(waiting) - 1
<1>3. n \in Nat /\ 1 \in Int /\ n \in Int /\ \A i \in 1 .. n : waiting[i] \in Nat
  BY <1>1, <1>2
<1>4. /\ SubSeq(waiting, 1, n) \in Seq(Nat)
      /\ Len(SubSeq(waiting, 1, n)) = IF 1 <= n THEN n - 1 + 1 ELSE 0
      /\ \A i \in 1 .. n - 1 + 1 : SubSeq(waiting, 1, n)[i] = waiting[1 + i - 1]
  <2> HIDE DEF n
  <2> QED BY <1>3, SubSeqProperties
<1>5. (IF 1 <= n THEN n - 1 + 1 ELSE 0) = n /\ n - 1 + 1 = n
      /\ \A i \in 1 .. n : 1 + i - 1 = i
  <2> HIDE DEF n
  <2> QED BY <1>3
<1> QED BY <1>1, <1>4, <1>5 DEF Front, Last

LEMMA WaitingSet ==
  ASSUME waiting \in Seq(Nat)
  PROVE  /\ Len(waiting) \in Nat
         /\ ToSet(waiting) = {waiting[i] : i \in 1 .. Len(waiting)}
  BY LenProperties DEF ToSet

-----------------------------------------------------------------------------
(* Types. *)

LEMMA InitTypes == ImagesInit => Types
<1> SUFFICES ASSUME ImagesInit PROVE Types
  OBVIOUS
<1>1. rows \in Seq(Row) /\ Len(rows) = 0 /\ DOMAIN rows = {}
      /\ waiting \in Seq(Nat) /\ ToSet(waiting) = {}
  <2>1. rows = <<>> /\ waiting = <<>>
    BY DEF ImagesInit
  <2> QED BY <2>1, EmptySeq DEF ToSet
<1>2. registry \in [Tag -> Image] /\ running \in [Repo -> Image]
      /\ workload \in [Repo -> [row : BuildRow \cup {None}, pulled : BOOLEAN]]
  BY DEF ImagesInit, NoImage, NoWorkload, Image
<1>3. ImagesTypeOK
  BY <1>1, <1>2 DEF ImagesInit, ImagesTypeOK, Row
<1>4. Placed
  BY <1>1 DEF ImagesInit, Placed, NoWorkload
<1> QED BY <1>3, <1>4 DEF Types

\* The job in hand and its tag.
LEMMA InHand ==
  ASSUME Types, phase # "idle"
  PROVE  current \in DOMAIN rows /\ current \in BuildRow /\ current # None
         /\ rows[current] \in Row
  BY RowsAreRows DEF Types, ImagesTypeOK

LEMMA TagOf ==
  ASSUME Types, NEW d \in DOMAIN rows
  PROVE  ImageName(d) \in Tag
  BY RowsAreRows DEF ImageName, Tag, Row

\* Names stay when the table grows.
LEMMA NamesStay ==
  ASSUME RowsGrow
  PROVE  \A d \in DOMAIN rows : ImageName(d)' = ImageName(d)
  BY DEF RowsGrow, ImageName

\* A step that leaves the table as long as it was, and moves waiting, current,
\* folders, ... as the others say.
LEMMA SameTable ==
  ASSUME Types, RowsGrow, DOMAIN rows' = DOMAIN rows, Len(rows') = Len(rows),
         UNCHANGED <<branchVars, canceled, waiting>>,
         current' \in DOMAIN rows \cup {None},
         phase' \in {"idle", "clone", "build", "deploy"},
         (phase' = "idle") = (current' = None),
         source' \in Commit \cup {None},
         phase' \in {"build", "deploy"} => source' \in Commit,
         folders' \subseteq DOMAIN rows,
         registry' \in [Tag -> Image], running' \in [Repo -> Image],
         workload' \in [Repo -> [row : BuildRow \cup {None},
                                 pulled : BOOLEAN]],
         \A p \in Repo : workload'[p].row \in DOMAIN rows \cup {None},
         spoiled' \cup rebuilt' \subseteq DOMAIN rows
  PROVE  Types'
<1>1. ImagesTypeOK'
  BY DEF Types, ImagesTypeOK, RowsGrow, Row, branchVars
<1>2. Placed'
  BY DEF Types, Placed, branchVars
<1> QED BY <1>1, <1>2 DEF Types

LEMMA SameRows ==
  ASSUME Types, UNCHANGED rows
  PROVE  RowsGrow /\ DOMAIN rows' = DOMAIN rows /\ Len(rows') = Len(rows)
  BY RowsAreRows DEF RowsGrow

LEMMA PushImageTypes ==
  ASSUME Types, PushImage, phase = "build"
  PROVE  registry' \in [Tag -> Image] /\ rebuilt' \subseteq DOMAIN rows
<1>1. current \in DOMAIN rows /\ current \in BuildRow
      /\ ImageName(current) \in Tag /\ source \in Commit
  BY InHand, TagOf DEF Types, Placed
<1> QED BY <1>1 DEF PushImage, Namesakes, Types, ImagesTypeOK, Image

LEMMA ApplyTypes ==
  ASSUME Types, Apply, phase = "deploy"
  PROVE  /\ workload' \in [Repo -> [row : BuildRow \cup {None},
                                     pulled : BOOLEAN]]
         /\ \A p \in Repo : workload'[p].row \in DOMAIN rows \cup {None}
<1>1. current \in DOMAIN rows /\ current \in BuildRow
      /\ rows[current].project \in Repo
  BY InHand DEF Row
<1> QED BY <1>1 DEF Apply, Types, ImagesTypeOK, Placed

LEMMA EndJobTypes ==
  ASSUME Types, NEW s \in RowStatus, EndJob(s)
  PROVE  /\ RowsGrow /\ DOMAIN rows' = DOMAIN rows /\ Len(rows') = Len(rows)
         /\ current' = None /\ phase' = "idle" /\ source' = None
         /\ folders' \subseteq DOMAIN rows
  BY MarkGrows DEF EndJob, Types, ImagesTypeOK

LEMMA WorkerTypes ==
  ASSUME Types,
         Aborted \/ Clone \/ CloneFails \/ Build \/ BuildFails \/ Deploy
           \/ RolloutFails \/ WorkerDies
  PROVE  Types'
<1> USE DEF branchVars, tableVars, workVars, clusterVars
<1>0. /\ {"QUEUED", "BUILDING", "READY", "FAILED", "CANCELED"} = RowStatus
      /\ current \in DOMAIN rows \cup {None}
      /\ folders \subseteq DOMAIN rows /\ spoiled \cup rebuilt \subseteq DOMAIN rows
      /\ registry \in [Tag -> Image] /\ running \in [Repo -> Image]
      /\ workload \in [Repo -> [row : BuildRow \cup {None}, pulled : BOOLEAN]]
      /\ \A p \in Repo : workload[p].row \in DOMAIN rows \cup {None}
      /\ (phase = "idle") = (current = None)
      /\ source \in Commit \cup {None}
      /\ phase \in {"build", "deploy"} => source \in Commit
      /\ head \in Commit
  BY DEF Types, ImagesTypeOK, Placed, RowStatus
<1>1. CASE Aborted
  <2>1. EndJob("CANCELED")
    BY <1>1 DEF Aborted
  <2>2. current \in DOMAIN rows
    BY <1>1 DEF Aborted, Types, ImagesTypeOK
  <2>3. rows[current].project \in Repo
    BY <2>2, RowsAreRows DEF Row
  <2>4. /\ workload' \in [Repo -> [row : BuildRow \cup {None}, pulled : BOOLEAN]]
        /\ \A p \in Repo : workload'[p].row \in DOMAIN rows \cup {None}
        /\ running' \in [Repo -> Image]
    BY <1>0, <1>1, <2>3 DEF Aborted, NoWorkload, NoImage, Image
  <2> QED BY <1>0, <1>1, <2>1, <2>4, EndJobTypes, SameTable DEF Aborted
<1>2. CASE Clone
  <2>1. current \in DOMAIN rows /\ rows' = Mark({current}, "BUILDING")
    BY <1>2, InHand DEF Clone
  <2>2. RowsGrow /\ DOMAIN rows' = DOMAIN rows /\ Len(rows') = Len(rows)
    BY <1>0, <2>1, MarkGrows
  <2>3. phase' = "build" /\ source' = head /\ current' = current
        /\ current # None /\ folders' = folders \cup {current}
    BY <1>0, <1>2 DEF Clone, CheckedOut
  <2> QED BY <1>0, <1>2, <2>1, <2>2, <2>3, SameTable DEF Clone
<1>3. CASE CloneFails
  <2>1. current \in DOMAIN rows /\ rows' = Mark({current}, "FAILED")
    BY <1>3, InHand DEF CloneFails
  <2>2. RowsGrow /\ DOMAIN rows' = DOMAIN rows /\ Len(rows') = Len(rows)
    BY <1>0, <2>1, MarkGrows
  <2> QED BY <1>0, <1>3, <2>1, <2>2, SameTable DEF CloneFails
<1>4. CASE Build
  <2>1. PushImage /\ phase = "build" /\ current # None
    BY <1>0, <1>4 DEF Build
  <2>2. registry' \in [Tag -> Image] /\ rebuilt' \subseteq DOMAIN rows
    BY <2>1, PushImageTypes
  <2> QED BY <1>0, <1>4, <2>1, <2>2, SameRows, SameTable DEF Build
<1>5. CASE BuildFails
  <2>1. registry' \in [Tag -> Image] /\ rebuilt' \subseteq DOMAIN rows
    BY <1>0, <1>5, PushImageTypes DEF BuildFails
  <2>2. EndJob("FAILED")
    BY <1>5 DEF BuildFails
  <2> QED BY <1>0, <1>5, <2>1, <2>2, EndJobTypes, SameTable DEF BuildFails
<1>6. CASE Deploy
  <2>1. EndJob("READY") /\ Apply /\ phase = "deploy"
    BY <1>6 DEF Deploy
  <2> QED BY <1>0, <1>6, <2>1, ApplyTypes, EndJobTypes, SameTable DEF Deploy
<1>7. CASE RolloutFails
  <2>1. EndJob("FAILED") /\ phase = "deploy"
    BY <1>7 DEF RolloutFails
  <2>2. /\ workload' \in [Repo -> [row : BuildRow \cup {None}, pulled : BOOLEAN]]
        /\ \A p \in Repo : workload'[p].row \in DOMAIN rows \cup {None}
    BY <1>0, <1>7, <2>1, ApplyTypes DEF RolloutFails
  <2> QED BY <1>0, <1>7, <2>1, <2>2, EndJobTypes, SameTable DEF RolloutFails
<1>8. CASE WorkerDies
  <2>1. current \in DOMAIN rows
    BY <1>8, InHand DEF WorkerDies
  <2> QED BY <1>0, <1>8, <2>1, SameRows, SameTable DEF WorkerDies
<1> QED BY <1>1, <1>2, <1>3, <1>4, <1>5, <1>6, <1>7, <1>8

\* What a new row does to the types, in whatever state the others are.
LEMMA NewRowTypes ==
  ASSUME Types, NEW p \in Repo, NEW c \in Commit, NEW old \in Seq(Row),
         Len(old) = Len(rows), NewRow(old, p, c),
         \A d \in DOMAIN rows : /\ old[d].project = rows[d].project
                                /\ old[d].commit = rows[d].commit,
         UNCHANGED <<head, workVars, folders, registry, clusterVars, spoiled,
                     rebuilt>>,
         events' \subseteq events, asked' \in [Repo -> Commit \cup {None}],
         canceled' \subseteq DOMAIN rows
  PROVE  Types'
<1> USE DEF workVars, clusterVars
<1>1. /\ RowsGrow /\ Len(rows') <= MaxBuild
      /\ Len(rows) + 1 \in DOMAIN rows' \ DOMAIN rows
      /\ DOMAIN rows' = DOMAIN rows \cup {Len(rows) + 1}
  BY NewRowGrows
<1>2. waiting' = Append(waiting, Len(rows) + 1) /\ waiting \in Seq(Nat)
      /\ Len(rows) + 1 \in Nat
  BY RowsAreRows DEF NewRow, Types, Placed
<1>3. /\ waiting' \in Seq(Nat) /\ Len(waiting') = Len(waiting) + 1
      /\ \A i \in 1 .. Len(waiting) : waiting'[i] = waiting[i]
      /\ waiting'[Len(waiting) + 1] = Len(rows) + 1
  BY <1>2, AppendProperties
<1>4. ToSet(waiting') \subseteq ToSet(waiting) \cup {Len(rows) + 1}
  <2>1. DOMAIN waiting' = 1 .. Len(waiting) + 1
        /\ DOMAIN waiting = 1 .. Len(waiting) /\ Len(waiting) \in Nat
    BY <1>2, <1>3, LenProperties
  <2>2. ASSUME NEW i \in DOMAIN waiting'
        PROVE  waiting'[i] = Len(rows) + 1 \/
               (i \in DOMAIN waiting /\ waiting'[i] = waiting[i])
    <3>1. i = Len(waiting) + 1 \/ i \in 1 .. Len(waiting)
      BY <2>1, <2>2
    <3> QED BY <1>3, <2>1, <3>1
  <2> QED BY <2>2 DEF ToSet
<1>5. ToSet(waiting') = ToSet(waiting)'
  BY DEF ToSet
<1>6. ImagesTypeOK'
  BY <1>1, <1>4, <1>5 DEF Types, ImagesTypeOK, RowsGrow, Row
<1>7. Placed'
  BY <1>1, <1>3 DEF Types, Placed
<1> QED BY <1>6, <1>7 DEF Types

LEMMA BranchTypes ==
  ASSUME Types,
         \/ Push
         \/ \E p \in Repo : GetLatestCommit(p) \/ CreateRow(p) \/ PodStarts(p)
         \/ \E c \in Commit, p \in Repo : PushEvent(c, p)
  PROVE  Types'
<1> USE DEF branchVars, tableVars, workVars, clusterVars
<1>1. CASE Push
  <2>1. head' = head + 1 /\ head' \in Commit
        /\ events' \subseteq Commit \X AutoDeploy
    BY <1>1 DEF Push, Types, ImagesTypeOK
  <2>2. UNCHANGED <<asked, rows, canceled, waiting, current, phase, source,
                    folders, registry, workload, running, spoiled, rebuilt>>
    BY <1>1 DEF Push
  <2>3. ImagesTypeOK'
    BY <2>1, <2>2 DEF Types, ImagesTypeOK
  <2> QED BY <2>2, <2>3 DEF Types, Placed
<1>2. ASSUME NEW p \in Repo, GetLatestCommit(p) PROVE Types'
  <2>1. asked' \in [Repo -> Commit \cup {None}]
    BY <1>2 DEF GetLatestCommit, Types, ImagesTypeOK
  <2>2. UNCHANGED <<head, events, rows, canceled, waiting, current, phase,
                    source, folders, registry, workload, running, spoiled,
                    rebuilt>>
    BY <1>2 DEF GetLatestCommit
  <2>3. ImagesTypeOK'
    BY <2>1, <2>2 DEF Types, ImagesTypeOK
  <2> QED BY <2>2, <2>3 DEF Types, Placed
<1>3. ASSUME NEW p \in Repo, CreateRow(p) PROVE Types'
  <2>1. asked[p] \in Commit /\ asked' \in [Repo -> Commit \cup {None}]
        /\ events' \subseteq events /\ canceled' \subseteq DOMAIN rows
    BY <1>3 DEF CreateRow, Types, ImagesTypeOK
  <2>2. rows \in Seq(Row)
    BY RowsAreRows
  <2> QED BY <1>3, <2>1, <2>2, NewRowTypes DEF CreateRow
<1>4. ASSUME NEW p \in Repo, PodStarts(p) PROVE Types'
  <2>1. workload[p].row \in DOMAIN rows
    BY <1>4 DEF PodStarts, Types, Placed
  <2>2. registry[ImageName(workload[p].row)] \in Image
    BY <2>1, TagOf DEF Types, ImagesTypeOK
  <2>3. /\ running' \in [Repo -> Image]
        /\ workload' \in [Repo -> [row : BuildRow \cup {None}, pulled : BOOLEAN]]
        /\ \A q \in Repo : workload'[q].row = workload[q].row
    <3> DEFINE Load == [row : BuildRow \cup {None}, pulled : BOOLEAN]
    <3>1. workload \in [Repo -> Load] /\ running \in [Repo -> Image]
      BY DEF Types, ImagesTypeOK
    <3>2. /\ running' = [running EXCEPT ![p] =
                           registry[ImageName(workload[p].row)]]
          /\ workload' = [workload EXCEPT ![p].pulled = TRUE]
      BY <1>4 DEF PodStarts
    <3>3. [workload[p] EXCEPT !.pulled = TRUE] \in Load
          /\ [workload[p] EXCEPT !.pulled = TRUE].row = workload[p].row
      BY <3>1
    <3>4. workload' = [workload EXCEPT ![p] = [workload[p] EXCEPT !.pulled = TRUE]]
      BY <3>1, <3>2
    <3> HIDE DEF Load
    <3>5. workload' \in [Repo -> Load]
      BY <3>1, <3>3, <3>4
    <3>6. \A q \in Repo : workload'[q].row = workload[q].row
      BY <3>1, <3>3, <3>4
    <3>7. running' \in [Repo -> Image]
      BY <2>2, <3>1, <3>2
    <3> QED BY <3>5, <3>6, <3>7 DEF Load
  <2>4. UNCHANGED <<head, events, asked, rows, canceled, waiting, current,
                    phase, source, folders, registry, spoiled, rebuilt>>
    BY <1>4 DEF PodStarts
  <2>5. ImagesTypeOK'
    BY <2>3, <2>4 DEF Types, ImagesTypeOK
  <2> QED BY <2>3, <2>4, <2>5 DEF Types, Placed
<1>5. ASSUME NEW c \in Commit, NEW p \in Repo, PushEvent(c, p) PROVE Types'
  <2> DEFINE ongoing == Ongoing(Latest(p, InProgress \cup {"READY"}))
             old == Mark(ongoing, "CANCELED")
  <2>1. /\ NewRow(old, p, c) /\ canceled' = canceled \cup ongoing
        /\ events' \subseteq events
        /\ UNCHANGED <<head, asked, workVars, folders, registry, clusterVars,
                       spoiled, rebuilt>>
    BY <1>5 DEF PushEvent
  <2>2. ongoing \subseteq DOMAIN rows
    BY DEF Ongoing, Latest
  <2>3. /\ old \in Seq(Row) /\ Len(old) = Len(rows)
        /\ \A d \in DOMAIN rows : /\ old[d].project = rows[d].project
                                  /\ old[d].commit = rows[d].commit
    BY MarkKeeps DEF RowStatus
  <2>4. asked' \in [Repo -> Commit \cup {None}] /\ canceled' \subseteq DOMAIN rows
    BY <2>1, <2>2 DEF Types, ImagesTypeOK
  <2> HIDE DEF ongoing, old
  <2> QED BY <2>1, <2>3, <2>4, NewRowTypes
<1> QED BY <1>1, <1>2, <1>3, <1>4, <1>5

LEMMA TakeTypes ==
  ASSUME Types, WaitForJob
  PROVE  Types'
<1> USE DEF branchVars, clusterVars
<1>1. /\ waiting # <<>> /\ waiting \in Seq(Nat)
      /\ waiting' = Front(waiting) /\ current' = Last(waiting)
      /\ phase' = "clone"
      /\ UNCHANGED <<head, events, asked, rows, canceled, source, folders,
                     registry, workload, running, spoiled, rebuilt>>
  BY DEF WaitForJob, Types, Placed
<1>2. /\ waiting' \in Seq(Nat) /\ Len(waiting) \in Nat \ {0}
      /\ Len(waiting') = Len(waiting) - 1
      /\ \A i \in 1 .. Len(waiting) - 1 : waiting'[i] = waiting[i]
      /\ current' = waiting[Len(waiting)]
  BY <1>1, TakeWaiting
<1>3. DOMAIN waiting' = 1 .. Len(waiting) - 1
      /\ DOMAIN waiting = 1 .. Len(waiting)
  BY <1>1, <1>2, LenProperties
<1>4. ToSet(waiting)' \subseteq ToSet(waiting) /\ current' \in ToSet(waiting)
  <2>1. ASSUME NEW i \in DOMAIN waiting'
        PROVE  i \in DOMAIN waiting /\ waiting'[i] = waiting[i]
    BY <1>2, <1>3, <2>1
  <2>2. Len(waiting) \in DOMAIN waiting
    BY <1>2, <1>3
  <2> QED BY <1>2, <2>1, <2>2 DEF ToSet
<1>5. current' \in DOMAIN rows /\ current' # None
  BY <1>4, RowsAreRows DEF Types, ImagesTypeOK
<1>6. ImagesTypeOK'
  BY <1>1, <1>4, <1>5 DEF Types, ImagesTypeOK
<1> QED BY <1>1, <1>2, <1>6 DEF Types, Placed

LEMMA NextTypes == Types /\ [ImagesNext]_imageVars => Types'
<1> SUFFICES ASSUME Types, [ImagesNext]_imageVars PROVE Types'
  OBVIOUS
<1>1. CASE UNCHANGED imageVars
  BY <1>1
  DEF imageVars, branchVars, tableVars, workVars, clusterVars, Types,
      ImagesTypeOK, Placed
<1> QED BY <1>1, WorkerTypes, BranchTypes, TakeTypes DEF ImagesNext

\* Type correctness: a list of rows that exist, a job exactly while the worker
\* is busy, images under the tags there are.
THEOREM ImagesTypeCorrect == ImagesSpec => []ImagesTypeOK
<1>1. Types => ImagesTypeOK
  BY DEF Types
<1> QED BY <1>1, InitTypes, NextTypes, PTL DEF ImagesSpec

-----------------------------------------------------------------------------
(* Directories. *)

LEMMA NextFolders ==
  Types /\ FoldersAreKnown /\ [ImagesNext]_imageVars => FoldersAreKnown'
<1> SUFFICES ASSUME Types, FoldersAreKnown, [ImagesNext]_imageVars
             PROVE  FoldersAreKnown'
  OBVIOUS
<1> USE DEF branchVars, tableVars, workVars, clusterVars
<1>1. CASE WaitForJob
  <2>1. current = None
    BY <1>1 DEF WaitForJob, Types, ImagesTypeOK
  <2>2. None \notin folders
    BY RowsAreRows DEF Types, ImagesTypeOK
  <2>3. folders \subseteq spoiled
    BY <2>1, <2>2 DEF FoldersAreKnown
  <2> QED BY <1>1, <2>3 DEF WaitForJob, FoldersAreKnown
<1>2. CASE Aborted \/ BuildFails \/ Deploy \/ RolloutFails
  <2>1. folders' = folders \ {current} /\ spoiled' = spoiled
    BY <1>2 DEF Aborted, BuildFails, Deploy, RolloutFails, EndJob
  <2> QED BY <2>1 DEF FoldersAreKnown
<1>3. CASE Clone \/ CloneFails \/ WorkerDies
  BY <1>3 DEF Clone, CloneFails, WorkerDies, FoldersAreKnown
<1>4. CASE Build \/ Push
  BY <1>4 DEF Build, Push, FoldersAreKnown
<1>5. ASSUME NEW p \in Repo, GetLatestCommit(p) \/ CreateRow(p) \/ PodStarts(p)
      PROVE  FoldersAreKnown'
  BY <1>5 DEF GetLatestCommit, CreateRow, PodStarts, FoldersAreKnown
<1>6. ASSUME NEW c \in Commit, NEW p \in Repo, PushEvent(c, p)
      PROVE  FoldersAreKnown'
  BY <1>6 DEF PushEvent, FoldersAreKnown
<1>7. CASE UNCHANGED imageVars
  BY <1>7 DEF imageVars, FoldersAreKnown
<1> QED BY <1>1, <1>2, <1>3, <1>4, <1>5, <1>6, <1>7 DEF ImagesNext

\* The workspace keeps a directory only of the job in hand and of jobs whose
\* clone failed or whose worker died (clone.go:66-129, worker.go:319).
THEOREM FoldersStayKnown == ImagesSpec => []FoldersAreKnown
<1>1. ImagesInit => FoldersAreKnown
  BY DEF ImagesInit, FoldersAreKnown
<1> QED BY <1>1, InitTypes, NextTypes, NextFolders, PTL DEF ImagesSpec

-----------------------------------------------------------------------------
(* Order: jobs are built one after the other, each from the head. *)

LEMMA StepGrows ==
  ASSUME Types, [ImagesNext]_imageVars
  PROVE  RowsGrow
<1> USE DEF branchVars, tableVars, workVars, clusterVars
<1>0. /\ {"QUEUED", "BUILDING", "READY", "FAILED", "CANCELED"} = RowStatus
      /\ rows \in Seq(Row)
  BY RowsAreRows DEF RowStatus
<1>1. CASE UNCHANGED rows
  BY <1>0, <1>1 DEF RowsGrow
<1>2. ASSUME NEW D, NEW st \in RowStatus, rows' = Mark(D, st) PROVE RowsGrow
  BY <1>2, MarkGrows
<1>3. ASSUME NEW p \in Repo, CreateRow(p) PROVE RowsGrow
  <2>1. asked[p] \in Commit /\ NewRow(rows, p, asked[p])
    BY <1>3 DEF CreateRow, Types, ImagesTypeOK
  <2> QED BY <1>0, <2>1, NewRowGrows
<1>4. ASSUME NEW c \in Commit, NEW p \in Repo, PushEvent(c, p) PROVE RowsGrow
  <2> DEFINE old == Mark(Ongoing(Latest(p, InProgress \cup {"READY"})), "CANCELED")
  <2>1. NewRow(old, p, c)
    BY <1>4 DEF PushEvent
  <2>2. /\ old \in Seq(Row) /\ Len(old) = Len(rows)
        /\ \A d \in DOMAIN rows : /\ old[d].project = rows[d].project
                                  /\ old[d].commit = rows[d].commit
    BY MarkKeeps DEF RowStatus
  <2> HIDE DEF old
  <2> QED BY <2>1, <2>2, NewRowGrows
<1>5. CASE Aborted \/ Clone \/ CloneFails \/ BuildFails \/ Deploy \/ RolloutFails
  <2>1. \E st \in RowStatus : rows' = Mark({current}, st)
    BY <1>0, <1>5
    DEF Aborted, Clone, CloneFails, BuildFails, Deploy, RolloutFails, EndJob
  <2> QED BY <1>2, <2>1
<1>6. \/ Push \/ WaitForJob \/ Build \/ WorkerDies \/ UNCHANGED imageVars
      \/ \E p \in Repo : GetLatestCommit(p) \/ PodStarts(p)
      => UNCHANGED rows
  BY DEF Push, WaitForJob, Build, WorkerDies, GetLatestCommit, PodStarts,
         imageVars
<1> QED BY <1>1, <1>3, <1>4, <1>5, <1>6 DEF ImagesNext

\* The image of a row, and its commit.
Built(d) == registry[ImageName(d)]

Ordered ==
  /\ \A t \in Tag : registry[t].commit <= head
  /\ \A p \in Repo : running[p].commit <= head
  /\ phase \in {"build", "deploy"} =>
       /\ source <= head
       /\ \A t \in Tag : registry[t].commit <= source
       /\ \A p \in Repo : running[p].commit <= source
  /\ phase = "deploy" => Built(current).commit = source
  /\ \A p \in Repo : workload[p].row # None =>
                       running[p].commit <= Built(workload[p].row).commit

LEMMA CommitsAreNumbers ==
  ASSUME Types
  PROVE  /\ head \in Nat /\ head >= 1
         /\ \A t \in Tag : registry[t] \in Image /\ registry[t].commit \in Nat
         /\ \A p \in Repo : running[p] \in Image /\ running[p].commit \in Nat
         /\ source \in Nat
  BY DEF Types, ImagesTypeOK, Image

LEMMA InitOrdered == ImagesInit => Ordered
  BY DEF ImagesInit, Ordered, NoImage, NoWorkload

\* Steps that build nothing and start nothing.
LEMMA OrderStays ==
  ASSUME Types, Ordered, RowsGrow, head' \in {head, head + 1},
         UNCHANGED registry,
         \/ phase' \notin {"build", "deploy"}
         \/ UNCHANGED <<phase, source, current>>,
         \A p \in Repo : /\ running'[p] \in {running[p], NoImage}
                         /\ workload'[p].row \in {workload[p].row, None}
  PROVE  Ordered'
<1>1. /\ head \in Nat
      /\ \A t \in Tag : registry[t].commit \in Nat
      /\ \A p \in Repo : running[p].commit \in Nat
      /\ source \in Nat /\ NoImage.commit = 0
  BY CommitsAreNumbers DEF NoImage
<1>2. /\ \A t \in Tag : registry'[t].commit <= head'
      /\ \A p \in Repo : running'[p].commit <= head'
  BY <1>1 DEF Ordered
<1>3. ASSUME phase' \in {"build", "deploy"}
      PROVE  /\ source' <= head'
             /\ \A t \in Tag : registry'[t].commit <= source'
             /\ \A p \in Repo : running'[p].commit <= source'
  BY <1>1, <1>3 DEF Ordered
<1>4. \A d \in DOMAIN rows : Built(d)' = Built(d)
  BY DEF Built, ImageName, RowsGrow
<1>5. ASSUME phase' = "deploy" PROVE Built(current)'.commit = source'
  <2>1. current \in DOMAIN rows /\ Built(current).commit = source
        /\ UNCHANGED <<source, current>>
    BY <1>5, InHand DEF Ordered
  <2> QED BY <2>1 DEF Built, ImageName, RowsGrow
<1>6. ASSUME NEW p \in Repo, workload'[p].row # None
      PROVE  running'[p].commit <= Built(workload[p].row)'.commit
  <2>1. workload'[p].row = workload[p].row /\ workload[p].row \in DOMAIN rows
    BY <1>6 DEF Types, Placed
  <2>2. Built(workload[p].row)' = Built(workload[p].row)
    BY <2>1 DEF Built, ImageName, RowsGrow
  <2>3. Built(workload[p].row).commit \in Nat
    BY <1>1, <2>1, TagOf DEF Built
  <2> QED BY <1>1, <1>6, <2>1, <2>2, <2>3 DEF Ordered
<1> QED BY <1>2, <1>3, <1>5, <1>6 DEF Ordered

\* The image is pushed: what has its name is not older than it was.
LEMMA PushOrdered ==
  ASSUME Types, Ordered, RowsGrow, PushImage, phase = "build",
         UNCHANGED <<head, running, workload>>,
         \/ phase' = "deploy" /\ UNCHANGED <<source, current>>
         \/ phase' = "idle"
  PROVE  Ordered'
<1>1. /\ current \in DOMAIN rows /\ ImageName(current) \in Tag
      /\ source \in Nat /\ source <= head /\ head \in Nat
      /\ \A t \in Tag : registry[t].commit \in Nat /\ registry[t].commit <= source
      /\ \A p \in Repo : running[p].commit \in Nat /\ running[p].commit <= source
  BY InHand, TagOf, CommitsAreNumbers DEF Ordered
<1>2. registry' = [registry EXCEPT ![ImageName(current)] =
                     [row |-> current, commit |-> source]]
      /\ registry \in [Tag -> Image]
  BY DEF PushImage, Types, ImagesTypeOK
<1>3. /\ registry'[ImageName(current)].commit = source
      /\ \A t \in Tag : /\ registry[t].commit <= registry'[t].commit
                        /\ registry'[t].commit <= source
                        /\ registry'[t].commit \in Nat
  BY <1>1, <1>2
<1>4. \A t \in Tag : registry'[t].commit <= head'
  BY <1>1, <1>3
<1>5. phase' = "deploy" => Built(current)'.commit = source'
  BY <1>1, <1>3 DEF Built, ImageName, RowsGrow
<1>6. ASSUME NEW p \in Repo, workload'[p].row # None
      PROVE  running'[p].commit <= Built(workload[p].row)'.commit
  <2>1. workload[p].row \in DOMAIN rows
    BY <1>6 DEF Types, Placed
  <2>2. Built(workload[p].row)' = registry'[ImageName(workload[p].row)]
    BY <2>1 DEF Built, ImageName, RowsGrow
  <2>3. ImageName(workload[p].row) \in Tag
    BY <2>1, TagOf
  <2>4. running[p].commit <= registry[ImageName(workload[p].row)].commit
    BY <1>6 DEF Ordered, Built
  <2> QED BY <1>1, <1>3, <2>2, <2>3, <2>4
<1> QED BY <1>1, <1>3, <1>4, <1>5, <1>6 DEF Ordered

\* The workload is written: its image is the newest there is.
LEMMA ApplyOrdered ==
  ASSUME Types, Ordered, RowsGrow, Apply, phase = "deploy", phase' = "idle",
         UNCHANGED <<head, running, registry>>
  PROVE  Ordered'
<1>1. /\ current \in DOMAIN rows /\ rows[current].project \in Repo
      /\ Built(current).commit = source
      /\ \A p \in Repo : running[p].commit <= source
  BY InHand DEF Ordered, Row
<1>2. ASSUME NEW p \in Repo, workload'[p].row # None
      PROVE  running'[p].commit <= Built(workload[p].row)'.commit
  <2>1. CASE p = rows[current].project
    <3>1. workload'[p].row = current
      BY <1>1, <2>1 DEF Apply, Types, ImagesTypeOK
    <3>2. Built(workload[p].row)' = Built(current)
      BY <1>1, <3>1 DEF Built, ImageName, RowsGrow
    <3> QED BY <1>1, <3>2
  <2>2. CASE p # rows[current].project
    <3>1. workload'[p].row = workload[p].row /\ workload[p].row \in DOMAIN rows
      BY <1>2, <2>2 DEF Apply, Types, ImagesTypeOK, Placed
    <3>2. Built(workload[p].row)' = Built(workload[p].row)
      BY <3>1 DEF Built, ImageName, RowsGrow
    <3> QED BY <1>2, <3>1, <3>2 DEF Ordered
  <2> QED BY <2>1, <2>2
<1> QED BY <1>2 DEF Ordered

LEMMA PodOrdered ==
  ASSUME Types, Ordered, RowsGrow, NEW p \in Repo, PodStarts(p)
  PROVE  /\ Ordered' /\ running[p].commit <= running'[p].commit
         /\ \A q \in Repo \ {p} : running'[q] = running[q]
<1> USE DEF branchVars, tableVars, workVars
<1>1. /\ workload[p].row \in DOMAIN rows /\ workload[p].row # None
      /\ ImageName(workload[p].row) \in Tag
  BY TagOf DEF PodStarts, Types, Placed
<1>2. /\ running' = [running EXCEPT ![p] = Built(workload[p].row)]
      /\ \A q \in Repo : workload'[q].row = workload[q].row
      /\ UNCHANGED <<head, rows, phase, source, current, registry>>
  BY DEF PodStarts, Built, Types, ImagesTypeOK
<1>3. running'[p] = Built(workload[p].row)
      /\ \A q \in Repo \ {p} : running'[q] = running[q]
  BY <1>2 DEF Types, ImagesTypeOK
<1>4. running[p].commit <= Built(workload[p].row).commit
  BY <1>1 DEF Ordered
<1>5. /\ Built(workload[p].row).commit <= head
      /\ phase \in {"build", "deploy"} =>
           Built(workload[p].row).commit <= source
  BY <1>1 DEF Ordered, Built
<1>6. \A q \in Repo : /\ running'[q].commit <= head
                      /\ phase \in {"build", "deploy"} =>
                           running'[q].commit <= source
  BY <1>3, <1>5 DEF Ordered
<1>7. ASSUME NEW q \in Repo, workload'[q].row # None
      PROVE  running'[q].commit <= Built(workload[q].row)'.commit
  <2>1. Built(workload[q].row)' = Built(workload[q].row)
    BY <1>2 DEF Built, ImageName
  <2>2. CASE q = p
    <3>1. Built(workload[p].row).commit \in Nat
      BY <1>1, CommitsAreNumbers DEF Built
    <3> QED BY <1>3, <2>1, <2>2, <3>1
  <2>3. CASE q # p
    BY <1>2, <1>3, <1>7, <2>1, <2>3 DEF Ordered
  <2> QED BY <2>2, <2>3
<1>8. phase' = "deploy" => Built(current)'.commit = source'
  BY <1>2 DEF Ordered, Built, ImageName
<1>9. /\ \A t \in Tag : registry'[t].commit <= head'
      /\ phase' \in {"build", "deploy"} =>
           source' <= head' /\ \A t \in Tag : registry'[t].commit <= source'
  BY <1>2 DEF Ordered
<1>10. ASSUME NEW q \in Repo
       PROVE  /\ running'[q].commit <= head'
              /\ phase' \in {"build", "deploy"} => running'[q].commit <= source'
  <2>1. head' = head /\ phase' = phase /\ source' = source
    BY <1>2
  <2> QED BY <1>6, <2>1
<1>11. Ordered'
  BY <1>7, <1>8, <1>9, <1>10 DEF Ordered
<1> QED BY <1>3, <1>4, <1>11

LEMMA NextOrdered ==
  ASSUME Types, Ordered, [ImagesNext]_imageVars
  PROVE  /\ Ordered'
         /\ \A p \in Repo : \/ running'[p] = NoImage
                            \/ running[p].commit <= running'[p].commit
<1> USE DEF branchVars, tableVars, workVars, clusterVars
<1>0. RowsGrow /\ \A p \in Repo : running[p].commit \in Nat
  BY StepGrows, CommitsAreNumbers
<1>1. CASE Push \/ WaitForJob \/ CloneFails \/ WorkerDies
           \/ (\E p \in Repo : GetLatestCommit(p) \/ CreateRow(p))
           \/ (\E c \in Commit, p \in Repo : PushEvent(c, p))
           \/ UNCHANGED imageVars
  <2>1. /\ head' \in {head, head + 1} /\ UNCHANGED <<registry, running, workload>>
        /\ phase' \notin {"build", "deploy"} \/ UNCHANGED <<phase, source, current>>
    BY <1>1 DEF Push, WaitForJob, CloneFails, WorkerDies, GetLatestCommit,
                CreateRow, PushEvent, imageVars
  <2> QED BY <1>0, <2>1, OrderStays
<1>2. CASE Aborted
  <2>1. UNCHANGED <<head, registry>> /\ phase' = "idle"
    BY <1>2 DEF Aborted, EndJob
  <2>2. \A p \in Repo : /\ running'[p] \in {running[p], NoImage}
                        /\ workload'[p].row \in {workload[p].row, None}
    BY <1>2 DEF Aborted, NoWorkload, Types, ImagesTypeOK
  <2> QED BY <1>0, <2>1, <2>2, OrderStays
<1>3. CASE Clone
  <2>1. /\ UNCHANGED <<head, registry, running, workload, current>>
        /\ source' = head /\ phase' = "build"
    BY <1>3 DEF Clone, CheckedOut
  <2>2. ASSUME NEW p \in Repo, workload'[p].row # None
        PROVE  running'[p].commit <= Built(workload[p].row)'.commit
    <3>1. workload[p].row \in DOMAIN rows
      BY <2>1, <2>2 DEF Types, Placed
    <3>2. Built(workload[p].row)' = Built(workload[p].row)
      BY <1>0, <2>1, <3>1 DEF Built, ImageName, RowsGrow
    <3> QED BY <2>1, <2>2, <3>2 DEF Ordered
  <2>3. head <= head
    BY CommitsAreNumbers
  <2>4. Ordered'
    BY <2>1, <2>2, <2>3 DEF Ordered
  <2> QED BY <1>0, <2>1, <2>4
<1>4. CASE Build
  <2>1. Ordered'
    BY <1>0, <1>4, PushOrdered DEF Build
  <2> QED BY <1>0, <1>4, <2>1 DEF Build
<1>5. CASE BuildFails
  <2>1. phase = "build" /\ phase' = "idle" /\ UNCHANGED <<head, running, workload>>
        /\ (PushImage \/ UNCHANGED registry)
    BY <1>5 DEF BuildFails, EndJob
  <2>2. Ordered'
    BY <1>0, <2>1, PushOrdered, OrderStays
  <2> QED BY <1>0, <2>1, <2>2
<1>6. CASE Deploy \/ RolloutFails
  <2>1. phase = "deploy" /\ phase' = "idle" /\ UNCHANGED <<head, running, registry>>
        /\ (Apply \/ UNCHANGED workload)
    BY <1>6 DEF Deploy, RolloutFails, EndJob
  <2>2. Ordered'
    BY <1>0, <2>1, ApplyOrdered, OrderStays
  <2> QED BY <1>0, <2>1, <2>2
<1>7. ASSUME NEW p \in Repo, PodStarts(p)
      PROVE  /\ Ordered'
             /\ \A q \in Repo : running[q].commit <= running'[q].commit
  BY <1>0, <1>7, PodOrdered
<1> QED BY <1>1, <1>2, <1>3, <1>4, <1>5, <1>6, <1>7 DEF ImagesNext

LEMMA OrderedAlways == ImagesSpec => [](Types /\ Ordered)
<1>1. Types /\ Ordered /\ [ImagesNext]_imageVars => Ordered'
  BY NextOrdered
<1> QED BY <1>1, InitTypes, NextTypes, InitOrdered, PTL DEF ImagesSpec

\* The newest job is built first and an older one is deployed over it: what
\* runs never goes back all the same (queue.go:65, clone.go:86-147).
THEOREM RunningGoesForward == ImagesSpec => NeverGoesBack
<1> DEFINE Forward ==
      \A p \in Repo : running[p] # NoImage /\ running'[p] # NoImage =>
                      running[p].commit <= running'[p].commit
<1>1. Types /\ Ordered /\ [ImagesNext]_imageVars => [Forward]_imageVars
  BY NextOrdered
<1> QED BY <1>1, OrderedAlways, PTL DEF ImagesSpec, NeverGoesBack

-----------------------------------------------------------------------------
(* Builds: a row is built and deployed once. *)

\* A job is in the list once, and neither in hand nor deployed.
Fresh ==
  /\ \A i, j \in 1 .. Len(waiting) : waiting[i] = waiting[j] => i = j
  /\ \A i \in 1 .. Len(waiting) :
       /\ waiting[i] # current /\ waiting[i] \in DOMAIN rows
       /\ \A p \in Repo : workload[p].row # waiting[i]
  /\ current # None => \A p \in Repo : workload[p].row # current

\* The image of a deployed row is its own, or was built again.
Tagged ==
  /\ phase = "deploy" => Built(current).row = current
  /\ \A p \in Repo : LET d == workload[p].row
                     IN  d # None => Built(d).row = d \/ d \in rebuilt

LEMMA InitFresh == ImagesInit => Fresh /\ Tagged /\ RunsItsBuild
<1> SUFFICES ASSUME ImagesInit PROVE Fresh /\ Tagged /\ RunsItsBuild
  OBVIOUS
<1>1. Len(waiting) = 0
  BY EmptySeq DEF ImagesInit
<1> QED BY <1>1 DEF ImagesInit, Fresh, Tagged, RunsItsBuild, NoWorkload

\* The list stays and the job in hand is deployed at most.
LEMMA SameListFresh ==
  ASSUME Types, Fresh, RowsGrow, UNCHANGED waiting,
         current' \in {current, None},
         \A p \in Repo :
           \/ workload'[p].row \in {workload[p].row, None}
           \/ workload'[p].row = current /\ current' = None
  PROVE  Fresh'
<1>1. None \notin DOMAIN rows
  BY RowsAreRows
<1>2. ASSUME NEW i \in 1 .. Len(waiting)
      PROVE  /\ waiting[i] # current' /\ waiting[i] \in DOMAIN rows'
             /\ \A p \in Repo : workload'[p].row # waiting[i]
  <2>1. /\ waiting[i] # current /\ waiting[i] \in DOMAIN rows
        /\ \A p \in Repo : workload[p].row # waiting[i]
    BY <1>2 DEF Fresh
  <2> QED BY <1>1, <2>1 DEF RowsGrow
<1>3. ASSUME current' # None, NEW p \in Repo
      PROVE  workload'[p].row # current'
  BY <1>3 DEF Fresh
<1> QED BY <1>2, <1>3 DEF Fresh

LEMMA TakeFresh ==
  ASSUME Types, Fresh, WaitForJob
  PROVE  Fresh'
<1>1. /\ UNCHANGED <<rows, workload>> /\ waiting # <<>>
      /\ waiting' = Front(waiting) /\ current' = Last(waiting)
  BY DEF WaitForJob, clusterVars
<1>2. /\ Len(waiting) \in Nat \ {0} /\ Len(waiting') = Len(waiting) - 1
      /\ \A i \in 1 .. Len(waiting) - 1 : waiting'[i] = waiting[i]
      /\ current' = waiting[Len(waiting)]
  BY <1>1, TakeWaiting DEF Types, Placed
<1>3. /\ \A i \in 1 .. Len(waiting') : i \in 1 .. Len(waiting) /\ i # Len(waiting)
      /\ Len(waiting) \in 1 .. Len(waiting)
  BY <1>2
<1>4. \A i \in 1 .. Len(waiting') : waiting'[i] = waiting[i]
  BY <1>2
<1> QED BY <1>1, <1>2, <1>3, <1>4 DEF Fresh

LEMMA NewRowFresh ==
  ASSUME Types, Fresh, RowsGrow, UNCHANGED <<current, workload>>,
         Len(rows) + 1 \in DOMAIN rows',
         waiting' = Append(waiting, Len(rows) + 1)
  PROVE  Fresh'
<1> DEFINE new == Len(rows) + 1
<1>1. /\ waiting \in Seq(Nat) /\ Len(waiting) \in Nat /\ new \in Nat
      /\ new \notin DOMAIN rows /\ new # None
      /\ current \in DOMAIN rows \cup {None}
      /\ \A p \in Repo : workload[p].row \in DOMAIN rows \cup {None}
  BY RowsAreRows, LenProperties DEF Types, Placed, ImagesTypeOK
<1>2. /\ Len(waiting') = Len(waiting) + 1
      /\ \A i \in 1 .. Len(waiting) : waiting'[i] = waiting[i]
      /\ waiting'[Len(waiting) + 1] = new
  BY <1>1, AppendProperties
<1>3. \A i \in 1 .. Len(waiting') : i \in 1 .. Len(waiting) \/ i = Len(waiting) + 1
  BY <1>1, <1>2
<1>4. new \in DOMAIN rows'
  OBVIOUS
<1> HIDE DEF new
<1>5. \A i \in 1 .. Len(waiting) : waiting[i] # new
  BY <1>1 DEF Fresh
<1>6. \A i, j \in 1 .. Len(waiting') : waiting'[i] = waiting'[j] => i = j
  BY <1>2, <1>3, <1>5 DEF Fresh
<1>7. ASSUME NEW i \in 1 .. Len(waiting')
      PROVE  /\ waiting'[i] # current' /\ waiting'[i] \in DOMAIN rows'
             /\ \A p \in Repo : workload'[p].row # waiting'[i]
  <2>1. CASE i \in 1 .. Len(waiting)
    BY <1>2, <2>1 DEF Fresh, RowsGrow
  <2>2. CASE i = Len(waiting) + 1
    BY <1>1, <1>2, <1>4, <2>2
  <2> QED BY <1>3, <2>1, <2>2
<1> QED BY <1>6, <1>7 DEF Fresh

LEMMA NextFresh ==
  ASSUME Types, Fresh, [ImagesNext]_imageVars
  PROVE  Fresh'
<1> USE DEF branchVars, tableVars, workVars, clusterVars
<1>0. RowsGrow
  BY StepGrows
<1>1. CASE Push \/ Clone \/ CloneFails \/ Build \/ BuildFails \/ WorkerDies
           \/ (\E p \in Repo : GetLatestCommit(p)) \/ UNCHANGED imageVars
  <2>1. UNCHANGED <<waiting, workload>> /\ current' \in {current, None}
    BY <1>1 DEF Push, Clone, CloneFails, Build, BuildFails, WorkerDies,
                GetLatestCommit, EndJob, imageVars
  <2> QED BY <1>0, <2>1, SameListFresh
<1>2. CASE Aborted
  <2>1. /\ UNCHANGED waiting /\ current' = None
        /\ \A p \in Repo : workload'[p].row \in {workload[p].row, None}
    BY <1>2 DEF Aborted, EndJob, NoWorkload, Types, ImagesTypeOK
  <2> QED BY <1>0, <2>1, SameListFresh
<1>3. CASE Deploy \/ RolloutFails
  <2>1. /\ UNCHANGED waiting /\ current' = None
        /\ Apply \/ UNCHANGED workload
    BY <1>3 DEF Deploy, RolloutFails, EndJob
  <2>2. \A p \in Repo : workload'[p].row \in {workload[p].row, current}
    BY <2>1 DEF Apply, Types, ImagesTypeOK
  <2> QED BY <1>0, <2>1, <2>2, SameListFresh
<1>4. ASSUME NEW p \in Repo, PodStarts(p) PROVE Fresh'
  <2>1. UNCHANGED <<waiting, current>>
        /\ \A q \in Repo : workload'[q].row = workload[q].row
    BY <1>4 DEF PodStarts, Types, ImagesTypeOK
  <2> QED BY <1>0, <2>1, SameListFresh
<1>5. ASSUME NEW p \in Repo, CreateRow(p) PROVE Fresh'
  <2>1. /\ UNCHANGED <<current, workload>> /\ NewRow(rows, p, asked[p])
        /\ asked[p] \in Commit /\ rows \in Seq(Row)
    BY <1>5, RowsAreRows DEF CreateRow, Types, ImagesTypeOK
  <2>2. Len(rows) + 1 \in DOMAIN rows'
    BY <2>1, NewRowGrows
  <2> QED BY <1>0, <2>1, <2>2, NewRowFresh DEF NewRow
<1>6. ASSUME NEW c \in Commit, NEW p \in Repo, PushEvent(c, p) PROVE Fresh'
  <2> DEFINE old == Mark(Ongoing(Latest(p, InProgress \cup {"READY"})), "CANCELED")
  <2>1. NewRow(old, p, c) /\ UNCHANGED <<current, workload>>
    BY <1>6 DEF PushEvent
  <2>2. /\ old \in Seq(Row) /\ Len(old) = Len(rows)
        /\ \A d \in DOMAIN rows : /\ old[d].project = rows[d].project
                                  /\ old[d].commit = rows[d].commit
    BY MarkKeeps DEF RowStatus
  <2> HIDE DEF old
  <2>3. Len(rows) + 1 \in DOMAIN rows'
    BY <2>1, <2>2, NewRowGrows
  <2> QED BY <1>0, <2>1, <2>3, NewRowFresh DEF NewRow
<1>7. CASE WaitForJob
  BY <1>7, TakeFresh
<1> QED BY <1>1, <1>2, <1>3, <1>4, <1>5, <1>6, <1>7 DEF ImagesNext

\* Steps that push no image and start no pod.
LEMMA SameImagesTagged ==
  ASSUME Types, Tagged, RunsItsBuild, RowsGrow, UNCHANGED <<registry, rebuilt>>,
         phase' # "deploy" \/ UNCHANGED <<phase, current>>,
         \A p \in Repo :
           \/ workload'[p] = workload[p] /\ running'[p] = running[p]
           \/ workload'[p] = NoWorkload
           \/ /\ phase = "deploy"
              /\ workload'[p] = [row |-> current, pulled |-> FALSE]
  PROVE  Tagged' /\ RunsItsBuild'
<1>1. \A d \in DOMAIN rows : Built(d)' = Built(d)
  BY DEF Built, ImageName, RowsGrow
<1>2. phase' = "deploy" => Built(current)'.row = current'
  <2>1. phase = "deploy" => current \in DOMAIN rows
    BY InHand
  <2> QED BY <1>1, <2>1 DEF Tagged, Built, ImageName, RowsGrow
<1>3. ASSUME NEW p \in Repo, workload'[p].row # None
      PROVE  \/ Built(workload[p].row)'.row = workload'[p].row
             \/ workload'[p].row \in rebuilt'
  <2>1. CASE workload'[p] = workload[p]
    <3>1. workload[p].row \in DOMAIN rows
      BY <1>3, <2>1 DEF Types, Placed
    <3>2. Built(workload[p].row)' = Built(workload[p].row)
      BY <2>1, <3>1 DEF Built, ImageName, RowsGrow
    <3> QED BY <1>3, <2>1, <3>2 DEF Tagged
  <2>2. CASE /\ phase = "deploy"
             /\ workload'[p] = [row |-> current, pulled |-> FALSE]
    <3>1. workload'[p].row = current /\ current \in DOMAIN rows
      BY <2>2, InHand
    <3>2. Built(workload[p].row)' = Built(current)
      BY <3>1 DEF Built, ImageName, RowsGrow
    <3> QED BY <2>2, <3>1, <3>2 DEF Tagged
  <2> QED BY <1>3, <2>1, <2>2 DEF NoWorkload
<1>4. RunsItsBuild'
  BY DEF RunsItsBuild, NoWorkload
<1> QED BY <1>2, <1>3, <1>4 DEF Tagged

\* The push of a job that is not deployed yet.
LEMMA PushTagged ==
  ASSUME Types, Fresh, Tagged, RunsItsBuild, RowsGrow, PushImage,
         phase = "build", UNCHANGED <<running, workload>>,
         phase' # "deploy" \/ UNCHANGED current
  PROVE  Tagged' /\ RunsItsBuild'
<1>1. /\ current \in DOMAIN rows /\ current # None
      /\ ImageName(current) \in Tag
      /\ \A p \in Repo : workload[p].row # current
  BY InHand, TagOf DEF Fresh
<1>2. /\ registry' = [registry EXCEPT ![ImageName(current)] =
                        [row |-> current, commit |-> source]]
      /\ registry \in [Tag -> Image]
      /\ rebuilt' = (rebuilt \ {current}) \cup Namesakes(current)
  BY DEF PushImage, Types, ImagesTypeOK
<1>3. \A d \in DOMAIN rows : Built(d)' = registry'[ImageName(d)]
  BY DEF Built, ImageName, RowsGrow
<1>4. ASSUME NEW d \in DOMAIN rows, d # current,
             Built(d).row = d \/ d \in rebuilt
      PROVE  Built(d)'.row = d \/ d \in rebuilt'
  <2>1. CASE ImageName(d) = ImageName(current)
    BY <1>2, <1>4, <2>1 DEF Namesakes, ImageName
  <2>2. CASE ImageName(d) # ImageName(current)
    BY <1>2, <1>3, <1>4, <2>2, TagOf DEF Built
  <2> QED BY <2>1, <2>2
<1>5. phase' = "deploy" => Built(current)'.row = current'
  BY <1>1, <1>2 DEF Built, ImageName, RowsGrow
<1>6. ASSUME NEW p \in Repo, workload'[p].row # None
      PROVE  \/ Built(workload[p].row)'.row = workload'[p].row
             \/ workload'[p].row \in rebuilt'
  <2>1. workload[p].row \in DOMAIN rows /\ workload[p].row # current
    BY <1>1, <1>6 DEF Types, Placed
  <2>2. Built(workload[p].row)' = registry'[ImageName(workload[p].row)]
    BY <2>1 DEF Built, ImageName, RowsGrow
  <2>3. \/ registry'[ImageName(workload[p].row)].row = workload[p].row
        \/ workload[p].row \in rebuilt'
    BY <1>3, <1>4, <1>6, <2>1 DEF Tagged
  <2> QED BY <2>2, <2>3
<1>7. RunsItsBuild'
  BY <1>1, <1>2 DEF RunsItsBuild
<1> QED BY <1>5, <1>6, <1>7 DEF Tagged

LEMMA PodTagged ==
  ASSUME Types, Tagged, RunsItsBuild, NEW p \in Repo, PodStarts(p)
  PROVE  Tagged' /\ RunsItsBuild'
<1> USE DEF tableVars, workVars
<1>1. /\ running'[p] = Built(workload[p].row)
      /\ \A q \in Repo \ {p} : /\ running'[q] = running[q]
                               /\ workload'[q] = workload[q]
      /\ \A q \in Repo : workload'[q].row = workload[q].row
      /\ UNCHANGED <<rows, phase, current, registry, rebuilt>>
      /\ workload[p].row # None
  BY DEF PodStarts, Built, Types, ImagesTypeOK
<1>2. \A d : Built(d)' = Built(d)
  BY <1>1 DEF Built, ImageName
<1>3. Tagged'
  BY <1>1, <1>2 DEF Tagged
<1>4. RunsItsBuild'
  BY <1>1 DEF RunsItsBuild, Tagged
<1> QED BY <1>3, <1>4

LEMMA NextTagged ==
  ASSUME Types, Fresh, Tagged, RunsItsBuild, [ImagesNext]_imageVars
  PROVE  Tagged' /\ RunsItsBuild'
<1> USE DEF branchVars, tableVars, workVars, clusterVars
<1>0. RowsGrow
  BY StepGrows
<1>1. CASE Push \/ WaitForJob \/ Clone \/ CloneFails \/ WorkerDies
           \/ (\E p \in Repo : GetLatestCommit(p) \/ CreateRow(p))
           \/ (\E c \in Commit, p \in Repo : PushEvent(c, p))
           \/ UNCHANGED imageVars
  <2>1. /\ UNCHANGED <<registry, rebuilt, running, workload>>
        /\ phase' # "deploy" \/ UNCHANGED <<phase, current>>
    BY <1>1 DEF Push, WaitForJob, Clone, CloneFails, WorkerDies,
                GetLatestCommit, CreateRow, PushEvent, imageVars
  <2> QED BY <1>0, <2>1, SameImagesTagged
<1>2. CASE Aborted
  <2>1. /\ UNCHANGED <<registry, rebuilt>> /\ phase' = "idle"
        /\ \A p \in Repo :
             \/ workload'[p] = workload[p] /\ running'[p] = running[p]
             \/ workload'[p] = NoWorkload
    BY <1>2 DEF Aborted, EndJob, Types, ImagesTypeOK
  <2> QED BY <1>0, <2>1, SameImagesTagged
<1>3. CASE Deploy \/ RolloutFails
  <2>1. /\ UNCHANGED <<registry, rebuilt, running>> /\ phase' = "idle"
        /\ phase = "deploy" /\ (Apply \/ UNCHANGED workload)
    BY <1>3 DEF Deploy, RolloutFails, EndJob
  <2>2. \A p \in Repo : \/ workload'[p] = workload[p]
                        \/ workload'[p] = [row |-> current, pulled |-> FALSE]
    BY <2>1 DEF Apply, Types, ImagesTypeOK
  <2> QED BY <1>0, <2>1, <2>2, SameImagesTagged
<1>4. CASE Build
  BY <1>0, <1>4, PushTagged DEF Build
<1>5. CASE BuildFails
  <2>1. /\ UNCHANGED <<running, workload>> /\ phase' = "idle"
        /\ phase = "build" /\ (PushImage \/ UNCHANGED <<registry, rebuilt>>)
    BY <1>5 DEF BuildFails, EndJob
  <2> QED BY <1>0, <2>1, PushTagged, SameImagesTagged
<1>6. ASSUME NEW p \in Repo, PodStarts(p) PROVE Tagged' /\ RunsItsBuild'
  BY <1>6, PodTagged
<1> QED BY <1>1, <1>2, <1>3, <1>4, <1>5, <1>6 DEF ImagesNext

\* A pod runs what was built for the row that was deployed, or an image of the
\* same name that was pushed since (worker.go:348, deployment.go:84).
THEOREM PodsRunTheirBuild == ImagesSpec => []RunsItsBuild
<1>1. Types /\ Fresh /\ [ImagesNext]_imageVars => Fresh'
  BY NextFresh
<1>2. Types /\ Fresh /\ Tagged /\ RunsItsBuild /\ [ImagesNext]_imageVars
        => Tagged' /\ RunsItsBuild'
  BY NextTagged
<1> QED BY <1>1, <1>2, InitTypes, NextTypes, InitFresh, PTL DEF ImagesSpec
-----------------------------------------------------------------------------
(* At rest, the head runs. *)

Behind(p) ==
  \/ <<head, p>> \in events
  \/ \E i \in 1 .. Len(waiting) : rows[waiting[i]].project = p

InWork(p) ==
  /\ current # None /\ rows[current].project = p
  /\ phase # "clone" => source = head

Settled(p) ==
  \/ workload[p] = NoWorkload /\ running[p] = NoImage
  \/ /\ workload[p].row # None /\ Built(workload[p].row).commit = head
     /\ workload[p].pulled => running[p].commit = head

Unfailed == spoiled = {} /\ \A d \in DOMAIN rows : rows[d].status # "FAILED"

\* A row that failed is never built again.
FailedIsOver ==
  \A d \in DOMAIN rows : rows[d].status = "FAILED" =>
    d # current /\ \A i \in 1 .. Len(waiting) : waiting[i] # d

\* What is built is the head, or the build of a newer state is still to come.
NewestAhead ==
  /\ phase \in {"build", "deploy"} /\ source # head =>
       \A p \in AutoDeploy : Behind(p)
  /\ Unfailed =>
       \A p \in AutoDeploy : Behind(p) \/ InWork(p) \/ Settled(p)

LEMMA MarkedStatus ==
  ASSUME Types, NEW D, NEW s \in RowStatus, NEW d \in DOMAIN rows
  PROVE  Mark(D, s)[d].status = IF d \in D THEN s ELSE rows[d].status
<1>1. rows[d] \in Row
  BY RowsAreRows
<1> QED BY <1>1 DEF Mark, Row

LEMMA MarkedJob ==
  ASSUME Types, NEW s \in RowStatus, rows' = Mark({current}, s)
  PROVE  /\ DOMAIN rows' = DOMAIN rows
         /\ \A d \in DOMAIN rows :
              rows'[d].status = IF d = current THEN s ELSE rows[d].status
<1>1. DOMAIN rows' = DOMAIN rows
  BY MarkGrows
<1>2. ASSUME NEW d \in DOMAIN rows
      PROVE  rows'[d].status = IF d = current THEN s ELSE rows[d].status
  <2>1. Mark({current}, s)[d].status =
          IF d \in {current} THEN s ELSE rows[d].status
    BY MarkedStatus
  <2> QED BY <2>1
<1> QED BY <1>1, <1>2

LEMMA NewRowAt ==
  ASSUME Types, NEW p \in Repo, NEW c \in Commit, NEW old \in Seq(Row),
         Len(old) = Len(rows), NewRow(old, p, c)
  PROVE  /\ rows'[Len(rows) + 1] =
              [project |-> p, commit |-> c, status |-> "QUEUED"]
         /\ \A d \in DOMAIN rows : rows'[d] = old[d]
         /\ Len(waiting) \in Nat /\ Len(waiting') = Len(waiting) + 1
         /\ \A i \in 1 .. Len(waiting) : waiting'[i] = waiting[i]
         /\ waiting'[Len(waiting) + 1] = Len(rows) + 1
<1> DEFINE new == [project |-> p, commit |-> c, status |-> "QUEUED"]
<1>1. /\ new \in Row /\ rows' = Append(old, new)
      /\ waiting' = Append(waiting, Len(rows) + 1)
      /\ waiting \in Seq(Nat) /\ Len(waiting) \in Nat
  BY WaitingSet DEF NewRow, Row, RowStatus, Types, Placed
<1>2. Len(rows) \in Nat /\ DOMAIN rows = 1 .. Len(rows)
  BY RowsAreRows
<1>3. /\ rows'[Len(old) + 1] = new
      /\ \A d \in 1 .. Len(old) : rows'[d] = old[d]
  <2> HIDE DEF new
  <2> QED BY <1>1, AppendProperties
<1>4. Len(rows) + 1 \in Nat
  BY <1>2
<1>5. /\ Len(waiting') = Len(waiting) + 1
      /\ \A i \in 1 .. Len(waiting) : waiting'[i] = waiting[i]
      /\ waiting'[Len(waiting) + 1] = Len(rows) + 1
  <2> HIDE DEF new
  <2> QED BY <1>1, <1>4, AppendProperties
<1> QED BY <1>1, <1>2, <1>3, <1>5

-----------------------------------------------------------------------------
\* A failed row stays failed.
LEMMA FailedWhenSame ==
  ASSUME Types, FailedIsOver, Fresh, RowsGrow, DOMAIN rows' = DOMAIN rows,
         UNCHANGED waiting, spoiled \subseteq spoiled',
         current' \in {current, None},
         \A d \in DOMAIN rows :
           \/ rows'[d].status = rows[d].status
           \/ d = current /\ (rows'[d].status # "FAILED" \/ current' = None)
  PROVE  FailedIsOver' /\ (Unfailed' => Unfailed)
<1>1. None \notin DOMAIN rows
  BY RowsAreRows
<1>2. FailedIsOver'
  BY <1>1 DEF FailedIsOver, Fresh
<1>3. Unfailed' => Unfailed
  BY DEF Unfailed, FailedIsOver
<1> QED BY <1>2, <1>3

LEMMA FailedWithNewRow ==
  ASSUME Types, FailedIsOver, NEW p \in Repo, NEW c \in Commit,
         NEW old \in Seq(Row), Len(old) = Len(rows), NewRow(old, p, c),
         UNCHANGED <<current, spoiled>>,
         \A d \in DOMAIN rows : /\ old[d].project = rows[d].project
                                /\ old[d].commit = rows[d].commit
                                /\ (old[d].status = "FAILED") =
                                     (rows[d].status = "FAILED")
  PROVE  FailedIsOver' /\ (Unfailed' => Unfailed)
<1> DEFINE new == Len(rows) + 1
<1>1. /\ rows'[new] = [project |-> p, commit |-> c, status |-> "QUEUED"]
      /\ \A d \in DOMAIN rows : rows'[d] = old[d]
      /\ Len(waiting) \in Nat /\ Len(waiting') = Len(waiting) + 1
      /\ \A i \in 1 .. Len(waiting) : waiting'[i] = waiting[i]
      /\ waiting'[Len(waiting) + 1] = new
  BY NewRowAt
<1>2. DOMAIN rows' = DOMAIN rows \cup {new} /\ new \notin DOMAIN rows
  BY NewRowGrows
<1> HIDE DEF new
<1>3. \A i \in 1 .. Len(waiting') : i \in 1 .. Len(waiting) \/ i = Len(waiting) + 1
  BY <1>1
<1>4. FailedIsOver'
  <2>1. ASSUME NEW d \in DOMAIN rows', rows'[d].status = "FAILED"
        PROVE  d \in DOMAIN rows /\ rows[d].status = "FAILED"
    BY <1>1, <1>2, <2>1
  <2>2. ASSUME NEW d \in DOMAIN rows, rows[d].status = "FAILED"
        PROVE  /\ d # current
               /\ \A i \in 1 .. Len(waiting') : waiting'[i] # d
    <3>1. d # new /\ d # current /\ \A i \in 1 .. Len(waiting) : waiting[i] # d
      BY <1>2, <2>2 DEF FailedIsOver
    <3> QED BY <1>1, <1>3, <3>1
  <2> QED BY <2>1, <2>2 DEF FailedIsOver
<1>5. Unfailed' => Unfailed
  BY <1>1, <1>2 DEF Unfailed
<1> QED BY <1>4, <1>5

LEMMA NextFailed ==
  ASSUME Types, Fresh, FailedIsOver, [ImagesNext]_imageVars
  PROVE  FailedIsOver' /\ (Unfailed' => Unfailed)
<1> USE DEF branchVars, tableVars, workVars, clusterVars
<1>0. /\ RowsGrow /\ {"BUILDING", "READY", "FAILED", "CANCELED"} \subseteq RowStatus
      /\ current \in DOMAIN rows \cup {None}
  BY StepGrows DEF RowStatus, Types, ImagesTypeOK
<1>1. CASE Push \/ Build \/ WorkerDies \/ UNCHANGED imageVars
           \/ (\E p \in Repo : GetLatestCommit(p) \/ PodStarts(p))
  <2>1. /\ UNCHANGED <<rows, waiting>> /\ spoiled \subseteq spoiled'
        /\ current' \in {current, None}
    BY <1>1 DEF Push, Build, WorkerDies, GetLatestCommit, PodStarts, imageVars
  <2> QED BY <1>0, <2>1, FailedWhenSame
<1>2. CASE Aborted \/ BuildFails \/ Deploy \/ RolloutFails
  <2>1. /\ UNCHANGED <<waiting, spoiled>> /\ current' = None
        /\ \E s \in RowStatus : rows' = Mark({current}, s)
    BY <1>0, <1>2 DEF Aborted, BuildFails, Deploy, RolloutFails, EndJob
  <2>2. PICK s \in RowStatus : rows' = Mark({current}, s)
    BY <2>1
  <2>3. /\ DOMAIN rows' = DOMAIN rows
        /\ \A d \in DOMAIN rows :
             rows'[d].status = IF d = current THEN s ELSE rows[d].status
    BY <2>2, MarkedJob
  <2> QED BY <1>0, <2>1, <2>3, FailedWhenSame
<1>3. CASE CloneFails
  <2>1. /\ UNCHANGED waiting /\ current' = None /\ spoiled \subseteq spoiled'
        /\ rows' = Mark({current}, "FAILED")
    BY <1>3 DEF CloneFails
  <2>2. /\ DOMAIN rows' = DOMAIN rows
        /\ \A d \in DOMAIN rows : rows'[d].status =
             IF d = current THEN "FAILED" ELSE rows[d].status
    BY <1>0, <2>1, MarkedJob
  <2> QED BY <1>0, <2>1, <2>2, FailedWhenSame
<1>4. CASE Clone
  <2>1. /\ UNCHANGED <<waiting, spoiled, current>>
        /\ rows' = Mark({current}, "BUILDING")
    BY <1>4 DEF Clone
  <2>2. /\ DOMAIN rows' = DOMAIN rows
        /\ \A d \in DOMAIN rows : rows'[d].status =
             IF d = current THEN "BUILDING" ELSE rows[d].status
    BY <1>0, <2>1, MarkedJob
  <2> QED BY <1>0, <2>1, <2>2, FailedWhenSame
<1>5. CASE WaitForJob
  <2>1. /\ UNCHANGED <<rows, spoiled>> /\ waiting # <<>>
        /\ waiting' = Front(waiting) /\ current' = Last(waiting)
    BY <1>5 DEF WaitForJob
  <2>2. /\ Len(waiting) \in Nat \ {0} /\ Len(waiting') = Len(waiting) - 1
        /\ \A i \in 1 .. Len(waiting) - 1 : waiting'[i] = waiting[i]
        /\ current' = waiting[Len(waiting)]
    BY <2>1, TakeWaiting DEF Types, Placed
  <2>3. /\ \A i \in 1 .. Len(waiting') : i \in 1 .. Len(waiting)
        /\ Len(waiting) \in 1 .. Len(waiting)
    BY <2>2
  <2>4. \A i \in 1 .. Len(waiting') : waiting'[i] = waiting[i]
    BY <2>2
  <2>5. FailedIsOver'
    BY <2>1, <2>2, <2>3, <2>4 DEF FailedIsOver
  <2> QED BY <2>1, <2>5 DEF Unfailed
<1>6. ASSUME NEW p \in Repo, CreateRow(p)
      PROVE  FailedIsOver' /\ (Unfailed' => Unfailed)
  <2>1. /\ UNCHANGED <<current, spoiled>> /\ NewRow(rows, p, asked[p])
        /\ asked[p] \in Commit /\ rows \in Seq(Row)
    BY <1>6, RowsAreRows DEF CreateRow, Types, ImagesTypeOK
  <2> QED BY <2>1, FailedWithNewRow
<1>7. ASSUME NEW c \in Commit, NEW p \in Repo, PushEvent(c, p)
      PROVE  FailedIsOver' /\ (Unfailed' => Unfailed)
  <2> DEFINE D == Ongoing(Latest(p, InProgress \cup {"READY"}))
             old == Mark(D, "CANCELED")
  <2>1. NewRow(old, p, c) /\ UNCHANGED <<current, spoiled>>
    BY <1>7 DEF PushEvent
  <2>2. \A d \in D : rows[d].status # "FAILED"
    BY DEF Ongoing, InProgress
  <2> HIDE DEF D
  <2>3. /\ old \in Seq(Row) /\ Len(old) = Len(rows)
        /\ \A d \in DOMAIN rows :
             /\ old[d].project = rows[d].project
             /\ old[d].commit = rows[d].commit
             /\ old[d].status = IF d \in D THEN "CANCELED" ELSE rows[d].status
    BY <1>0, MarkKeeps, MarkedStatus
  <2> HIDE DEF old
  <2>4. \A d \in DOMAIN rows :
          (old[d].status = "FAILED") = (rows[d].status = "FAILED")
    BY <2>2, <2>3
  <2> QED BY <2>1, <2>3, <2>4, FailedWithNewRow
<1> QED BY <1>1, <1>2, <1>3, <1>4, <1>5, <1>6, <1>7 DEF ImagesNext

LEMMA BehindWithNewRow ==
  ASSUME Types, Fresh, NEW q \in Repo, NEW c \in Commit,
         NEW old \in Seq(Row), Len(old) = Len(rows), NewRow(old, q, c),
         \A d \in DOMAIN rows : /\ old[d].project = rows[d].project
                                /\ old[d].commit = rows[d].commit,
         UNCHANGED head, NEW p, Behind(p),
         \A e \in events : e # <<c, q>> => e \in events'
  PROVE  Behind(p)'
<1>1. /\ rows'[Len(rows) + 1] =
           [project |-> q, commit |-> c, status |-> "QUEUED"]
      /\ \A d \in DOMAIN rows : rows'[d] = old[d]
      /\ Len(waiting) \in Nat /\ Len(waiting') = Len(waiting) + 1
      /\ \A i \in 1 .. Len(waiting) : waiting'[i] = waiting[i]
      /\ waiting'[Len(waiting) + 1] = Len(rows) + 1
  BY NewRowAt
<1>2. /\ Len(waiting) + 1 \in 1 .. Len(waiting')
      /\ 1 .. Len(waiting) \subseteq 1 .. Len(waiting')
  BY <1>1
<1>3. CASE p = q
  BY <1>1, <1>2, <1>3 DEF Behind
<1>4. ASSUME NEW i \in 1 .. Len(waiting), rows[waiting[i]].project = p
      PROVE  Behind(p)'
  <2>1. waiting[i] \in DOMAIN rows
    BY DEF Fresh
  <2>2. rows'[waiting[i]].project = p
    BY <1>1, <1>4, <2>1
  <2> QED BY <1>1, <1>2, <2>2 DEF Behind
<1>5. CASE p # q /\ <<head, p>> \in events
  BY <1>5 DEF Behind
<1> QED BY <1>3, <1>4, <1>5 DEF Behind

LEMMA BehindWhenSame ==
  ASSUME Types, Fresh, RowsGrow, UNCHANGED <<head, events, waiting>>,
         NEW p, Behind(p)
  PROVE  Behind(p)'
<1>1. \A i \in 1 .. Len(waiting) : waiting[i] \in DOMAIN rows
  BY DEF Fresh
<1> QED BY <1>1 DEF Behind, RowsGrow

\* Only the worker's next job ends the wait for it.
LEMMA NextBehind ==
  ASSUME Types, Fresh, [ImagesNext]_imageVars, NEW p \in AutoDeploy,
         Behind(p) \/ Push
  PROVE  Behind(p)' \/ (WaitForJob /\ InWork(p)')
<1> USE DEF branchVars, tableVars, workVars, clusterVars
<1>0. RowsGrow /\ "CANCELED" \in RowStatus
  BY StepGrows DEF RowStatus
<1>1. CASE Push
  BY <1>1 DEF Push, Behind
<1>2. CASE \/ Build \/ WorkerDies \/ UNCHANGED imageVars
           \/ Aborted \/ Clone \/ CloneFails \/ BuildFails \/ Deploy
           \/ RolloutFails
           \/ \E q \in Repo : GetLatestCommit(q) \/ PodStarts(q)
  <2>1. UNCHANGED <<head, events, waiting>>
    BY <1>2 DEF Build, WorkerDies, GetLatestCommit, PodStarts, Aborted, Clone,
         CloneFails, BuildFails, Deploy, RolloutFails, imageVars
  <2>2. Push \/ Behind(p)
    OBVIOUS
  <2>3. Push => head' # head
    BY DEF Push, Types, ImagesTypeOK
  <2> QED BY <1>0, <2>1, <2>2, <2>3, BehindWhenSame
<1>3. CASE WaitForJob /\ Behind(p)
  <2>1. /\ UNCHANGED <<head, events, rows>> /\ waiting # <<>>
        /\ waiting' = Front(waiting) /\ current' = Last(waiting)
        /\ phase' = "clone"
    BY <1>3 DEF WaitForJob
  <2>2. /\ Len(waiting) \in Nat \ {0} /\ Len(waiting') = Len(waiting) - 1
        /\ \A i \in 1 .. Len(waiting) - 1 : waiting'[i] = waiting[i]
        /\ current' = waiting[Len(waiting)]
    BY <2>1, TakeWaiting DEF Types, Placed
  <2>3. /\ \A i \in 1 .. Len(waiting) : i = Len(waiting) \/ i \in 1 .. Len(waiting')
        /\ Len(waiting) \in 1 .. Len(waiting)
    BY <2>2
  <2>4. \A i \in 1 .. Len(waiting') : waiting'[i] = waiting[i]
    BY <2>2
  <2>5. current' # None
    BY <2>2, <2>3, RowsAreRows DEF Fresh
  <2>6. CASE <<head, p>> \in events
    BY <2>1, <2>6 DEF Behind
  <2>7. ASSUME NEW i \in 1 .. Len(waiting), rows[waiting[i]].project = p
        PROVE  Behind(p)' \/ InWork(p)'
    BY <2>1, <2>2, <2>3, <2>4, <2>5, <2>7 DEF Behind, InWork
  <2> QED BY <1>3, <2>6, <2>7 DEF Behind
<1>4. ASSUME NEW q \in Repo, CreateRow(q), Behind(p) PROVE Behind(p)'
  <2>1. /\ UNCHANGED <<head, events>> /\ NewRow(rows, q, asked[q])
        /\ asked[q] \in Commit /\ rows \in Seq(Row)
    BY <1>4, RowsAreRows DEF CreateRow, Types, ImagesTypeOK
  <2> QED BY <1>4, <2>1, BehindWithNewRow
<1>5. ASSUME NEW c \in Commit, NEW q \in Repo, PushEvent(c, q), Behind(p)
      PROVE  Behind(p)'
  <2> DEFINE old == Mark(Ongoing(Latest(q, InProgress \cup {"READY"})), "CANCELED")
  <2>1. NewRow(old, q, c) /\ UNCHANGED head /\ events' = events \ {<<c, q>>}
    BY <1>5 DEF PushEvent
  <2>2. /\ old \in Seq(Row) /\ Len(old) = Len(rows)
        /\ \A d \in DOMAIN rows : /\ old[d].project = rows[d].project
                                  /\ old[d].commit = rows[d].commit
    BY <1>0, MarkKeeps
  <2>3. \A e \in events : e # <<c, q>> => e \in events'
    BY <2>1
  <2> HIDE DEF old
  <2> QED BY <1>5, <2>1, <2>2, <2>3, BehindWithNewRow
<1> QED BY <1>1, <1>2, <1>3, <1>4, <1>5 DEF ImagesNext

\* What is deployed stays the head when only the head is built.
LEMMA SettledStays ==
  ASSUME Types, RowsGrow, UNCHANGED head, NEW p \in Repo, Settled(p),
         workload'[p] = workload[p], running'[p] = running[p],
         \A d \in DOMAIN rows :
           registry'[ImageName(d)].commit \in {Built(d).commit, head}
  PROVE  Settled(p)'
<1>1. CASE workload[p] = NoWorkload /\ running[p] = NoImage
  BY <1>1 DEF Settled
<1>2. CASE workload[p].row # None
  <2>1. workload[p].row \in DOMAIN rows
    BY <1>2 DEF Types, Placed
  <2>2. Built(workload[p].row)' = registry'[ImageName(workload[p].row)]
    BY <2>1 DEF Built, ImageName, RowsGrow
  <2> QED BY <1>2, <2>1, <2>2 DEF Settled, NoWorkload
<1> QED BY <1>1, <1>2 DEF Settled

\* A job that is built from the head, and whose project is not disturbed.
LEMMA InWorkStays ==
  ASSUME Types, RowsGrow, UNCHANGED <<head, current>>, NEW p, InWork(p),
         \/ phase' = "clone" /\ phase = "clone"
         \/ source' = head
  PROVE  InWork(p)'
<1>1. current \in DOMAIN rows
  BY DEF InWork, Types, ImagesTypeOK
<1> QED BY <1>1 DEF InWork, RowsGrow

\* The job in hand becomes what is deployed.
LEMMA DeployedHead ==
  ASSUME Types, Ordered, RowsGrow, UNCHANGED <<head, registry, running>>,
         phase = "deploy", Apply, source = head, NEW p \in Repo,
         InWork(p) \/ Settled(p)
  PROVE  Settled(p)'
<1>1. /\ current \in DOMAIN rows /\ current # None
      /\ rows[current].project \in Repo
      /\ workload' = [workload EXCEPT ![rows[current].project] =
                        [row |-> current, pulled |-> FALSE]]
  BY InHand DEF Apply, Row
<1>2. /\ workload'[rows[current].project] = [row |-> current, pulled |-> FALSE]
      /\ \A q \in Repo \ {rows[current].project} : workload'[q] = workload[q]
  BY <1>1 DEF Types, ImagesTypeOK
<1>3. CASE p = rows[current].project
  <2> PICK d : d = current
    OBVIOUS
  <2>0. Built(d)' = Built(d)
    BY <1>1 DEF Built, ImageName, RowsGrow
  <2>1. workload'[p].row = d
    BY <1>2, <1>3
  <2>2. Built(d).commit = head
    BY DEF Ordered
  <2>3. Built(workload[p].row)'.commit = head
    BY <2>0, <2>1, <2>2 DEF Built, ImageName
  <2> QED BY <1>1, <1>2, <1>3, <2>1, <2>3 DEF Settled
<1>4. CASE p # rows[current].project
  <2>1. Settled(p) /\ workload'[p] = workload[p] /\ running'[p] = running[p]
    BY <1>2, <1>4 DEF InWork
  <2> QED BY <2>1, SettledStays DEF Built
<1> QED BY <1>3, <1>4

\* What happens to a project that waits for nothing, in a step without a
\* failure.
LEMMA NextSettled ==
  ASSUME Types, Ordered, Fresh, FailedIsOver, NewestAhead,
         [ImagesNext]_imageVars, Unfailed', NEW p \in AutoDeploy,
         ~ Behind(p), ~ Push, InWork(p) \/ Settled(p)
  PROVE  InWork(p)' \/ Settled(p)'
<1> USE DEF branchVars, tableVars, workVars, clusterVars
<1>0. /\ RowsGrow /\ p \in Repo /\ "FAILED" \in RowStatus
      /\ phase \in {"build", "deploy"} => source = head
      /\ (phase = "idle") = (current = None)
  BY StepGrows DEF NewestAhead, Types, ImagesTypeOK, RowStatus
<1>1. CASE \/ WaitForJob \/ UNCHANGED imageVars
           \/ \E q \in Repo : GetLatestCommit(q) \/ CreateRow(q)
           \/ \E c \in Commit, q \in Repo : PushEvent(c, q)
  <2>1. /\ UNCHANGED <<head, registry, workload, running>>
        /\ current # None => UNCHANGED <<current, phase, source>>
    BY <1>0, <1>1 DEF WaitForJob, GetLatestCommit, CreateRow, PushEvent, imageVars
  <2>2. Settled(p) => Settled(p)'
    BY <1>0, <2>1, SettledStays DEF Built
  <2>3. InWork(p) => InWork(p)'
    BY <1>0, <2>1, InWorkStays DEF InWork
  <2> QED BY <2>2, <2>3
<1>2. CASE Aborted
  <2>1. /\ UNCHANGED <<head, registry>> /\ current \in DOMAIN rows
        /\ workload' = [workload EXCEPT ![rows[current].project] = NoWorkload]
        /\ running' = [running EXCEPT ![rows[current].project] = NoImage]
    BY <1>2 DEF Aborted, Types, ImagesTypeOK
  <2>2. CASE p = rows[current].project
    BY <1>0, <2>1, <2>2 DEF Settled, Types, ImagesTypeOK
  <2>3. CASE p # rows[current].project
    <3>1. Settled(p) /\ workload'[p] = workload[p] /\ running'[p] = running[p]
      BY <1>0, <2>1, <2>3 DEF InWork, Types, ImagesTypeOK
    <3> QED BY <1>0, <2>1, <3>1, SettledStays DEF Built
  <2> QED BY <2>2, <2>3
<1>3. CASE Clone
  <2>1. /\ UNCHANGED <<head, registry, workload, running, current>>
        /\ source' = head
    BY <1>3 DEF Clone, CheckedOut
  <2>2. Settled(p) => Settled(p)'
    BY <1>0, <2>1, SettledStays DEF Built
  <2>3. InWork(p) => InWork(p)'
    BY <1>0, <2>1, InWorkStays
  <2> QED BY <2>2, <2>3
<1>4. CASE CloneFails \/ BuildFails \/ RolloutFails
  <2>1. /\ current \in DOMAIN rows /\ rows' = Mark({current}, "FAILED")
    BY <1>4, InHand DEF CloneFails, BuildFails, RolloutFails, EndJob
  <2>2. rows'[current].status = "FAILED" /\ current \in DOMAIN rows'
    BY <1>0, <2>1, MarkedJob
  <2> QED BY <2>2 DEF Unfailed
<1>5. CASE WorkerDies
  BY <1>5 DEF WorkerDies, Unfailed
<1>6. CASE Build
  <2>1. /\ UNCHANGED <<head, workload, running, current, source>>
        /\ PushImage /\ source = head /\ phase # "idle"
    BY <1>0, <1>6 DEF Build
  <2>2. \A d \in DOMAIN rows :
          registry'[ImageName(d)].commit \in {Built(d).commit, head}
    <3>1. registry' = [registry EXCEPT ![ImageName(current)] =
                         [row |-> current, commit |-> head]]
      BY <2>1 DEF PushImage
    <3> QED BY <3>1, TagOf DEF Built, Types, ImagesTypeOK
  <2>3. Settled(p) => Settled(p)'
    BY <1>0, <2>1, <2>2, SettledStays
  <2>4. InWork(p) => InWork(p)'
    BY <1>0, <2>1, InWorkStays
  <2> QED BY <2>3, <2>4
<1>7. CASE Deploy
  <2>1. /\ UNCHANGED <<head, registry, running>> /\ Apply
        /\ phase = "deploy" /\ source = head
    BY <1>0, <1>7 DEF Deploy
  <2> QED BY <1>0, <2>1, DeployedHead
<1>8. ASSUME NEW q \in Repo, PodStarts(q) PROVE InWork(p)' \/ Settled(p)'
  <2>1. /\ UNCHANGED <<head, rows, registry, current, phase, source>>
        /\ workload[q].row # None
        /\ running' = [running EXCEPT ![q] = Built(workload[q].row)]
        /\ workload' = [workload EXCEPT ![q].pulled = TRUE]
    BY <1>8 DEF PodStarts, Built
  <2>2. InWork(p) => InWork(p)'
    BY <2>1 DEF InWork
  <2>3. ASSUME Settled(p), p = q PROVE Settled(p)'
    <3>1. /\ running'[p] = Built(workload[p].row)
          /\ workload'[p].row = workload[p].row
      BY <1>0, <2>1, <2>3 DEF Types, ImagesTypeOK
    <3>2. Built(workload[p].row)' = Built(workload[p].row)
      BY <2>1, <3>1 DEF Built, ImageName
    <3>3. Built(workload[p].row).commit = head
      BY <2>1, <2>3 DEF Settled, NoWorkload
    <3> QED BY <2>1, <2>3, <3>1, <3>2, <3>3 DEF Settled
  <2>4. ASSUME Settled(p), p # q PROVE Settled(p)'
    <3>1. workload'[p] = workload[p] /\ running'[p] = running[p]
      BY <1>0, <2>1, <2>4 DEF Types, ImagesTypeOK
    <3> QED BY <1>0, <2>1, <2>4, <3>1, SettledStays DEF Built
  <2> QED BY <2>2, <2>3, <2>4
<1> QED BY <1>1, <1>2, <1>3, <1>4, <1>5, <1>6, <1>7, <1>8 DEF ImagesNext

LEMMA NextNewest ==
  ASSUME Types, Ordered, Fresh, FailedIsOver, NewestAhead,
         [ImagesNext]_imageVars
  PROVE  NewestAhead'
<1> USE DEF branchVars, tableVars, workVars, clusterVars
<1>1. ASSUME phase' \in {"build", "deploy"}, source' # head'
      PROVE  \A p \in AutoDeploy : Behind(p)'
  <2>1. ~ WaitForJob /\ ~ Clone
    BY <1>1 DEF WaitForJob, Clone, CheckedOut
  <2>2. CASE Push
    BY <2>1, <2>2, NextBehind
  <2>3. CASE ~ Push
    <3>1. phase \in {"build", "deploy"} /\ source # head
      BY <1>1, <2>1, <2>3
      DEF ImagesNext, Aborted, CloneFails, Build, BuildFails, Deploy,
          RolloutFails, WorkerDies, GetLatestCommit, CreateRow, PodStarts,
          PushEvent, EndJob, imageVars
    <3>2. \A p \in AutoDeploy : Behind(p)
      BY <3>1 DEF NewestAhead
    <3> QED BY <2>1, <3>2, NextBehind
  <2> QED BY <2>2, <2>3
<1>2. ASSUME Unfailed', NEW p \in AutoDeploy
      PROVE  Behind(p)' \/ InWork(p)' \/ Settled(p)'
  <2>1. Unfailed
    BY <1>2, NextFailed
  <2>2. Behind(p) \/ InWork(p) \/ Settled(p)
    BY <2>1 DEF NewestAhead
  <2> QED BY <1>2, <2>2, NextBehind, NextSettled
<1> QED BY <1>1, <1>2 DEF NewestAhead

\* Once pushes and jobs have come to rest and nothing has failed, the newest
\* pod of a project that deploys by itself runs the head, in whatever order
\* the events came and the jobs were built (webhooks.service.ts:224-306,
\* queue.go:65, clone.go:86-147, worker.go:551).
THEOREM QuietRunsTheHead == ImagesSpec => []QuietIsNewest
<1>1. ImagesInit => FailedIsOver /\ NewestAhead
  <2> SUFFICES ASSUME ImagesInit PROVE FailedIsOver /\ NewestAhead
    OBVIOUS
  <2>1. DOMAIN rows = {} /\ phase = "idle"
    <3>1. rows = <<>>
      BY DEF ImagesInit
    <3> QED BY <3>1 DEF ImagesInit
  <2>2. \A p \in AutoDeploy : Settled(p)
    BY DEF ImagesInit, Settled
  <2> QED BY <2>1, <2>2 DEF FailedIsOver, NewestAhead
<1>2. Types /\ Fresh /\ [ImagesNext]_imageVars => Fresh'
  BY NextFresh
<1>3. Types /\ Ordered /\ Fresh /\ FailedIsOver /\ NewestAhead
        /\ [ImagesNext]_imageVars => FailedIsOver' /\ NewestAhead'
  BY NextFailed, NextNewest
<1>4. Types /\ NewestAhead => QuietIsNewest
  <2> SUFFICES ASSUME Types, NewestAhead, events = {}, waiting = <<>>,
                      phase = "idle", Unfailed,
                      NEW p \in AutoDeploy, workload[p].pulled
               PROVE  running[p].commit = head
    BY DEF QuietIsNewest, Unfailed
  <2>1. Len(waiting) = 0
    BY EmptySeq
  <2>2. ~ Behind(p) /\ ~ InWork(p)
    BY <2>1 DEF Behind, InWork, Types, ImagesTypeOK
  <2> QED BY <2>2 DEF NewestAhead, Settled, NoWorkload
<1> QED BY <1>1, <1>2, <1>3, <1>4, InitFresh, OrderedAlways, PTL DEF ImagesSpec
=============================================================================

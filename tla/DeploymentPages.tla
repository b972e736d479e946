-------------------------- MODULE DeploymentPages ---------------------------
(***************************************************************************)
(* What a tab of the dashboard shows of a project's deployments: the hooks *)
(* useDeployments, useDeployment and useProjects over SWR's cache, the     *)
(* page of one deployment, which polls while it is in progress, and the    *)
(* buttons to cancel and to redeploy.  Meanwhile the worker and the API    *)
(* write the rows, of which a page tells apart whether they are in         *)
(* progress (QUEUED, BUILDING, DEPLOYING) or over.                         *)
(***************************************************************************)
EXTENDS Integers, Sequences, FiniteSets

CONSTANTS
  MaxDeployed,  \* bound on the deployments
  MaxVisit,     \* bound on how often the user changes or focuses the page
  MaxFailure    \* bound on requests that fail

Deployed == 1 .. MaxDeployed

\* The keys of SWR: /projects, which every page mounts (CommandPalette.tsx),
\* and /deployments/<id>, told by its row.
Projects == 0
Key == {Projects} \cup Deployed

\* The pages: one for each row, the project's, and those with a list.
ProjectPage == 0
ListPage == -1

ASSUME PagesAssumption ==
  /\ MaxDeployed \in Nat \ {0} /\ {MaxVisit, MaxFailure} \subseteq Nat

VARIABLES
  table,     \* the rows, oldest first: "live" or "over"
  unfinished,      \* rows whose job the worker, or its queue, still holds
  place,     \* the page in view
  data,      \* SWR's data
  fetching,     \* SWR's FETCH: a request, or its answer for two seconds more
  failed,    \* keys whose last request failed and will be sent again
  call,      \* the press under way
  visits, failures,
  own        \* history: rows that a press in this tab created, once answered

tableVars == <<table, unfinished>>
swrVars == <<data, fetching, failed>>
pagesVars == <<tableVars, place, swrVars, call, visits, failures, own>>

NoData == [row |-> 0]
NoEntry == [pc |-> "none", answer |-> NoData]
SentEntry == [pc |-> "sent", answer |-> NoData]
NoCall == [pc |-> "none"]

PagesInit ==
  /\ table = <<"live">> /\ unfinished = {1}
  /\ place \in {ListPage, ProjectPage, 1}
  /\ data = [k \in Key |-> NoData] /\ failed = {}
  /\ fetching = [k \in Key |-> IF k \in {Projects, place} THEN SentEntry
                                                       ELSE NoEntry]
  /\ call = NoCall /\ visits = 0 /\ failures = 0 /\ own = {}

-----------------------------------------------------------------------------
(* The rows: the calls of the worker, and a push.                           *)

\* updateDeploymentStatus overwrites, also the CANCELED of the API: with
\* BUILDING and DEPLOYING, and at last with READY, FAILED or CANCELED.
WorkerWrites(d) ==
  /\ d \in unfinished
  /\ \/ table' = [table EXCEPT ![d] = "live"] /\ UNCHANGED unfinished
     \/ table' = [table EXCEPT ![d] = "over"] /\ unfinished' = unfinished \ {d}
  /\ UNCHANGED <<place, swrVars, call, visits, failures, own>>

NewRow(old) ==
  /\ Len(table) < MaxDeployed
  /\ table' = Append(old, "live")
  /\ unfinished' = unfinished \cup {Len(table) + 1}

\* triggerDeployment: an ongoing deployment is cancelled.
Pushed ==
  /\ NewRow([table EXCEPT ![Len(table)] = "over"])
  /\ UNCHANGED <<place, swrVars, call, visits, failures, own>>

-----------------------------------------------------------------------------
(* SWR, as the hooks use it. *)

\* The keys of the hooks that are mounted with a page.
MountedIn(p) == {Projects} \cup ({p} \cap Deployed)
Mounted == MountedIn(place)

\* A revalidation that joins what is under way or two seconds old.
Joining(K) ==
  fetching' = [k \in Key |-> IF k \in K /\ fetching[k].pc = "none"
                               THEN SentEntry ELSE fetching[k]]

\* mutate(): the fetching goes, and with it an answer under way.
Mutated(K, shown) ==
  [k \in Key |-> IF k \notin K THEN fetching[k]
                 ELSE IF k \in shown THEN SentEntry ELSE NoEntry]

\* findAll of the projects: the newest deployment.  findOne: whether the one
\* asked for is in progress.
AnswerOf(k) == IF k = Projects THEN [row |-> Len(table)]
                               ELSE [row |-> k, live |-> table[k] = "live"]

ApiReads(k) ==
  /\ fetching[k].pc = "sent"
  /\ fetching' =
       [fetching EXCEPT ![k] = [pc |-> "read", answer |-> AnswerOf(k)]]
  /\ UNCHANGED <<tableVars, place, data, failed, call, visits, failures, own>>

Answered(k) ==
  /\ fetching[k].pc = "read"
  /\ data' = [data EXCEPT ![k] = fetching[k].answer]
  /\ fetching' = [fetching EXCEPT ![k] = [NoEntry EXCEPT !.pc = "kept"]]
  /\ failed' = failed \ {k}
  /\ UNCHANGED <<tableVars, place, call, visits, failures, own>>

Forget(k) ==
  /\ fetching[k].pc = "kept"
  /\ fetching' = [fetching EXCEPT ![k] = NoEntry]
  /\ UNCHANGED <<tableVars, place, data, failed, call, visits, failures, own>>

RequestFails(k) ==
  /\ fetching[k].pc \in {"sent", "read"} /\ failures < MaxFailure
  /\ fetching' = [fetching EXCEPT ![k] = NoEntry]
  /\ failed' = failed \cup {k} /\ failures' = failures + 1
  /\ UNCHANGED <<tableVars, place, data, call, visits, own>>

\* The retry of SWR, while the key is mounted.
RetryRequest(k) ==
  /\ k \in failed \cap Mounted /\ fetching[k].pc = "none"
  /\ Joining({k})
  /\ UNCHANGED <<tableVars, place, data, failed, call, visits, failures, own>>

\* What the page of d shows.
Loaded(d) == data[d] # NoData
CanCancel(d) == Loaded(d) /\ data[d].live

\* Mutant of Polling: until there is an answer.
PollingOnce(d) == ~ Loaded(d)

\* refreshInterval of useDeployment; the lists have none.
Polling(d) == Loaded(d) /\ data[d].live

Poll(d) ==
  /\ place = d /\ Polling(d) /\ d \notin failed /\ fetching[d].pc = "none"
  /\ Joining({d})
  /\ UNCHANGED <<tableVars, place, data, failed, call, visits, failures, own>>

\* revalidateOnFocus.
Focus ==
  /\ visits < MaxVisit
  /\ visits' = visits + 1
  /\ Joining(Mounted)
  /\ UNCHANGED <<tableVars, place, data, failed, call, failures, own>>

-----------------------------------------------------------------------------
(* The user. *)

Visit(p) ==
  /\ visits < MaxVisit /\ place # p
  /\ p \in {ListPage, ProjectPage} \cup DOMAIN table
  /\ visits' = visits + 1 /\ place' = p
  /\ Joining(MountedIn(p))
  /\ UNCHANGED <<tableVars, data, failed, call, failures, own>>

PressCancel ==
  /\ call = NoCall /\ place \in Deployed /\ CanCancel(place)
  /\ call' = [pc |-> "cancel", row |-> place]
  /\ UNCHANGED <<tableVars, place, swrVars, visits, failures, own>>

\* The header of the project has the button always, the page of a deployment
\* once it shows one that is over.
PressRedeploy ==
  /\ call = NoCall
  /\ \/ place = ProjectPage /\ data[Projects] # NoData
     \/ place \in Deployed /\ Loaded(place) /\ ~ CanCancel(place)
  /\ call' = [pc |-> "redeploy", from |-> place]
  /\ UNCHANGED <<tableVars, place, swrVars, visits, failures, own>>

-----------------------------------------------------------------------------
(* The API's handlers of both, and their answers. *)

CancelChecks ==
  /\ call.pc = "cancel"
  /\ call' = IF table[call.row] = "live" THEN [call EXCEPT !.pc = "checked"]
                                         ELSE NoCall
  /\ UNCHANGED <<tableVars, place, swrVars, visits, failures, own>>

CancelWrites ==
  /\ call.pc = "checked"
  /\ table' = [table EXCEPT ![call.row] = "over"]
  /\ call' = [call EXCEPT !.pc = "cancelled"]
  /\ UNCHANGED <<unfinished, place, swrVars, visits, failures, own>>

\* mutate() of useDeployment: its own key.
CancelAnswered ==
  /\ call.pc = "cancelled"
  /\ fetching' = Mutated({call.row}, Mounted)
  /\ call' = NoCall
  /\ UNCHANGED <<tableVars, place, data, failed, visits, failures, own>>

RedeployRefused ==
  /\ call.pc = "redeploy" /\ table[Len(table)] = "live"
  /\ call' = NoCall
  /\ UNCHANGED <<tableVars, place, swrVars, visits, failures, own>>

RedeployCreates ==
  /\ call.pc = "redeploy" /\ table[Len(table)] = "over"
  /\ NewRow(table)
  /\ call' = [pc |-> "created", from |-> call.from, row |-> Len(table) + 1]
  /\ UNCHANGED <<place, swrVars, visits, failures, own>>

\* Mutant of RedeployRefreshes: the keys that start with /deployments.
RefreshesDeployments == Key \ {Projects}

\* The keys that start with /deployments or with /projects.
RedeployRefreshes == Key

\* The page of a deployment then shows the new one, wherever the user is.
RedeployAnswered ==
  LET next == IF call.from \in Deployed THEN call.row ELSE place IN
  /\ call.pc = "created"
  /\ LET kept == Mutated(RedeployRefreshes, Mounted)
     IN  fetching' = [k \in Key |->
                     IF k \in MountedIn(next) /\ kept[k].pc = "none"
                       THEN SentEntry ELSE kept[k]]
  /\ place' = next /\ own' = own \cup {call.row}
  /\ call' = NoCall
  /\ UNCHANGED <<tableVars, data, failed, visits, failures>>

\* The press ends with an error, although the API may have served it.
CallFails ==
  /\ call # NoCall /\ failures < MaxFailure
  /\ call' = NoCall /\ failures' = failures + 1
  /\ UNCHANGED <<tableVars, place, swrVars, visits, own>>

\* What goes on in an open tab: answers come, and SWR's timers fire.
TabStep == \/ \E k \in Key : \/ ApiReads(k) \/ Answered(k) \/ Forget(k)
                              \/ RetryRequest(k)
           \/ \E d \in Deployed : Poll(d)

PagesNext ==
  \/ Pushed \/ TabStep \/ Focus
  \/ \E d \in Deployed : WorkerWrites(d)
  \/ \E k \in Key : RequestFails(k)
  \/ \E p \in {ListPage, ProjectPage} \cup Deployed : Visit(p)
  \/ PressCancel \/ PressRedeploy
  \/ CancelChecks \/ CancelWrites \/ CancelAnswered
  \/ RedeployRefused \/ RedeployCreates \/ RedeployAnswered
  \/ CallFails

PagesSpec == PagesInit /\ [][PagesNext]_pagesVars

-----------------------------------------------------------------------------
(* Properties. *)

\* A page of a deployment that is over does not go on showing it in progress:
\* it polls while it does, and SWR repeats a request that failed
\* (use-deployments.ts:70-82).
PageSettles ==
  <>[](place \in Deployed /\ table[place] = "over")
    => <>[](place \in Deployed /\ Loaded(place) /\ ~ data[place].live)

\* A list of projects that awaits no answer has each deployment that this
\* tab has created, or a newer one: the answer to the POST refreshes the lists
\* and drops the answers under way, which may have been read before
\* (use-deployments.ts:45-49).
OwnAreListed ==
  fetching[Projects].pc \in {"none", "kept"} /\ Projects \notin failed =>
    \A d \in own : d <= data[Projects].row

PagesTypeOK ==
  /\ table \in Seq({"live", "over"}) /\ Len(table) \in Deployed
  /\ unfinished \subseteq DOMAIN table
  /\ place \in {ListPage, ProjectPage} \cup DOMAIN table
  /\ DOMAIN data = Key /\ DOMAIN fetching = Key /\ failed \subseteq Key
  /\ \A k \in Key : fetching[k].pc \in {"none", "sent", "read", "kept"}
  /\ call.pc \in {"none", "cancel", "checked", "cancelled", "redeploy",
                  "created"}
  /\ visits \in 0 .. MaxVisit /\ failures \in 0 .. MaxFailure
  /\ own \subseteq DOMAIN table
=============================================================================

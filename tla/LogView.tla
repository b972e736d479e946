------------------------------ MODULE LogView -------------------------------
(***************************************************************************)
(* A panel that shows the lines while they arrive: the polling hook        *)
(* apps/web/hooks/use-deployment-logs.ts, DeploymentsService.getLogs, and  *)
(* the table they read, filled by LogDelivery.  The panel may first show   *)
(* an older, finished deployment, as the Logs tab of a project page does   *)
(* until its list of deployments is refreshed.                             *)
(*                                                                         *)
(* A step of this module is an event of the page together with the effects *)
(* of the renders it causes.                                               *)
(***************************************************************************)
EXTENDS LogDelivery

CONSTANTS
  PageSize,   \* lines of one answer (200 in the hook)
  OldRows,    \* the lines of the older deployment
  MaxUpset    \* bound on how often the tab is left or a request fails

ASSUME ViewAssumption ==
  /\ PageSize \in Nat \ {0} /\ MaxUpset \in Nat
  /\ OldRows \subseteq [line : Int \ Line, stamp : Second]
  /\ \A r, t \in OldRows : r.line = t.line => r = t

VARIABLES
  shown,      \* what the panel is about: "none", "old", "this"
  enabled,    \* its tab is on
  last,       \* lastFetchConfig
  view,       \* logs: what is on the screen
  drip,       \* bufferRef: lines waiting for the typewriter effect
  cursor,     \* cursorRef; 0 is null
  first,      \* isFirstBatchRef
  polling,    \* intervalRef is set
  isLive, isLoading,
  request,    \* the fetch in flight (isFetchingRef)
  late,       \* history: lines stored with a stamp that was read already
  cut,        \* history: lines cut off within the second a page ended in
  gaps,       \* history: why else lines may be missing
  stored,     \* history: lines in the table when the deployment settled
  upsets

refVars == <<last, view, drip, cursor, first>>
gapVars == <<late, cut, gaps>>
viewVars == <<shown, enabled, refVars, polling, isLive, isLoading, request,
              gapVars, upsets>>
vars == <<deliveryVars, viewVars, stored>>

RowsOf(c) == CASE c = "this" -> rows [] c = "old" -> OldRows [] OTHER -> {}
LiveOf(c) == c = "this" /\ ~settled

LinesOf(R) == {r.line : r \in R}
Lines(q) == {q[i].line : i \in DOMAIN q}
OnPanel == Lines(view) \cup Lines(drip)

NoRequest == [pc |-> "none"]
Request == [pc : {"sent", "status", "read"}, of : {"old", "this"},
            after : {0} \cup Second, final : BOOLEAN,
            page : Seq(Row \cup OldRows), cut : SUBSET Line, live : BOOLEAN]

TypeOK ==
  /\ DeliveryTypeOK
  /\ shown \in {"none", "old", "this"} /\ last \in {"none", "old", "this"}
  /\ {enabled, first, polling, isLive, isLoading} \subseteq BOOLEAN
  /\ view \in Seq(Row \cup OldRows) /\ drip \in Seq(Row \cup OldRows)
  /\ cursor \in {0} \cup Second
  /\ request = NoRequest \/
     /\ request \in Request
     /\ Len(request.page) <= PageSize
  /\ late \subseteq Line /\ cut \subseteq Line /\ stored \subseteq Line
  /\ gaps \subseteq {"stale", "stopped", "full"}
  /\ upsets \in 0 .. MaxUpset

Init ==
  /\ DeliveryInit
  /\ shown = "none" /\ last = "none" /\ enabled = FALSE
  /\ view = <<>> /\ drip = <<>> /\ cursor = 0 /\ first = TRUE
  /\ polling = FALSE /\ isLive = FALSE /\ isLoading = TRUE
  /\ request = NoRequest
  /\ late = {} /\ cut = {} /\ gaps = {} /\ stored = {}
  /\ upsets = 0

-----------------------------------------------------------------------------
(* The API. *)

\* Mutant of Matching: the cursor's second is read again.
MatchingAgain(c, after) == {r \in RowsOf(c) : r.stamp >= after}

\* where: the rows after the cursor.
Matching(c, after) == {r \in RowsOf(c) : r.stamp > after}

\* Answers by timestamp; among equal ones the database chooses.
SortedPages(R) ==
  {q \in UNION {[1 .. n -> R] : n \in 0 .. PageSize} :
     \A i, j \in DOMAIN q : i < j => q[i].stamp <= q[j].stamp /\ q[i] # q[j]}

\* Mutant of PagesOf: the last rows are taken.
NewestPages(R) ==
  {q \in SortedPages(R) :
     \A r \in R \ ToSet(q) :
       Len(q) = PageSize /\ \A i \in DOMAIN q : q[i].stamp >= r.stamp}

\* The first rows, as many as there are or as fit.
PagesOf(R) ==
  {q \in SortedPages(R) :
     \A r \in R \ ToSet(q) :
       Len(q) = PageSize /\ \A i \in DOMAIN q : q[i].stamp <= r.stamp}

NextCursor(page, c) == IF page = <<>> THEN c ELSE Last(page).stamp

\* getLogs: the deployment is read, and then the rows.
GetStatus ==
  /\ request.pc = "sent"
  /\ request' = [request EXCEPT !.pc = "status", !.live = LiveOf(request.of)]
  /\ UNCHANGED <<shown, enabled, refVars, polling, isLive, isLoading, gapVars,
                 upsets>>

GetLogs ==
  /\ request.pc = "status"
  /\ LET R == Matching(request.of, request.after)
     IN \E page \in PagesOf(R) :
          request' = [request EXCEPT
            !.pc = "read", !.page = page,
            !.cut = LinesOf({r \in R \ ToSet(page) :
                               r.stamp = NextCursor(page, 0)}) \cap Line]
  /\ UNCHANGED <<shown, enabled, refVars, polling, isLive, isLoading, gapVars,
                 upsets>>

-----------------------------------------------------------------------------
(* The hook. *)

\* fetchLogs, when no other fetch is in flight.
Sent(c, after, final) ==
  [pc |-> "sent", of |-> c, after |-> after, final |-> final,
   page |-> <<>>, cut |-> {}, live |-> FALSE]

\* Mutant of Reset: the cursor of the old deployment is kept.
ResetView(c, g) ==
  /\ last' = c
  /\ IF last = c THEN UNCHANGED <<view, drip, cursor, first, gapVars>>
     ELSE /\ view' = <<>> /\ drip' = <<>> /\ first' = TRUE
          /\ late' = {} /\ cut' = {} /\ gaps' = g
          /\ UNCHANGED cursor

\* The config effect for c, known to start with the gaps g: the panel is
\* cleared when c is new to it.
Reset(c, g) ==
  /\ last' = c
  /\ IF last = c THEN UNCHANGED <<view, drip, cursor, first, gapVars>>
     ELSE /\ view' = <<>> /\ drip' = <<>> /\ cursor' = 0 /\ first' = TRUE
          /\ late' = {} /\ cut' = {} /\ gaps' = g

FetchNow(c) ==
  request' = IF request = NoRequest THEN Sent(c, cursor', FALSE) ELSE request

\* The panel is opened on c, or its tab is left and chosen again.
Mount(c) ==
  /\ shown = "none"
  /\ shown' = c /\ enabled' = TRUE
  /\ Reset(c, {}) /\ FetchNow(c)
  /\ polling' = TRUE
  /\ UNCHANGED <<isLive, isLoading, upsets>>

Leave ==
  /\ shown # "none" /\ enabled
  /\ upsets < MaxUpset
  /\ upsets' = upsets + 1
  /\ enabled' = FALSE /\ polling' = FALSE
  /\ UNCHANGED <<shown, refVars, isLive, isLoading, request, gapVars>>

Return ==
  /\ shown # "none" /\ ~enabled
  /\ enabled' = TRUE /\ polling' = TRUE
  /\ Reset(shown, {}) /\ FetchNow(shown)
  /\ isLoading' = (isLoading \/ last # shown)
  /\ UNCHANGED <<shown, isLive, upsets>>

\* The newest deployment of the project changes.  With the tab on, all
\* three effects run, the third one with the old isLive and isLoading: its
\* fetch finds the new one's first fetch in flight, ends at once, and the
\* interval that was just set is cleared.
Switch ==
  /\ shown = "old"
  /\ shown' = "this"
  /\ IF enabled
     THEN /\ Reset("this", IF isLive \/ isLoading THEN {} ELSE {"stopped"})
          /\ FetchNow("this")
          /\ polling' = (isLive \/ isLoading)
          /\ isLoading' = TRUE
     ELSE UNCHANGED <<refVars, polling, isLoading, request, gapVars>>
  /\ UNCHANGED <<enabled, isLive, upsets>>

Poll ==
  /\ polling /\ request = NoRequest
  /\ request' = Sent(shown, cursor, FALSE)
  /\ UNCHANGED <<shown, enabled, refVars, polling, isLive, isLoading, gapVars,
                 upsets>>

\* Mutant of LastFetch: the interval is cleared without a last fetch.
NoLastFetch(live, c) ==
  /\ polling' = (polling /\ (live \/ ~(isLoading \/ live # isLive)))
  /\ request' = NoRequest

\* The third effect, after an answer that left live and c: a panel that is
\* not live fetches once more and then stops polling.
LastFetch(live, c) ==
  IF request.final
  THEN polling' = FALSE /\ request' = NoRequest
  ELSE /\ polling' = polling
       /\ request' = IF polling /\ ~live /\ (isLoading \/ live # isLive)
                     THEN Sent(shown, c, TRUE) ELSE NoRequest

\* Why lines may be missing once a fetch has ended: it was about another
\* deployment, it was the last one and did not see the end, or it was the
\* last one and there was more than a page.
GapsAfter(ok) ==
  gaps \cup (IF ok /\ request.of # last /\ request.page # <<>>
             THEN {"stale"} ELSE {})
       \cup (IF request.final /\ ~(ok /\ request.of = last /\ ~request.live)
             THEN {"stopped"} ELSE {})
       \cup (IF request.final /\ ok /\ Len(request.page) = PageSize
             THEN {"full"} ELSE {})

Receive ==
  /\ request.pc = "read"
  /\ cursor' = NextCursor(request.page, cursor)
  /\ IF first THEN view' = view \o request.page /\ drip' = drip
     ELSE view' = view /\ drip' = drip \o request.page
  /\ first' = (first /\ request.page = <<>>)
  /\ isLive' = request.live /\ isLoading' = FALSE
  /\ LastFetch(request.live, cursor')
  /\ gaps' = GapsAfter(TRUE)
  /\ cut' = cut \cup (IF request.of = last THEN request.cut ELSE {})
  /\ UNCHANGED <<shown, enabled, last, late, upsets>>

ReceiveError ==
  /\ request # NoRequest
  /\ upsets < MaxUpset
  /\ upsets' = upsets + 1
  /\ isLoading' = FALSE
  /\ LastFetch(isLive, cursor)
  /\ gaps' = GapsAfter(FALSE)
  /\ UNCHANGED <<shown, enabled, refVars, isLive, late, cut>>

Drip ==
  /\ drip # <<>>
  /\ view' = Append(view, Head(drip))
  /\ drip' = Tail(drip)
  /\ UNCHANGED <<shown, enabled, last, cursor, first, polling, isLive,
                 isLoading, request, gapVars, upsets>>

ViewNext ==
  \/ \E c \in {"old", "this"} : Mount(c)
  \/ Leave \/ Return \/ Switch
  \/ Poll \/ GetStatus \/ GetLogs \/ Receive \/ ReceiveError \/ Drip

-----------------------------------------------------------------------------
\* The last second the panel has read, or is about to have read.
Seen == IF request.pc = "read" /\ request.of = last
        THEN NextCursor(request.page, cursor) ELSE cursor

Next ==
  \/ /\ DeliveryNext
     /\ late' = late \cup LinesOf({r \in rows' \ rows :
                                     last = "this" /\ r.stamp <= Seen})
     /\ stored' = IF settled' /\ ~settled THEN LinesOf(rows) ELSE stored
     /\ UNCHANGED <<shown, enabled, refVars, polling, isLive, isLoading,
                    request, cut, gaps, upsets>>
  \/ ViewNext /\ UNCHANGED <<deliveryVars, stored>>

Spec == Init /\ [][Next]_vars

\* The interval fires while it is set, the API answers, timers run.
Fairness ==
  /\ DeliveryFairness
  /\ WF_viewVars(Poll \/ GetStatus \/ GetLogs \/ Receive) /\ WF_viewVars(Drip)

FairSpec == Spec /\ Fairness

-----------------------------------------------------------------------------
(* Properties. *)

\* A line of the deployment that lies before the cursor is on the panel, or
\* it was stored with a second the panel had read already, or its second was
\* cut at the end of a page, or the answer to a question about another
\* deployment moved the cursor (use-deployment-logs.ts:84-117,
\* deployments.service.ts:229-243).
SkippedAreKnown ==
  last = "this" /\ "stale" \notin gaps =>
    LinesOf({r \in rows : r.stamp <= cursor})
      \subseteq OnPanel \cup late \cup cut

\* Whatever overlaps, the panel shows lines by time and none of them twice:
\* one fetch at a time, and each answer lies after the cursor
\* (use-deployment-logs.ts:84-103).
ShownInOrder ==
  LET all == view \o drip
  IN \A i, j \in DOMAIN all :
       i < j => all[i].stamp <= all[j].stamp /\ all[i].line # all[j].line

\* A panel that has stopped polling after it saw the end of the deployment,
\* and whose last answer had room left, has every line that was stored before
\* the status changed (use-deployment-logs.ts:159-168).
StoppedSawAll ==
  /\ shown = "this" /\ last = "this" /\ enabled
  /\ ~polling /\ request = NoRequest /\ gaps = {}
  => settled /\ stored \cap LinesOf(rows) \subseteq OnPanel \cup late \cup cut

\* While the panel polls, what is stored comes to be shown, but for the
\* reasons above (use-deployment-logs.ts:144-157).
Unshown == IF last = "this"
           THEN LinesOf(rows) \ (Lines(view) \cup late \cup cut) ELSE {}

PolledAreShown ==
  Unshown # {} ~> Unshown = {} \/ ~polling \/ "stale" \in gaps
=============================================================================

----------------------------- MODULE Analytics ------------------------------
(***************************************************************************)
(* The charts of analytics.service.ts.  getOverview takes the time, asks   *)
(* for the deployments of its window, and then counts them by the calendar *)
(* days it has counted off from the start of the window; deployments go on *)
(* starting and ending meanwhile.  An hour is the unit of time and a day   *)
(* has DayHours of them; the process runs in UTC, as containers do, so a   *)
(* step of setDate is one day.                                             *)
(***************************************************************************)
EXTENDS Integers, FiniteSets, FiniteSetsExt

CONSTANTS
  DayHours,  \* hours of a day
  Days,      \* days of the window: thirty in the code
  MaxHour,   \* bound on the clock
  MaxStart   \* bound on the deployments

ASSUME AnalyticsAssumption ==
  {DayHours, Days, MaxHour, MaxStart} \subseteq Nat \ {0}

VARIABLES
  hour,      \* the clock
  started,   \* table Deployment: startedAt, isSuccess, and status as far as
             \* it is counted
  overview   \* a request for the overview: its time and its rows

analyticsVars == <<hour, started, overview>>

NoOverview == [pc |-> "idle", now |-> 0, rows |-> {}]

\* The clock is that of a day a whole window after day 0.
AnalyticsInit ==
  /\ hour \in Days * DayHours .. (Days + 1) * DayHours - 1
  /\ started = {} /\ overview = NoOverview

-----------------------------------------------------------------------------
(* The table *)

Tick ==
  /\ hour < MaxHour
  /\ hour' = hour + 1
  /\ UNCHANGED <<started, overview>>

StartDeployment ==
  /\ Cardinality(started) < MaxStart
  /\ started' = started \cup {[id |-> Cardinality(started), startedAt |-> hour,
                               status |-> "BUILDING", isSuccess |-> FALSE]}
  /\ UNCHANGED <<hour, overview>>

\* A deployment that has become READY keeps isSuccess, whatever comes after.
EndDeployment(r, status) ==
  /\ IF status = "SUPERSEDED" THEN r.status = "READY" ELSE r.status = "BUILDING"
  /\ started' = (started \ {r}) \cup
       {[r EXCEPT !.status = status, !.isSuccess = @ \/ status = "READY"]}
  /\ UNCHANGED <<hour, overview>>

-----------------------------------------------------------------------------
(* GET /analytics/overview *)

\* thirtyDaysAgo
WindowStart(now) == now - Days * DayHours

\* const now = new Date()
GetOverview ==
  /\ overview.pc = "idle"
  /\ overview' = [pc |-> "asked", now |-> hour, rows |-> {}]
  /\ UNCHANGED <<hour, started>>

\* The rows have a lower bound in time and no upper one.
FindRecent ==
  /\ overview.pc = "asked"
  /\ overview' = [overview EXCEPT !.pc = "found",
       !.rows = {r \in started : r.startedAt >= WindowStart(overview.now)}]
  /\ UNCHANGED <<hour, started>>

OverviewAnswered ==
  /\ overview.pc = "found"
  /\ overview' = NoOverview
  /\ UNCHANGED <<hour, started>>

\* toISOString().split("T")[0]
DayOf(t) == t \div DayHours

\* Mutant of DaysCharted: current < endDate.
DaysBeforeEnd(start, end) ==
  {DayOf(t) :
     t \in {start + k * DayHours : k \in 0 .. Days + 1} \cap 0 .. end - 1}

\* The keys of dayMap: from the start of the window in steps of a day, while
\* the time is not after its end.
DaysCharted(start, end) ==
  {DayOf(t) : t \in {start + k * DayHours : k \in 0 .. Days + 1} \cap 0 .. end}

\* The entry of a day; rows of days that have none are passed over.
DayEntry(R, day) ==
  LET D == {r \in R : DayOf(r.startedAt) = day}
  IN  [total |-> Cardinality(D),
       success |-> Cardinality({r \in D : r.isSuccess}),
       failed |-> Cardinality({r \in D : r.status = "FAILED"})]

groupByDay(R, start, end) ==
  [day \in DaysCharted(start, end) |-> DayEntry(R, day)]

AnalyticsNext ==
  \/ Tick \/ StartDeployment \/ GetOverview \/ FindRecent \/ OverviewAnswered
  \/ \E r \in started, status \in {"READY", "FAILED", "SUPERSEDED"} :
       EndDeployment(r, status)

AnalyticsSpec == AnalyticsInit /\ [][AnalyticsNext]_analyticsVars

-----------------------------------------------------------------------------
AnalyticsTypeOK ==
  /\ hour \in Days * DayHours .. MaxHour
  /\ started \subseteq [id : 0 .. MaxStart - 1, startedAt : Nat,
                        status : {"BUILDING", "READY", "FAILED", "SUPERSEDED"},
                        isSuccess : BOOLEAN]
  /\ overview.pc \in {"idle", "asked", "found"}
  /\ overview.now \in 0 .. MaxHour
  /\ \A r \in overview.rows : \E q \in started : q.id = r.id

Total(chart, f) == MapThenSumSet(LAMBDA day : chart[day][f], DOMAIN chart)

\* The chart has one more day than the window, because both ends lie within a
\* day, and every deployment that the overview has found is in one of them:
\* the columns add up to the rows, and none is left out but those that started
\* after the request on a later day (analytics.service.ts:10-12, 48-52,
\* 279-309).
ChartCountsAll ==
  overview.pc = "found" =>
    LET now == overview.now
        chart == groupByDay(overview.rows, WindowStart(now), now)
        inTime == {r \in overview.rows : DayOf(r.startedAt) <= DayOf(now)}
        ended == {r \in inTime : r.status # "BUILDING"}
    IN  /\ Cardinality(DOMAIN chart) = Days + 1
        /\ Total(chart, "total") = Cardinality(inTime)
        /\ Total(chart, "success") + Total(chart, "failed") = Cardinality(ended)
=============================================================================

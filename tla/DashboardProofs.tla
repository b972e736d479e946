--------------------------- MODULE DashboardProofs --------------------------
(***************************************************************************)
(* What the dashboard shows and keeps, for any number of tabs, requests,   *)
(* variables and saves.  The session: nobody waits in vain, a logout is    *)
(* final, and the session ends only for a reason.  The variables: the      *)
(* table is that of one save unless transactions overlapped, and the panel *)
(* and the banner tell what is in it.  The settings: the row is that of    *)
(* one form, and the user is told one outcome of a build.  The lists: one  *)
(* that awaits no answer has what the tab has created.  The charts: their  *)
(* columns add up to the rows; the sum is a fold over the days, so the     *)
(* proof shows that the function which counts rows by days satisfies the   *)
(* recursion of the fold, and that only one function does.                 *)
(***************************************************************************)
EXTENDS WebSession, Configuration, OwnerSettings, DeploymentPages, Analytics,
        FiniteSetTheorems, TLAPS
-----------------------------------------------------------------------------
(* Sums over a finite set. *)

\* h is the fold of MapThenSumSet: the sum of c over S, summand by summand.
SumOf(h, c, S) ==
  h = [s \in SUBSET S |->
         IF s = {} THEN 0
         ELSE c[CHOOSE x \in s : TRUE] + h[s \ {CHOOSE x \in s : TRUE}]]

LEMMA SumIsUnique ==
  ASSUME NEW S, IsFiniteSet(S), NEW c, NEW h, NEW g,
         SumOf(h, c, S), SumOf(g, c, S)
  PROVE  h[S] = g[S]
<1> DEFINE T == {s \in SUBSET S : h[s] # g[s]}
           O == StrictSubsetOrdering(S)
           F == FiniteSubsetsOf(S)
<1>1. SUFFICES ASSUME T # {} PROVE FALSE
  OBVIOUS
<1>2. T \subseteq F
  BY FS_FiniteSubsetsOfFinite
<1>3. IsWellFoundedOn(O, F)
  BY FS_StrictSubsetOrderingWellFounded
<1>4. PICK s \in T : \A t \in T : <<t, s>> \notin O
  <2> HIDE DEF T, O, F
  <2> QED BY <1>1, <1>2, <1>3, WFMin
<1>5. s # {}
  BY <1>4 DEF SumOf
<1> DEFINE x == CHOOSE y \in s : TRUE
           t == s \ {x}
<1>6. x \in s /\ t \in SUBSET S /\ t # s
  BY <1>5
<1>7. <<t, s>> \in O
  BY <1>6 DEF StrictSubsetOrdering
<1>8. h[t] = g[t]
  BY <1>4, <1>6, <1>7
<1>9. h[s] = c[x] + h[t] /\ g[s] = c[x] + g[t]
  BY <1>5 DEF SumOf
<1> QED BY <1>4, <1>8, <1>9

\* The total of a column is what is counted at all its days, when the counts
\* are a sum.
LEMMA TotalIsTheSum ==
  ASSUME NEW chart, IsFiniteSet(DOMAIN chart), NEW f, NEW g,
         SumOf(g, [day \in DOMAIN chart |-> chart[day][f]], DOMAIN chart)
  PROVE  Total(chart, f) = g[DOMAIN chart]
<1> DEFINE S == DOMAIN chart
           c == [day \in S |-> chart[day][f]]
           R(h) == h = [s \in SUBSET S |->
                          IF s = {} THEN 0
                          ELSE chart[CHOOSE x \in s : TRUE][f]
                                 + h[s \ {CHOOSE x \in s : TRUE}]]
<1>1. \A h : R(h) <=> SumOf(h, c, S)
  BY DEF SumOf
<1>2. Total(chart, f) = (CHOOSE h : R(h))[S]
  BY DEF Total, MapThenSumSet, MapThenFoldSet
<1> HIDE DEF R
<1>3. R(CHOOSE h : R(h))
  BY <1>1
<1>4. SumOf(CHOOSE h : R(h), c, S)
  BY <1>1, <1>3
<1> HIDE DEF c
<1> QED BY <1>2, <1>4, SumIsUnique DEF c

\* How many rows of R are of the days in s.
RowsIn(R, s) == {r \in R : DayOf(r.startedAt) \in s}

LEMMA CountsAreASum ==
  ASSUME NEW S, NEW R, IsFiniteSet(R)
  PROVE  SumOf([s \in SUBSET S |-> Cardinality(RowsIn(R, s))],
               [day \in S |-> Cardinality(RowsIn(R, {day}))], S)
<1> DEFINE g == [s \in SUBSET S |-> Cardinality(RowsIn(R, s))]
           c == [day \in S |-> Cardinality(RowsIn(R, {day}))]
<1>1. g[{}] = 0
  BY FS_EmptySet DEF RowsIn
<1>2. ASSUME NEW s \in SUBSET S, s # {}
      PROVE  g[s] = c[CHOOSE x \in s : TRUE] + g[s \ {CHOOSE x \in s : TRUE}]
  <2> DEFINE x == CHOOSE y \in s : TRUE
             A == RowsIn(R, {x})
             B == RowsIn(R, s \ {x})
  <2>1. x \in s /\ x \in S /\ s \ {x} \in SUBSET S
    BY <1>2
  <2>2. A \cup B = RowsIn(R, s) /\ A \cap B = {}
    BY <2>1 DEF RowsIn
  <2>3. A \in SUBSET R /\ B \in SUBSET R
    BY DEF RowsIn
  <2>4. IsFiniteSet(A) /\ IsFiniteSet(B)
    BY <2>3, FS_Subset
  <2>5. Cardinality(RowsIn(R, s)) = Cardinality(A) + Cardinality(B)
    <3>1. Cardinality(A) \in Nat /\ Cardinality(B) \in Nat
      BY <2>4, FS_CardinalityType
    <3>2. Cardinality(A \cup B) = Cardinality(A) + Cardinality(B)
                                   - Cardinality(A \cap B)
      BY <2>4, FS_Union
    <3>3. Cardinality(A \cap B) = 0
      BY <2>2, FS_EmptySet
    <3> HIDE DEF A, B
    <3> QED BY <2>2, <3>1, <3>2, <3>3
  <2> QED BY <2>1, <2>5
<1> HIDE DEF c
<1>3. g = [s \in SUBSET S |->
             IF s = {} THEN 0
             ELSE c[CHOOSE x \in s : TRUE] + g[s \ {CHOOSE x \in s : TRUE}]]
  <2> DEFINE k == [s \in SUBSET S |->
             IF s = {} THEN 0
             ELSE c[CHOOSE x \in s : TRUE] + g[s \ {CHOOSE x \in s : TRUE}]]
  <2>1. \A s \in SUBSET S : g[s] = k[s]
    BY <1>1, <1>2
  <2>2. g = [s \in SUBSET S |-> g[s]] /\ k = [s \in SUBSET S |-> k[s]]
    OBVIOUS
  <2> HIDE DEF g, k
  <2>3. g = k
    BY <2>1, <2>2
  <2> QED BY <2>3 DEF k
<1> QED BY <1>3 DEF SumOf, c

-----------------------------------------------------------------------------
(* Days. *)

LEMMA DivBounds ==
  ASSUME NEW a \in Nat, NEW d \in Nat \ {0}
  PROVE  /\ a \div d \in Nat
         /\ d * (a \div d) <= a /\ a < d * (a \div d) + d
  OBVIOUS

LEMMA DivUnique ==
  ASSUME NEW a \in Int, NEW d \in Nat \ {0}, NEW p \in Int, NEW q \in Int,
         d * p <= a, a < d * p + d, d * q <= a, a < d * q + d
  PROVE  p = q
  OBVIOUS

LEMMA DivShift ==
  ASSUME NEW a \in Nat, NEW k \in Nat, NEW d \in Nat \ {0}
  PROVE  (a + k * d) \div d = (a \div d) + k
<1> DEFINE q == a \div d
           b == a + k * d
           p == b \div d
<1>1. q \in Nat /\ d * q <= a /\ a < d * q + d
  BY DivBounds
<1>2. b \in Nat
  OBVIOUS
<1>3. p \in Nat /\ d * p <= b /\ b < d * p + d
  BY <1>2, DivBounds
<1>4. d * (q + k) <= b /\ b < d * (q + k) + d
  BY <1>1
<1> HIDE DEF p, q, b
<1>5. p = q + k
  BY <1>1, <1>2, <1>3, <1>4, DivUnique
<1> QED BY <1>5 DEF p, q, b

LEMMA DivMonotone ==
  ASSUME NEW a \in Nat, NEW b \in Nat, NEW d \in Nat \ {0}, a <= b
  PROVE  a \div d <= b \div d
<1>1. /\ a \div d \in Nat /\ b \div d \in Nat
      /\ d * (a \div d) <= a /\ b < d * (b \div d) + d
  BY DivBounds
<1>2. ASSUME NEW p \in Nat, NEW q \in Nat, d * p <= a, b < d * q + d, q < p
      PROVE  FALSE
  <2>1. d * (q + 1) <= d * p
    BY <1>2
  <2>2. d * (q + 1) = d * q + d
    OBVIOUS
  <2> QED BY <1>2, <2>1, <2>2
<1> QED BY <1>1, <1>2

LEMMA MulMonotone ==
  ASSUME NEW k \in Nat, NEW n \in Nat, NEW d \in Nat \ {0}
  PROVE  k * d <= n * d <=> k <= n
<1>1. k <= n => k * d <= n * d
  OBVIOUS
<1>2. ASSUME n < k PROVE n * d < k * d
  <2>1. (n + 1) * d <= k * d
    BY <1>2
  <2>2. (n + 1) * d = n * d + d
    OBVIOUS
  <2> QED BY <2>1, <2>2
<1>3. k * d \in Nat /\ n * d \in Nat
  OBVIOUS
<1> QED BY <1>1, <1>2, <1>3

\* The columns are the days from that of the window's start to today's.
LEMMA DaysOfTheChart ==
  ASSUME NEW now \in Nat, Days * DayHours <= now
  PROVE  LET first == DayOf(WindowStart(now))
         IN  /\ first \in Nat /\ WindowStart(now) \in Nat
             /\ DayOf(now) = first + Days
             /\ DaysCharted(WindowStart(now), now) = first .. first + Days
<1> DEFINE s == WindowStart(now)
           first == DayOf(s)
           K == 0 .. Days + 1
<1>1. Days \in Nat \ {0} /\ DayHours \in Nat \ {0} /\ Days * DayHours \in Nat
  BY AnalyticsAssumption
<1>2. s \in Nat /\ now = s + Days * DayHours
  BY <1>1 DEF WindowStart
<1>3. first \in Nat
  BY <1>1, <1>2, DivBounds DEF DayOf
<1>4. ASSUME NEW k \in Nat PROVE DayOf(s + k * DayHours) = first + k
  BY <1>1, <1>2, DivShift DEF DayOf
<1>5. ASSUME NEW k \in K
      PROVE  s + k * DayHours \in 0 .. now <=> k <= Days
  <2>1. k \in Nat /\ k * DayHours \in Nat
    BY <1>1
  <2>2. k * DayHours <= Days * DayHours <=> k <= Days
    BY <1>1, <2>1, MulMonotone
  <2> HIDE DEF s
  <2> QED BY <1>1, <1>2, <2>1, <2>2
<1>6. DaysCharted(s, now)
        = {DayOf(t) : t \in {s + k * DayHours : k \in K} \cap 0 .. now}
  BY DEF DaysCharted
<1> HIDE DEF s, first
<1>7. ASSUME NEW day \in DaysCharted(s, now) PROVE day \in first .. first + Days
  <2>1. PICK k \in K : /\ day = DayOf(s + k * DayHours)
                       /\ s + k * DayHours \in 0 .. now
    BY <1>6, <1>7
  <2>2. k \in Nat /\ k <= Days
    BY <1>1, <1>5, <2>1
  <2> QED BY <1>1, <1>3, <1>4, <2>1, <2>2
<1>8. ASSUME NEW day \in first .. first + Days PROVE day \in DaysCharted(s, now)
  <2>1. day - first \in K /\ day - first \in Nat /\ day - first <= Days
    BY <1>1, <1>3
  <2>2. /\ DayOf(s + (day - first) * DayHours) = day
        /\ s + (day - first) * DayHours \in 0 .. now
    BY <1>3, <1>4, <1>5, <2>1
  <2> QED BY <1>6, <2>1, <2>2
<1>9. DaysCharted(s, now) = first .. first + Days
  BY <1>7, <1>8
<1>10. DayOf(now) = first + Days
  BY <1>1, <1>2, <1>4
<1> QED BY <1>2, <1>3, <1>9, <1>10 DEF s, first

-----------------------------------------------------------------------------
(* The overview. *)

ChartStatus == {"BUILDING", "READY", "FAILED", "SUPERSEDED"}
ChartRow ==
  [id : Nat, startedAt : Nat, status : ChartStatus, isSuccess : BOOLEAN]
Started ==
  {r \in ChartRow : r.isSuccess <=> r.status \in {"READY", "SUPERSEDED"}}

\* What an overview has found is of its window, and its window does not begin
\* before the first day.
ChartInv ==
  /\ hour \in Nat /\ Days * DayHours <= hour
  /\ started \subseteq Started /\ IsFiniteSet(started)
  /\ overview \in [pc : {"idle", "asked", "found"}, now : Nat,
                   rows : SUBSET Started]
  /\ overview.pc # "idle" => Days * DayHours <= overview.now
  /\ overview.pc = "found" =>
       /\ IsFiniteSet(overview.rows)
       /\ \A r \in overview.rows : WindowStart(overview.now) <= r.startedAt

LEMMA InitChart == AnalyticsInit => ChartInv
<1> SUFFICES ASSUME AnalyticsInit PROVE ChartInv
  OBVIOUS
<1>1. Days * DayHours \in Nat /\ (Days + 1) * DayHours - 1 \in Int
  BY AnalyticsAssumption
<1>2. hour \in Nat /\ Days * DayHours <= hour
  BY <1>1 DEF AnalyticsInit
<1> QED BY <1>2, FS_EmptySet DEF AnalyticsInit, ChartInv, NoOverview

LEMMA NextChart ==
  ASSUME ChartInv, [AnalyticsNext]_analyticsVars
  PROVE  ChartInv'
<1>1. CASE Tick
  <2>1. Days * DayHours \in Nat
    BY AnalyticsAssumption
  <2> QED BY <1>1, <2>1 DEF Tick, ChartInv
<1>2. CASE StartDeployment
  <2> DEFINE r == [id |-> Cardinality(started), startedAt |-> hour,
                   status |-> "BUILDING", isSuccess |-> FALSE]
  <2>1. started' = started \cup {r} /\ UNCHANGED <<hour, overview>>
    BY <1>2 DEF StartDeployment
  <2>2. r \in Started
    BY FS_CardinalityType DEF ChartInv, Started, ChartRow, ChartStatus
  <2> HIDE DEF r
  <2>3. IsFiniteSet(started \cup {r})
    BY FS_AddElement DEF ChartInv
  <2> QED BY <2>1, <2>2, <2>3 DEF ChartInv
<1>3. ASSUME NEW r \in started,
             NEW status \in {"READY", "FAILED", "SUPERSEDED"},
             EndDeployment(r, status)
      PROVE  ChartInv'
  <2> DEFINE q == [r EXCEPT !.status = status,
                            !.isSuccess = @ \/ status = "READY"]
  <2>1. /\ started' = (started \ {r}) \cup {q}
        /\ UNCHANGED <<hour, overview>>
    BY <1>3 DEF EndDeployment
  <2>2. q \in Started
    <3>1. /\ r \in ChartRow
          /\ r.isSuccess <=> r.status \in {"READY", "SUPERSEDED"}
      BY <1>3 DEF ChartInv, Started
    <3>2. q \in ChartRow
      BY <1>3, <3>1 DEF ChartRow, ChartStatus
    <3>3. q.status = status /\ q.isSuccess = (r.isSuccess \/ status = "READY")
      BY <3>1 DEF ChartRow
    <3>4. status = "SUPERSEDED" => r.status = "READY"
      BY <1>3 DEF EndDeployment
    <3>5. status # "SUPERSEDED" => r.status = "BUILDING"
      BY <1>3 DEF EndDeployment
    <3>6. q.isSuccess <=> q.status \in {"READY", "SUPERSEDED"}
      BY <1>3, <3>1, <3>3, <3>4, <3>5
    <3> HIDE DEF q
    <3> QED BY <3>2, <3>6 DEF Started
  <2> HIDE DEF q
  <2>3. IsFiniteSet((started \ {r}) \cup {q})
    BY FS_RemoveElement, FS_AddElement DEF ChartInv
  <2> QED BY <2>1, <2>2, <2>3 DEF ChartInv
<1>4. CASE GetOverview
  BY <1>4 DEF GetOverview, ChartInv
<1>5. CASE FindRecent
  <2> DEFINE R == {r \in started : r.startedAt >= WindowStart(overview.now)}
  <2>1. /\ overview.pc = "asked" /\ UNCHANGED <<hour, started>>
        /\ overview'.pc = "found" /\ overview'.now = overview.now
        /\ overview'.rows = R
    BY <1>5 DEF FindRecent, ChartInv
  <2>2. R \subseteq Started /\ IsFiniteSet(R)
    BY FS_Subset DEF ChartInv
  <2>3. overview.now \in Nat /\ Days * DayHours <= overview.now
    BY <2>1 DEF ChartInv
  <2>4. \A r \in R : WindowStart(overview.now) <= r.startedAt
    <3>1. WindowStart(overview.now) \in Int
      BY <2>3, AnalyticsAssumption DEF WindowStart
    <3>2. \A r \in R : r.startedAt \in Nat
      BY DEF ChartInv, Started, ChartRow
    <3> QED BY <3>1, <3>2
  <2>5. overview' \in [pc : {"idle", "asked", "found"}, now : Nat,
                      rows : SUBSET Started]
    <3>1. overview' = [overview EXCEPT !.pc = "found", !.rows = R]
      BY <1>5 DEF FindRecent
    <3>2. overview \in [pc : {"idle", "asked", "found"}, now : Nat,
                        rows : SUBSET Started]
      BY DEF ChartInv
    <3> HIDE DEF R
    <3> QED BY <2>2, <3>1, <3>2
  <2> HIDE DEF R
  <2> QED BY <2>1, <2>2, <2>3, <2>4, <2>5 DEF ChartInv, WindowStart
<1>6. CASE OverviewAnswered
  BY <1>6 DEF OverviewAnswered, ChartInv, NoOverview
<1>7. CASE UNCHANGED analyticsVars
  BY <1>7 DEF analyticsVars, ChartInv, WindowStart
<1> QED BY <1>1, <1>2, <1>3, <1>4, <1>5, <1>6, <1>7 DEF AnalyticsNext

LEMMA ChartAddsUp == ChartInv => ChartCountsAll
<1> SUFFICES ASSUME ChartInv, overview.pc = "found" PROVE ChartCountsAll
  BY DEF ChartCountsAll
<1> DEFINE now == overview.now
           R == overview.rows
           start == WindowStart(now)
           first == DayOf(start)
           S == DaysCharted(start, now)
           chart == groupByDay(R, start, now)
           inTime == {r \in R : DayOf(r.startedAt) <= DayOf(now)}
           ended == {r \in inTime : r.status # "BUILDING"}
           Succeeded == {r \in R : r.isSuccess}
           Failed == {r \in R : r.status = "FAILED"}
<1>1. /\ now \in Nat /\ Days * DayHours <= now
      /\ R \subseteq Started /\ IsFiniteSet(R)
      /\ \A r \in R : start <= r.startedAt
  BY DEF ChartInv
<1>2. /\ first \in Nat /\ start \in Nat /\ DayOf(now) = first + Days
      /\ S = first .. first + Days
  <2> HIDE DEF now
  <2> QED BY <1>1, DaysOfTheChart
<1>3. IsFiniteSet(S) /\ Cardinality(S) = Days + 1
  <2>1. Days \in Nat /\ first \in Int /\ first + Days \in Int
    BY <1>2, AnalyticsAssumption
  <2> HIDE DEF first, S
  <2> QED BY <1>2, <2>1, FS_Interval
<1>4. \A r \in R : DayOf(r.startedAt) \in S <=> r \in inTime
  <2> TAKE r \in R
  <2>1. r.startedAt \in Nat /\ start <= r.startedAt
    BY <1>1 DEF Started, ChartRow
  <2>2. DayHours \in Nat \ {0} /\ Days \in Nat
    BY AnalyticsAssumption
  <2>3. DayOf(r.startedAt) \in Nat /\ first <= DayOf(r.startedAt)
    BY <1>2, <2>1, <2>2, DivBounds, DivMonotone DEF DayOf
  <2> HIDE DEF first, S
  <2> QED BY <1>2, <2>2, <2>3
<1>5. /\ DOMAIN chart = S
      /\ \A day \in S :
           /\ chart[day]["total"] = Cardinality(RowsIn(R, {day}))
           /\ chart[day]["success"] = Cardinality(RowsIn(Succeeded, {day}))
           /\ chart[day]["failed"] = Cardinality(RowsIn(Failed, {day}))
  <2>1. ASSUME NEW day
        PROVE  LET D == {r \in R : DayOf(r.startedAt) = day}
               IN  /\ D = RowsIn(R, {day})
                   /\ {r \in D : r.isSuccess}
                        = RowsIn(Succeeded, {day})
                   /\ {r \in D : r.status = "FAILED"}
                        = RowsIn(Failed, {day})
    BY DEF RowsIn
  <2>2. DOMAIN chart = S /\ \A day \in S : chart[day] = DayEntry(R, day)
    BY DEF groupByDay
  <2> HIDE DEF S, R, chart, Succeeded, Failed
  <2>3. ASSUME NEW day \in S
        PROVE  /\ chart[day]["total"] = Cardinality(RowsIn(R, {day}))
               /\ chart[day]["success"] = Cardinality(RowsIn(Succeeded, {day}))
               /\ chart[day]["failed"] = Cardinality(RowsIn(Failed, {day}))
    <3> DEFINE D == {r \in R : DayOf(r.startedAt) = day}
               s1 == Cardinality({r \in D : r.isSuccess})
               f1 == Cardinality({r \in D : r.status = "FAILED"})
               t1 == Cardinality(D)
    <3>1. chart[day] = [total |-> t1, success |-> s1, failed |-> f1]
      BY <2>2 DEF DayEntry
    <3>2. /\ t1 = Cardinality(RowsIn(R, {day}))
          /\ s1 = Cardinality(RowsIn(Succeeded, {day}))
          /\ f1 = Cardinality(RowsIn(Failed, {day}))
      BY <2>1
    <3> HIDE DEF t1, s1, f1
    <3> QED BY <3>1, <3>2
  <2> QED BY <2>1, <2>2, <2>3
<1> HIDE DEF chart, S, R, Succeeded, Failed
<1>6. ASSUME NEW f, NEW Q, IsFiniteSet(Q),
             \A day \in S : chart[day][f] = Cardinality(RowsIn(Q, {day}))
      PROVE  Total(chart, f)
               = Cardinality(RowsIn(Q, S))
  <2> DEFINE g == [s \in SUBSET S |-> Cardinality(RowsIn(Q, s))]
             c == [day \in S |-> Cardinality(RowsIn(Q, {day}))]
             e == [day \in S |-> chart[day][f]]
  <2>1. c = e
    BY <1>6
  <2>2. SumOf(g, c, S)
    BY <1>6, CountsAreASum
  <2>3. g[S] = Cardinality(RowsIn(Q, S))
    OBVIOUS
  <2> HIDE DEF g, c
  <2>4. Total(chart, f) = g[S]
    BY <1>3, <1>5, <2>1, <2>2, TotalIsTheSum
  <2> QED BY <2>3, <2>4
<1>7. IsFiniteSet(Succeeded) /\ IsFiniteSet(Failed)
  BY <1>1, FS_Subset DEF Succeeded, Failed
<1>8. Total(chart, "total") = Cardinality(inTime)
  <2>1. RowsIn(R, S) = inTime
    BY <1>4 DEF RowsIn
  <2>2. \A day \in S : chart[day]["total"] = Cardinality(RowsIn(R, {day}))
    BY <1>5
  <2> QED BY <1>1, <1>6, <2>1, <2>2, Zenon
<1>9. Total(chart, "success")
        + Total(chart, "failed")
        = Cardinality(ended)
  <2> DEFINE A == RowsIn(Succeeded, S)
             B == RowsIn(Failed, S)
  <2>1. /\ Total(chart, "success") = Cardinality(A)
        /\ Total(chart, "failed") = Cardinality(B)
    <3>1. /\ \A day \in S : chart[day]["success"]
                             = Cardinality(RowsIn(Succeeded, {day}))
          /\ \A day \in S : chart[day]["failed"]
                             = Cardinality(RowsIn(Failed, {day}))
      BY <1>5
    <3> QED BY <1>6, <1>7, <3>1, Zenon
  <2>2. A \cup B = ended /\ A \cap B = {}
    BY <1>1, <1>4 DEF RowsIn, Succeeded, Failed, Started, ChartRow, ChartStatus
  <2>3. IsFiniteSet(A) /\ IsFiniteSet(B)
    BY <1>7, FS_Subset DEF RowsIn
  <2>4. Cardinality(A) \in Nat /\ Cardinality(B) \in Nat
    BY <2>3, FS_CardinalityType
  <2>5. Cardinality(A \cup B) = Cardinality(A) + Cardinality(B)
                                 - Cardinality(A \cap B)
    BY <2>3, FS_Union
  <2>6. Cardinality(A \cap B) = 0
    BY <2>2, FS_EmptySet
  <2>7. Cardinality(ended) = Cardinality(A) + Cardinality(B)
    <3> HIDE DEF A, B, ended
    <3> QED BY <2>2, <2>4, <2>5, <2>6
  <2> HIDE DEF A, B, ended
  <2> QED BY <2>1, <2>7
<1> QED BY <1>3, <1>5, <1>8, <1>9
        DEF ChartCountsAll, chart, S, R, inTime, ended

\* The chart has one column more than the window has days, and its columns add
\* up to the rows found, but for those of a later day: for every length of the
\* window and of a day, and whatever starts and ends while a request is under
\* way (analytics.service.ts:10-12, 48-52, 279-309).
THEOREM ChartAlwaysCountsAll == AnalyticsSpec => []ChartCountsAll
<1> QED BY InitChart, NextChart, ChartAddsUp, PTL DEF AnalyticsSpec

-----------------------------------------------------------------------------
(* The session. *)

USE SessionAssumption

Steps == {"new", "sent", "waiting", "retry", "answered", "done"}
Places == {"idle", "sent", "checked", "issued", "refused"}

\* The types without the bound on the number of tokens.
Types ==
  /\ access \in {"none", "good", "old"} /\ refresh \in Nat
  /\ page \in [Tab -> {"in", "out"}]
  /\ step \in [Call -> Steps]
  /\ kind \in [Call -> RequestKind]
  /\ sent \in [Call -> {"none", "good", "old"}]
  /\ exchange \in [Client -> [pc : Places, token : Nat]]
  /\ issued \in Nat /\ hash \in Nat /\ expired \in Nat
  /\ {left, upset, revoked, overlap} \subseteq BOOLEAN

LEMMA TabsAndCalls ==
  /\ Tab \subseteq Client /\ Call \subseteq Client
  /\ \A r \in Call : tabOf[r] \in Tab
  /\ \A t \in Tab, r \in Call : t # r
  BY DEF Client

LEMMA FinishTypes ==
  ASSUME Types, NEW r \in Call, Finish(r)
  PROVE  /\ step' \in [Call -> Steps] /\ kind' \in [Call -> RequestKind]
         /\ sent' \in [Call -> {"none", "good", "old"}]
  BY DEF Types, Finish, Steps, RequestKind

LEMMA SignOutTypes ==
  ASSUME Types, NEW t \in Tab, SignOut(t)
  PROVE  /\ access' \in {"none", "good", "old"} /\ refresh' \in Nat
         /\ page' \in [Tab -> {"in", "out"}]
  BY DEF Types, SignOut, ClearTokens, NoToken

LEMMA IdleType == Idle \in [pc : Places, token : Nat]
  BY DEF Idle, Places, NoToken

LEMMA InitTypes == SessionInit => Types
<1> SUFFICES ASSUME SessionInit PROVE Types
  OBVIOUS
<1> USE DEF SessionInit, Idle, NoToken
<1>1. exchange \in [Client -> [pc : Places, token : Nat]]
  BY DEF Places
<1>2. step \in [Call -> Steps] /\ kind \in [Call -> RequestKind]
  BY DEF Steps, RequestKind
<1> QED BY <1>1, <1>2 DEF Types

\* Requests of a tab.
LEMMA RequestTypes ==
  ASSUME Types, NEW r \in Call,
         \/ \E k \in RequestKind \ {"navigate"} : Ask(r, k)
         \/ Succeed(r) \/ LoggedOut(r) \/ Unauthorized(r) \/ Break(r)
  PROVE  Types'
<1> USE DEF Types, cookieVars, requestVars, serverVars, timeVars
<1>0. tabOf[r] \in Tab /\ tabOf[r] \in Client
  BY TabsAndCalls
<1>1. ASSUME NEW k \in RequestKind \ {"navigate"}, Ask(r, k) PROVE Types'
  BY <1>1 DEF Ask, Steps
<1>2. CASE Succeed(r)
  <2>1. /\ step' \in [Call -> Steps] /\ kind' \in [Call -> RequestKind]
        /\ sent' \in [Call -> {"none", "good", "old"}]
    BY <1>2, FinishTypes DEF Succeed, Steps
  <2>2. hash' \in Nat /\ issued' = issued
    <3>1. hash' \in {NoToken, hash} /\ issued' = issued
      BY <1>2, Zenon DEF Succeed, Revoke
    <3> QED BY <3>1 DEF NoToken
  <2>3. revoked' \in BOOLEAN /\ overlap' \in BOOLEAN
    BY <1>2 DEF Succeed, Revoke
  <2> QED BY <1>2, <2>1, <2>2, <2>3 DEF Succeed
<1>3. CASE LoggedOut(r)
  BY <1>0, <1>3, FinishTypes, SignOutTypes DEF LoggedOut
<1>4. CASE Unauthorized(r)
  <2>0. \/ exchange' = exchange
        \/ exchange' = [exchange EXCEPT ![tabOf[r]] =
                          [pc |-> "sent", token |-> refresh]]
    BY <1>4 DEF Unauthorized
  <2>1. exchange' \in [Client -> [pc : Places, token : Nat]]
    BY <1>0, <2>0 DEF Places
  <2>2. CASE refresh # NoToken
    BY <1>4, <2>1, <2>2 DEF Unauthorized, Steps
  <2>3. CASE refresh = NoToken
    <3>1. /\ Finish(r)
          /\ UNCHANGED <<issued, hash, expired, revoked, overlap, left, upset>>
      BY <1>4, <2>3 DEF Unauthorized
    <3>2. SignOut(tabOf[r]) \/ UNCHANGED <<access, refresh, page>>
      BY <1>4, <2>3 DEF Unauthorized
    <3> QED BY <1>0, <2>1, <3>1, <3>2, FinishTypes, SignOutTypes
  <2> QED BY <2>2, <2>3
<1>5. CASE Break(r)
  BY <1>0, <1>5, FinishTypes, SignOutTypes DEF Break
<1> QED BY <1>1, <1>2, <1>3, <1>4, <1>5

LEMMA RefreshTypes ==
  ASSUME Types, NEW x \in Client,
         RefreshReads(x) \/ RefreshWrites(x) \/ RefreshBreaks(x)
  PROVE  Types'
<1> USE DEF Types, cookieVars, requestVars, serverVars, timeVars, Places, NoToken
<1>1. CASE RefreshReads(x)
  BY <1>1 DEF RefreshReads, Checked
<1>2. CASE RefreshWrites(x)
  BY <1>2 DEF RefreshWrites
<1>3. CASE RefreshBreaks(x)
  BY <1>3 DEF RefreshBreaks
<1> QED BY <1>1, <1>2, <1>3

LEMMA SettleTypes ==
  ASSUME Types, NEW t \in Tab, Settle(t)
  PROVE  Types'
<1> USE DEF Types, cookieVars, requestVars, serverVars, timeVars
<1>0. t \in Client
  BY TabsAndCalls
<1>1. CASE RefreshDone(t)
  BY <1>0, <1>1 DEF RefreshDone, SetTokens, Idle, Places, Steps, NoToken
<1>2. CASE RefreshRefused(t)
  BY <1>0, <1>2, SignOutTypes
  DEF RefreshRefused, Idle, Places, Steps, RequestKind, NoToken
<1> QED BY <1>1, <1>2 DEF Settle

\* Navigation and sign-in.
LEMMA SignInTypes ==
  ASSUME Types, NEW r \in Call,
         Navigate(r) \/ Arrive(r) \/ SignIn(r) \/ SignedIn(r)
           \/ ConnectGithub(r)
  PROVE  Types'
<1> USE DEF Types, cookieVars, requestVars, serverVars, timeVars
<1>0. tabOf[r] \in Tab /\ r \in Client
  BY TabsAndCalls
<1>1. CASE Navigate(r)
  <2>0. \/ exchange' = exchange
        \/ exchange' = [exchange EXCEPT ![r] = [pc |-> "sent", token |-> refresh]]
    BY <1>1 DEF Navigate
  <2>1. exchange' \in [Client -> [pc : Places, token : Nat]]
    BY <1>0, <2>0 DEF Places
  <2>2. /\ step' \in [Call -> Steps] /\ kind' \in [Call -> RequestKind]
        /\ sent' \in [Call -> {"none", "good", "old"}]
    BY <1>1, FinishTypes DEF Navigate, Steps, RequestKind
  <2>3. page' \in [Tab -> {"in", "out"}]
    BY <1>0, <1>1 DEF Navigate
  <2> QED BY <1>1, <2>1, <2>2, <2>3 DEF Navigate
<1>2. CASE Arrive(r)
  <2>1. /\ exchange' \in [Client -> [pc : Places, token : Nat]]
        /\ exchange[r].token \in Nat
    BY <1>0, <1>2, IdleType DEF Arrive
  <2>2. /\ access' \in {"none", "good", "old"} /\ refresh' \in Nat
        /\ page' \in [Tab -> {"in", "out"}]
    BY <1>0, <1>2, <2>1 DEF Arrive, SetTokens
  <2> QED BY <1>2, <2>1, <2>2, FinishTypes DEF Arrive
<1>3. CASE SignIn(r)
  <2>1. exchange' \in [Client -> [pc : Places, token : Nat]]
    BY <1>0, <1>3 DEF SignIn
  <2>2. step' \in [Call -> Steps]
    BY <1>3 DEF SignIn, Steps
  <2>3. hash' \in Nat /\ issued' \in Nat
    BY <1>3 DEF SignIn, Issue
  <2>4. revoked' \in BOOLEAN /\ overlap' \in BOOLEAN
    BY <1>3 DEF SignIn, Issue
  <2> QED BY <1>3, <2>1, <2>2, <2>3, <2>4 DEF SignIn
<1>4. CASE SignedIn(r)
  <2>1. /\ exchange' \in [Client -> [pc : Places, token : Nat]]
        /\ exchange[r].token \in Nat
    BY <1>0, <1>4, IdleType DEF SignedIn
  <2>2. /\ access' \in {"none", "good", "old"} /\ refresh' \in Nat
        /\ page' \in [Tab -> {"in", "out"}]
    BY <1>0, <1>4, <2>1 DEF SignedIn, SetTokens
  <2> QED BY <1>4, <2>1, <2>2, FinishTypes DEF SignedIn
<1>5. CASE ConnectGithub(r)
  <2>1. hash' \in Nat /\ issued' \in Nat
    BY <1>5 DEF ConnectGithub, Issue
  <2>2. revoked' \in BOOLEAN /\ overlap' \in BOOLEAN
    BY <1>5 DEF ConnectGithub, Issue
  <2> QED BY <1>5, <2>1, <2>2, FinishTypes DEF ConnectGithub
<1> QED BY <1>1, <1>2, <1>3, <1>4, <1>5

LEMMA NextTypes == Types /\ [SessionNext]_sessionVars => Types'
<1> SUFFICES ASSUME Types, [SessionNext]_sessionVars PROVE Types'
  OBVIOUS
<1>1. CASE Expire \/ RefreshExpires
  BY <1>1 DEF Expire, RefreshExpires, Types, requestVars, serverVars, NoToken
<1>2. CASE UNCHANGED sessionVars
  BY <1>2 DEF sessionVars, Types, cookieVars, requestVars, serverVars, timeVars
<1> QED
  BY <1>1, <1>2, RequestTypes, RefreshTypes, SettleTypes, SignInTypes
  DEF SessionNext, Answer, Exchange

-----------------------------------------------------------------------------
(* Those who wait. *)

\* A request that navigates does not wait for its tab's refresh.
Served == WaitersAreServed
          /\ \A r \in Call : step[r] = "waiting" => kind[r] # "navigate"

\* A step that lets nobody wait and leaves the refreshes of the tabs alone.
LEMMA NobodyWaits ==
  ASSUME Served,
         \A t \in Tab : exchange'[t] = Idle <=> exchange[t] = Idle,
         \A r \in Call : step'[r] = "waiting" <=> step[r] = "waiting",
         \A r \in Call : step[r] = "waiting" => kind'[r] = kind[r]
  PROVE  Served'
<1>1. \A t \in Tab : WaitingIn(t)' = WaitingIn(t)
  BY DEF WaitingIn
<1> QED BY <1>1 DEF Served, WaitersAreServed

\* What Finish does to a request that was not waiting.
LEMMA FinishServed ==
  ASSUME Types, NEW r \in Call, Finish(r), step[r] # "waiting"
  PROVE  /\ \A q \in Call : step'[q] = "waiting" <=> step[q] = "waiting"
         /\ \A q \in Call : step[q] = "waiting" => kind'[q] = kind[q]
  BY DEF Types, Finish

LEMMA InitServed == SessionInit => Served
  BY DEF SessionInit, Served, WaitersAreServed, WaitingIn, Client

LEMMA UnauthorizedServed ==
  ASSUME Types, Served, NEW r \in Call, Unauthorized(r)
  PROVE  Served'
<1> DEFINE t == tabOf[r]
<1>0. t \in Tab /\ t \in Client
  BY TabsAndCalls
<1>1. CASE refresh = NoToken
  BY <1>1, FinishServed, NobodyWaits DEF Unauthorized
<1>2. CASE refresh # NoToken
  <2>1. /\ step' = [step EXCEPT ![r] = "waiting"]
        /\ kind' = kind /\ kind[r] # "navigate"
    BY <1>2 DEF Unauthorized
  <2>2. exchange'[t] # Idle /\ \A u \in Tab \ {t} : exchange'[u] = exchange[u]
    <3>1. CASE exchange[t] # Idle
      BY <1>2, <3>1 DEF Unauthorized
    <3>2. CASE exchange[t] = Idle
      <4>1. exchange' = [exchange EXCEPT ![t] = [pc |-> "sent", token |-> refresh]]
        BY <1>2, <3>2 DEF Unauthorized
      <4>2. exchange'[t].pc = "sent" /\ Idle.pc = "idle"
        BY <1>0, <4>1 DEF Types, Idle
      <4> QED BY <4>1, <4>2 DEF Types
    <3> QED BY <3>1, <3>2
  <2>3. WaitingIn(t)' # {}
    BY <2>1 DEF WaitingIn, Types
  <2>4. \A u \in Tab \ {t} : WaitingIn(u)' = WaitingIn(u)
    BY <2>1 DEF WaitingIn, Types
  <2> QED BY <2>1, <2>2, <2>3, <2>4 DEF Served, WaitersAreServed, Types
<1> QED BY <1>1, <1>2

LEMMA SettleServed ==
  ASSUME Types, Served, NEW t \in Tab, Settle(t)
  PROVE  Served'
<1>0. t \in Client
  BY TabsAndCalls
<1>1. /\ exchange' = [exchange EXCEPT ![t] = Idle]
      /\ \E s \in {"retry", "done"} :
           step' = [r \in Call |-> IF r \in Resumed(t) THEN s ELSE step[r]]
      /\ \A r \in Call : r \notin Resumed(t) => kind'[r] = kind[r]
  BY DEF Settle, RefreshDone, RefreshRefused
<1>2. exchange'[t] = Idle /\ WaitingIn(t)' = {}
  BY <1>0, <1>1 DEF Types, WaitingIn, Resumed
<1>3. \A u \in Tab \ {t} :
        exchange'[u] = exchange[u] /\ WaitingIn(u)' = WaitingIn(u)
  BY <1>1 DEF Types, WaitingIn, Resumed
<1>4. \A r \in Call : step'[r] = "waiting" =>
                        step[r] = "waiting" /\ kind'[r] = kind[r]
  BY <1>1 DEF Types, WaitingIn, Resumed
<1> QED BY <1>2, <1>3, <1>4 DEF Served, WaitersAreServed

LEMMA NextServed == Types /\ Served /\ [SessionNext]_sessionVars => Served'
<1> SUFFICES ASSUME Types, Served, [SessionNext]_sessionVars PROVE Served'
  OBVIOUS
<1> USE DEF cookieVars, requestVars, serverVars, timeVars
<1>1. ASSUME NEW r \in Call, NEW k \in RequestKind \ {"navigate"}, Ask(r, k)
      PROVE  Served'
  BY <1>1, NobodyWaits DEF Ask, IsNext, Types
<1>2. ASSUME NEW r \in Call,
             Succeed(r) \/ LoggedOut(r) \/ Break(r) \/ SignIn(r)
               \/ SignedIn(r) \/ ConnectGithub(r)
      PROVE  Served'
  <2>1. \A t \in Tab : exchange'[t] = exchange[t]
    BY <1>2, TabsAndCalls
    DEF Succeed, LoggedOut, Break, SignIn, SignedIn, ConnectGithub, Types
  <2>2. step[r] # "waiting"
    BY <1>2 DEF Succeed, LoggedOut, Break, SignIn, SignedIn, ConnectGithub,
                IsNext
  <2>3. \/ Finish(r)
        \/ step' = [step EXCEPT ![r] = "answered"] /\ kind' = kind
    BY <1>2 DEF Succeed, LoggedOut, Break, SignIn, SignedIn, ConnectGithub
  <2>4. CASE Finish(r)
    BY <2>1, <2>2, <2>4, FinishServed, NobodyWaits
  <2>5. CASE step' = [step EXCEPT ![r] = "answered"] /\ kind' = kind
    BY <2>1, <2>2, <2>5, NobodyWaits DEF Types
  <2> QED BY <2>3, <2>4, <2>5
<1>3. ASSUME NEW r \in Call, Navigate(r) PROVE Served'
  <2>1. \A t \in Tab : exchange'[t] = exchange[t]
    BY <1>3, TabsAndCalls DEF Navigate, Types
  <2>2. step[r] = "new"
    BY <1>3 DEF Navigate, IsNext
  <2>3. \/ Finish(r)
        \/ /\ step' = [step EXCEPT ![r] = "sent"]
           /\ kind' = [kind EXCEPT ![r] = "navigate"]
    BY <1>3 DEF Navigate
  <2>4. CASE Finish(r)
    BY <2>1, <2>2, <2>4, FinishServed, NobodyWaits
  <2>5. CASE /\ step' = [step EXCEPT ![r] = "sent"]
             /\ kind' = [kind EXCEPT ![r] = "navigate"]
    BY <2>1, <2>2, <2>5, NobodyWaits DEF Types
  <2> QED BY <2>3, <2>4, <2>5
<1>4. ASSUME NEW r \in Call, Arrive(r) PROVE Served'
  <2>1. \A t \in Tab : exchange'[t] = exchange[t]
    BY <1>4, TabsAndCalls DEF Arrive, Types
  <2>2. step[r] # "waiting" /\ Finish(r)
    BY <1>4 DEF Arrive, Served
  <2> QED BY <2>1, <2>2, FinishServed, NobodyWaits
<1>5. ASSUME NEW x \in Client, Exchange(x) PROVE Served'
  <2>1. \A t \in Tab : exchange'[t] = Idle <=> exchange[t] = Idle
    BY <1>5
    DEF Exchange, RefreshReads, RefreshWrites, RefreshBreaks, Checked, Idle,
        Types, Client
  <2>2. UNCHANGED <<step, kind>>
    BY <1>5 DEF Exchange, RefreshReads, RefreshWrites, RefreshBreaks
  <2> QED BY <2>1, <2>2, NobodyWaits
<1>6. CASE Expire \/ RefreshExpires \/ UNCHANGED sessionVars
  BY <1>6, NobodyWaits DEF Expire, RefreshExpires, sessionVars
<1> QED
  BY <1>1, <1>2, <1>3, <1>4, <1>5, <1>6, UnauthorizedServed, SettleServed
  DEF SessionNext, Answer

\* None of the requests that were answered 401 is forgotten, and each refresh
\* of a tab has somebody who waits for it (fetch-client.ts:121-150).
THEOREM WaitersServed == SessionSpec => []WaitersAreServed
<1>1. Served => WaitersAreServed
  BY DEF Served
<1> QED BY <1>1, InitTypes, NextTypes, InitServed, NextServed, PTL
        DEF SessionSpec

-----------------------------------------------------------------------------
(* Logout. *)

\* A refresh that had not been compared when the logout came is refused.
Barred ==
  revoked /\ ~ overlap =>
    hash = NoToken /\ \A x \in Client : exchange[x].pc # "checked"

LEMMA InitBarred == SessionInit => Barred
  BY DEF SessionInit, Barred

LEMMA NextBarred == Types /\ Barred /\ [SessionNext]_sessionVars => Barred'
<1> SUFFICES ASSUME Types, Barred, [SessionNext]_sessionVars PROVE Barred'
  OBVIOUS
<1> USE DEF cookieVars, requestVars, serverVars, timeVars
<1>1. ASSUME NEW r \in Call, Unauthorized(r) PROVE Barred'
  <2>1. UNCHANGED <<hash, revoked, overlap>>
    BY <1>1 DEF Unauthorized
  <2>2. \A x \in Client : exchange'[x].pc = "checked" => exchange[x].pc = "checked"
    BY <1>1 DEF Unauthorized, Types
  <2> QED BY <2>1, <2>2 DEF Barred
<1>2. ASSUME NEW r \in Call, Succeed(r) PROVE Barred'
  <2>1. CASE Revoke
    <3>1. exchange' = exchange
      BY <1>2 DEF Succeed
    <3> QED BY <2>1, <3>1, Zenon DEF Revoke, Barred
  <2>2. CASE UNCHANGED serverVars
    BY <1>2, <2>2 DEF Succeed, Barred
  <2> QED BY <1>2, <2>1, <2>2 DEF Succeed
<1>3. ASSUME NEW r \in Call,
             \/ \E k \in RequestKind \ {"navigate"} : Ask(r, k)
             \/ LoggedOut(r) \/ Break(r)
      PROVE  Barred'
  BY <1>3 DEF Ask, LoggedOut, Break, Barred
<1>4. ASSUME NEW r \in Call, Navigate(r) \/ Arrive(r) \/ SignedIn(r)
      PROVE  Barred'
  <2>1. UNCHANGED <<hash, revoked, overlap>>
    BY <1>4 DEF Navigate, Arrive, SignedIn
  <2>2. \A x \in Client : exchange'[x].pc = "checked" => exchange[x].pc = "checked"
    BY <1>4 DEF Navigate, Arrive, SignedIn, Types, Idle
  <2> QED BY <2>1, <2>2 DEF Barred
<1>5. ASSUME NEW r \in Call, SignIn(r) \/ ConnectGithub(r) PROVE Barred'
  <2>1. revoked' = FALSE
    BY <1>5 DEF SignIn, ConnectGithub, Issue
  <2> QED BY <2>1 DEF Barred
<1>6. ASSUME NEW x \in Client, Exchange(x) PROVE Barred'
  <2>1. UNCHANGED <<revoked, overlap>>
    BY <1>6 DEF Exchange, RefreshReads, RefreshWrites, RefreshBreaks
  <2>2. SUFFICES ASSUME revoked, ~ overlap
                 PROVE  /\ hash' = NoToken
                        /\ \A y \in Client : exchange'[y].pc # "checked"
    BY <2>1 DEF Barred
  <2>3. hash = NoToken /\ \A y \in Client : exchange[y].pc # "checked"
    BY <2>2 DEF Barred
  <2>4. hash' = NoToken
    BY <1>6, <2>3 DEF Exchange, RefreshReads, RefreshWrites, RefreshBreaks
  <2>5. exchange' = [exchange EXCEPT ![x] = [pc |-> "refused", token |-> NoToken]]
    BY <1>6, <2>3
    DEF Exchange, RefreshReads, RefreshWrites, RefreshBreaks, Checked, Matches
  <2>6. \A y \in Client : exchange'[y].pc # "checked"
    BY <2>3, <2>5 DEF Types
  <2> QED BY <2>4, <2>6
<1>7. ASSUME NEW t \in Tab, Settle(t) PROVE Barred'
  <2>1. UNCHANGED <<hash, revoked, overlap>>
        /\ exchange' = [exchange EXCEPT ![t] = Idle]
    BY <1>7 DEF Settle, RefreshDone, RefreshRefused
  <2>2. \A x \in Client : exchange'[x].pc = "checked" => exchange[x].pc = "checked"
    BY <2>1 DEF Types, Idle
  <2> QED BY <2>1, <2>2 DEF Barred
<1>8. CASE Expire \/ RefreshExpires \/ UNCHANGED sessionVars
  BY <1>8 DEF Expire, RefreshExpires, sessionVars, Barred
<1> QED
  BY <1>1, <1>2, <1>3, <1>4, <1>5, <1>6, <1>7, <1>8 DEF SessionNext, Answer

\* After a logout nobody has a hash without another sign-in, but for a refresh
\* that was compared before and written after it (auth.service.ts:84-113).
THEOREM LogoutStaysFinal == SessionSpec => []LogoutIsFinal
<1>1. Barred => LogoutIsFinal
  BY DEF Barred, LogoutIsFinal
<1> QED BY <1>1, InitTypes, NextTypes, InitBarred, NextBarred, PTL
        DEF SessionSpec

-----------------------------------------------------------------------------
(* Without a logout and without a failure. *)

\* Nobody logs out or has to sign in, and no refresh is refused.
Undisturbed ==
  ~ left /\ ~ upset /\ expired = NoToken =>
    /\ refresh # NoToken /\ hash # NoToken
    /\ \A t \in Tab : page[t] = "in"
    /\ \A r \in Call : kind[r] \notin {"logout", "signin"}
    /\ \A x \in Client : exchange[x].pc # "refused"

\* What a refresh is sent with, and answered by, is a token.
HasToken ==
  \A x \in Client :
    exchange[x].pc \in {"sent", "issued"} => exchange[x].token # NoToken

LEMMA InitUndisturbed == SessionInit => Undisturbed /\ HasToken
  BY DEF SessionInit, Undisturbed, HasToken, Idle, NoToken

LEMMA NextHasToken ==
  Types /\ HasToken /\ [SessionNext]_sessionVars => HasToken'
<1> SUFFICES ASSUME Types, HasToken, [SessionNext]_sessionVars PROVE HasToken'
  OBVIOUS
<1> USE DEF cookieVars, requestVars, serverVars, timeVars
<1>1. ASSUME NEW x \in Client, Exchange(x) PROVE HasToken'
  BY <1>1
  DEF Exchange, RefreshReads, RefreshWrites, RefreshBreaks, Checked, Types,
      HasToken, NoToken
<1>2. ASSUME NEW t \in Tab, Settle(t) PROVE HasToken'
  BY <1>2 DEF Settle, RefreshDone, RefreshRefused, Types, HasToken, Idle
<1>3. ASSUME NEW r \in Call,
             Unauthorized(r) \/ Navigate(r) \/ Arrive(r) \/ SignedIn(r)
      PROVE  HasToken'
  BY <1>3
  DEF Unauthorized, Navigate, Arrive, SignedIn, Types, HasToken, Idle
<1>4. ASSUME NEW r \in Call, SignIn(r) PROVE HasToken'
  BY <1>4 DEF SignIn, Types, HasToken, NoToken
<1>5. ASSUME NEW r \in Call,
             \/ \E k \in RequestKind \ {"navigate"} : Ask(r, k)
             \/ Succeed(r) \/ LoggedOut(r) \/ Break(r) \/ ConnectGithub(r)
      PROVE  HasToken'
  BY <1>5 DEF Ask, Succeed, LoggedOut, Break, ConnectGithub, HasToken
<1>6. CASE Expire \/ RefreshExpires \/ UNCHANGED sessionVars
  BY <1>6 DEF Expire, RefreshExpires, sessionVars, HasToken
<1> QED
  BY <1>1, <1>2, <1>3, <1>4, <1>5, <1>6 DEF SessionNext, Answer

\* Undisturbed, for the steps that keep cookies and pages.
LEMMA CalmUndisturbed ==
  ASSUME Undisturbed, (left => left') /\ (upset => upset'),
         expired' = NoToken => expired = NoToken,
         UNCHANGED <<refresh, page>>,
         hash' # NoToken \/ hash' = hash,
         \A r \in Call : kind'[r] \in {kind[r], "call", "me", "navigate"},
         \A x \in Client : exchange'[x].pc = "refused" =>
                           exchange[x].pc = "refused"
  PROVE  Undisturbed'
  BY DEF Undisturbed

LEMMA RequestUndisturbed ==
  ASSUME Types, Undisturbed, HasToken, ~ left', ~ upset', expired = NoToken,
         NEW r \in Call,
         \/ \E k \in RequestKind \ {"navigate"} : Ask(r, k)
         \/ Navigate(r) \/ ConnectGithub(r) \/ Answer(r)
  PROVE  Undisturbed'
<1> USE DEF cookieVars, requestVars, serverVars, timeVars
<1>0. tabOf[r] \in Tab /\ r \in Client
  BY TabsAndCalls
<1>1. ASSUME NEW k \in RequestKind \ {"navigate"}, Ask(r, k)
      PROVE  Undisturbed'
  <2>1. ~ left /\ ~ upset /\ k # "logout"
    BY <1>1 DEF Ask
  <2>2. page[tabOf[r]] = "in"
    BY <1>0, <2>1 DEF Undisturbed
  <2>3. k # "signin"
    BY <1>1, <2>2 DEF Ask
  <2>4. kind' = [kind EXCEPT ![r] = k]
        /\ UNCHANGED <<refresh, page, hash, exchange>>
    BY <1>1 DEF Ask
  <2> QED BY <2>1, <2>3, <2>4 DEF Undisturbed, Types
<1>2. CASE Navigate(r)
  <2>1. ~ left /\ ~ upset /\ UNCHANGED <<refresh, hash>>
    BY <1>2 DEF Navigate
  <2>2. refresh # NoToken /\ page[tabOf[r]] = "in"
    BY <1>0, <2>1 DEF Undisturbed
  <2>3. page' = page
    BY <1>0, <1>2, <2>2 DEF Navigate, Types
  <2>4. \A q \in Call : kind'[q] \in {kind[q], "call", "navigate"}
    BY <1>2 DEF Navigate, Finish, Types
  <2>5. \A x \in Client : exchange'[x].pc = "refused" =>
                          exchange[x].pc = "refused"
    BY <1>2 DEF Navigate, Types
  <2> QED BY <2>1, <2>3, <2>4, <2>5, CalmUndisturbed
<1>3. CASE ConnectGithub(r)
  <2>1. hash' # NoToken
    BY <1>3 DEF ConnectGithub, Issue, Types, NoToken
  <2>2. \A q \in Call : kind'[q] \in {kind[q], "call"}
    BY <1>3 DEF ConnectGithub, Finish, Types
  <2> QED BY <1>3, <2>1, <2>2, CalmUndisturbed DEF ConnectGithub
<1>4. CASE Succeed(r)
  <2>1. ~ left /\ ~ upset
    BY <1>4 DEF Succeed
  <2>2. kind[r] # "logout"
    BY <2>1 DEF Undisturbed
  <2>3. hash' = hash /\ \A q \in Call : kind'[q] \in {kind[q], "call"}
    BY <1>4, <2>2 DEF Succeed, Finish, Types
  <2> QED BY <1>4, <2>3, CalmUndisturbed DEF Succeed
<1>5. CASE Unauthorized(r)
  <2>1. ~ left /\ ~ upset
    BY <1>5 DEF Unauthorized
  <2>2. refresh # NoToken
    BY <2>1 DEF Undisturbed
  <2>3. UNCHANGED <<refresh, page, kind, hash>>
    BY <1>5, <2>2 DEF Unauthorized
  <2>4. \A x \in Client : exchange'[x].pc = "refused" =>
                          exchange[x].pc = "refused"
    BY <1>5 DEF Unauthorized, Types
  <2> QED BY <2>1, <2>3, <2>4, CalmUndisturbed
<1>6. CASE Break(r)
  <2>1. UNCHANGED <<refresh, page, hash, exchange, left, upset>>
    BY <1>6 DEF Break
  <2>2. \A q \in Call : kind'[q] \in {kind[q], "call"}
    BY <1>6 DEF Break, Finish, Types
  <2> QED BY <2>1, <2>2, CalmUndisturbed
<1>7. CASE LoggedOut(r) \/ SignIn(r) \/ SignedIn(r)
  <2>1. ~ left /\ ~ upset /\ kind[r] \in {"logout", "signin"}
    BY <1>7 DEF LoggedOut, SignIn, SignedIn
  <2> QED BY <2>1 DEF Undisturbed
<1>8. CASE Arrive(r)
  <2>1. ~ left /\ ~ upset /\ exchange[r].pc \in {"issued", "refused"}
    BY <1>8 DEF Arrive
  <2>2. exchange[r].pc = "issued" /\ exchange[r].token # NoToken
    BY <1>0, <2>1 DEF Undisturbed, HasToken
  <2>3. refresh' # NoToken /\ hash' = hash
        /\ page' = [page EXCEPT ![tabOf[r]] = "in"]
        /\ exchange' = [exchange EXCEPT ![r] = Idle] /\ Finish(r)
    BY <1>8, <2>2 DEF Arrive, SetTokens
  <2>4. \A q \in Call : kind'[q] \in {kind[q], "call"}
    BY <2>3 DEF Finish, Types
  <2>5. \A x \in Client : exchange'[x].pc = "refused" =>
                          exchange[x].pc = "refused"
    BY <2>3 DEF Types, Idle
  <2> QED BY <2>1, <2>3, <2>4, <2>5 DEF Undisturbed, Types
<1> QED
  BY <1>1, <1>2, <1>3, <1>4, <1>5, <1>6, <1>7, <1>8 DEF Answer

LEMMA NextUndisturbed ==
  Types /\ Undisturbed /\ HasToken /\ [SessionNext]_sessionVars => Undisturbed'
<1> SUFFICES ASSUME Types, Undisturbed, HasToken, [SessionNext]_sessionVars,
                    ~ left', ~ upset', expired' = NoToken
             PROVE  Undisturbed'
  BY DEF Undisturbed
<1> USE DEF cookieVars, requestVars, serverVars, timeVars
\* A token expires once and for all.
<1>0. expired = NoToken
  <2>1. CASE RefreshExpires
    <3>1. expired' = refresh /\ refresh > expired
      BY <2>1 DEF RefreshExpires
    <3> QED BY <3>1 DEF Types, NoToken
  <2>2. CASE Expire \/ UNCHANGED sessionVars
    BY <2>2 DEF Expire, sessionVars
  <2>3. ASSUME NEW x \in Client, Exchange(x) PROVE UNCHANGED expired
    BY <2>3 DEF Exchange, RefreshReads, RefreshWrites, RefreshBreaks
  <2>4. ASSUME NEW t \in Tab, Settle(t) PROVE UNCHANGED expired
    BY <2>4 DEF Settle, RefreshDone, RefreshRefused
  <2>5. ASSUME NEW r \in Call,
               \/ \E k \in RequestKind \ {"navigate"} : Ask(r, k)
               \/ Navigate(r) \/ ConnectGithub(r) \/ Answer(r)
        PROVE  UNCHANGED expired
    BY <2>5 DEF Ask, Navigate, ConnectGithub, Answer, Succeed, Unauthorized,
                Break, SignIn, LoggedOut, SignedIn, Arrive
  <2> QED BY <2>1, <2>2, <2>3, <2>4, <2>5 DEF SessionNext
<1>1. ASSUME NEW x \in Client, Exchange(x) PROVE Undisturbed'
  <2>1. CASE RefreshReads(x)
    <3>1. ~ left /\ ~ upset
      BY <2>1 DEF RefreshReads
    <3>2. Matches(exchange[x].token) /\ ~ Lapsed(exchange[x].token)
      <4>1. exchange[x].token # NoToken /\ exchange[x].token \in Nat
        BY <2>1 DEF RefreshReads, HasToken, Types
      <4> QED BY <1>0, <3>1, <4>1 DEF Undisturbed, Matches, Lapsed, NoToken
    <3>3. exchange' = [exchange EXCEPT ![x] = [pc |-> "checked", token |-> NoToken]]
      BY <2>1, <3>2 DEF RefreshReads, Checked
    <3>4. \A y \in Client : exchange'[y].pc = "refused" =>
                            exchange[y].pc = "refused"
      BY <3>3 DEF Types
    <3> QED BY <2>1, <3>4, CalmUndisturbed DEF RefreshReads
  <2>2. CASE RefreshWrites(x)
    <3>1. hash' # NoToken
      BY <2>2 DEF RefreshWrites, Types, NoToken
    <3>2. \A y \in Client : exchange'[y].pc = "refused" =>
                            exchange[y].pc = "refused"
      BY <2>2 DEF RefreshWrites, Types
    <3> QED BY <2>2, <3>1, <3>2, CalmUndisturbed DEF RefreshWrites
  <2>3. CASE RefreshBreaks(x)
    BY <2>3 DEF RefreshBreaks
  <2> QED BY <1>1, <2>1, <2>2, <2>3 DEF Exchange
<1>2. ASSUME NEW t \in Tab, Settle(t) PROVE Undisturbed'
  <2>0. t \in Client /\ ~ left /\ ~ upset
    BY <1>2, TabsAndCalls DEF Settle, RefreshDone, RefreshRefused
  <2>1. CASE RefreshDone(t)
    <3>1. refresh' # NoToken /\ exchange' = [exchange EXCEPT ![t] = Idle]
          /\ UNCHANGED <<page, kind, hash>>
      BY <2>0, <2>1 DEF RefreshDone, SetTokens, HasToken
    <3>2. \A x \in Client : exchange'[x].pc = "refused" =>
                            exchange[x].pc = "refused"
      BY <3>1 DEF Types, Idle
    <3> QED BY <1>0, <2>0, <3>1, <3>2 DEF Undisturbed
  <2>2. CASE RefreshRefused(t)
    BY <1>0, <2>0, <2>2 DEF RefreshRefused, Undisturbed
  <2> QED BY <1>2, <2>1, <2>2 DEF Settle
<1>3. CASE Expire \/ UNCHANGED sessionVars
  BY <1>3, CalmUndisturbed DEF Expire, sessionVars
<1>4. ~ RefreshExpires
  BY <1>0 DEF RefreshExpires, Types, NoToken
<1> QED BY <1>0, <1>1, <1>2, <1>3, <1>4, RequestUndisturbed DEF SessionNext

\* However often access tokens expire, whoever refreshes at the same time and
\* whichever other requests fail, the session goes on in every tab, until a
\* refresh token has been left unused for seven days (fetch-client.ts:76-103,
\* proxy.ts:31-82, auth.service.ts:311-314).
THEOREM SessionGoesOn == SessionSpec => []StaysSignedIn
<1>1. Undisturbed => StaysSignedIn
  BY DEF Undisturbed, StaysSignedIn
<1>2. SessionInit => Types /\ Undisturbed /\ HasToken
  BY InitTypes, InitUndisturbed
<1>3. /\ Types /\ Undisturbed /\ HasToken
      /\ [SessionNext]_sessionVars
      => (Types /\ Undisturbed /\ HasToken)'
  BY NextTypes, NextUndisturbed, NextHasToken
<1> QED BY <1>1, <1>2, <1>3, PTL DEF SessionSpec
-----------------------------------------------------------------------------
(* The variables of a project. *)

SaveState == [pc : {"new", "sent", "deleted", "saved", "failed", "done"},
              variables : SUBSET Variable, seen : SUBSET Entry,
              ahead : SUBSET Save, previous : SUBSET Variable]

ConfigurationTypes ==
  /\ entries \subseteq Entry /\ changed \in BOOLEAN /\ dirty \in BOOLEAN
  /\ save \in [Save -> SaveState]
  /\ panel \subseteq Variable /\ cache \subseteq Variable
  /\ removed \subseteq Variable
  /\ creating \in [Handler -> Reading]

LEMMA ValuesOfEntries ==
  ASSUME NEW T \in SUBSET Entry
  PROVE  Values(T) \subseteq Variable
  BY DEF Values, Entry

LEMMA EndedState ==
  ASSUME ConfigurationTypes, NEW s \in Save, NEW pc \in {"saved", "failed"}
  PROVE  /\ Ended(s, pc) \in SaveState
         /\ Ended(s, pc).pc = pc /\ Ended(s, pc).variables = save[s].variables
         /\ Ended(s, pc).previous = save[s].previous
         /\ Ended(s, pc).seen = {} /\ Ended(s, pc).ahead = {}
<1> DEFINE r == save[s]
           e == [r EXCEPT !.pc = pc, !.seen = {}, !.ahead = {}]
<1>1. r \in SaveState
  BY DEF ConfigurationTypes
<1> HIDE DEF r
<1>2. e \in SaveState
  BY <1>1 DEF SaveState
<1>3. /\ e.pc = pc /\ e.variables = r.variables /\ e.previous = r.previous
      /\ e.seen = {} /\ e.ahead = {}
  BY <1>1 DEF SaveState
<1> QED BY <1>2, <1>3 DEF Ended, r

LEMMA HoldingState ==
  ASSUME ConfigurationTypes, NEW s \in Save
  PROVE  /\ Holding(s) \in SaveState
         /\ Holding(s).pc = "deleted" /\ Holding(s).variables = save[s].variables
         /\ Holding(s).seen = entries /\ Holding(s).ahead = Holders
<1> DEFINE r == save[s]
           e == [r EXCEPT !.pc = "deleted", !.seen = entries, !.ahead = Holders]
<1>1. r \in SaveState /\ entries \subseteq Entry /\ Holders \subseteq Save
  BY DEF ConfigurationTypes, Holders
<1> HIDE DEF r
<1>2. e \in SaveState
  BY <1>1 DEF SaveState
<1>3. /\ e.pc = "deleted" /\ e.variables = r.variables
      /\ e.seen = entries /\ e.ahead = Holders
  BY <1>1 DEF SaveState
<1> QED BY <1>2, <1>3 DEF Holding, DeleteMany, r

\* The actions of the panel and of the cache leave everything else alone.
LEMMA EditTypes ==
  ASSUME ConfigurationTypes, NEW V \in SUBSET Variable, Edit(V),
         removed' \subseteq Variable
  PROVE  ConfigurationTypes'
  BY DEF Edit, ConfigurationTypes

\* What a request does to the record of its save.
LEMMA SaveSteps ==
  ASSUME ConfigurationTypes, NEW s \in Save,
         SaveEnvVars(s) \/ DeleteAll(s) \/ Insert(s) \/ SaveAnswered(s)
  PROVE  /\ save' \in [Save -> SaveState]
         /\ \A q \in Save \ {s} : save'[q] = save[q]
<1>0. save \in [Save -> SaveState]
  BY DEF ConfigurationTypes
<1>1. ASSUME NEW r \in SaveState, save' = [save EXCEPT ![s] = r]
      PROVE  /\ save' \in [Save -> SaveState]
             /\ \A q \in Save \ {s} : save'[q] = save[q]
  BY <1>0, <1>1
<1>2. CASE SaveEnvVars(s)
  <2>1. [pc |-> "sent", variables |-> panel, seen |-> {}, ahead |-> {},
         previous |-> cache] \in SaveState
    BY DEF ConfigurationTypes, SaveState
  <2> QED BY <1>1, <1>2, <2>1 DEF SaveEnvVars
<1>3. CASE DeleteAll(s)
  BY <1>1, <1>3, HoldingState DEF DeleteAll
<1>4. CASE Insert(s)
  <2>1. PICK pc \in {"saved", "failed"} : save' = [save EXCEPT ![s] = Ended(s, pc)]
    BY <1>4 DEF Insert
  <2> QED BY <1>1, <2>1, EndedState
<1>5. CASE SaveAnswered(s)
  <2>1. [NoSave EXCEPT !.pc = "done"] \in SaveState
    BY DEF NoSave, SaveState
  <2> QED BY <1>1, <1>5, <2>1 DEF SaveAnswered
<1> QED BY <1>2, <1>3, <1>4, <1>5

\* What a handler that creates a deployment leaves alone, and what it does to
\* its own record.
LEMMA TriggerSteps ==
  ASSUME ConfigurationTypes, NEW h \in Handler, TriggerStep(h)
  PROVE  /\ UNCHANGED <<entries, save, panelVars, cache, overlapped, doubts>>
         /\ changed' \in {changed, FALSE}
         /\ \E r \in Reading : creating' = [creating EXCEPT ![h] = r]
<1>0. creating[h] \in Reading /\ Values(entries) \subseteq Variable
  BY ValuesOfEntries DEF ConfigurationTypes
<1>1. CASE ReadProject(h)
  <2>1. [pc |-> "read", variables |-> Values(entries), late |-> FALSE] \in Reading
    BY <1>0 DEF Reading
  <2> QED BY <1>1, <2>1 DEF ReadProject, Turns
<1>2. CASE CreateManual(h) \/ CreateForPush(h)
  <2>1. [creating[h] EXCEPT !.pc = "created"] \in Reading
    BY <1>0 DEF Reading
  <2> QED BY <1>2, <2>1 DEF CreateManual, CreateForPush, Commits, Turns
<1>3. CASE PushBuildJob(h) \/ GivesUp(h)
  <2>1. NoReading \in Reading
    BY DEF Reading, NoReading
  <2> QED BY <1>3, <2>1 DEF PushBuildJob, GivesUp, Ends, Turns
<1> QED BY <1>1, <1>2, <1>3 DEF TriggerStep

\* A save that is committed marks whoever has read.
LEMMA OvertakenReadings ==
  ASSUME ConfigurationTypes
  PROVE  /\ Overtaken \in [Handler -> Reading]
         /\ \A h \in Handler : Overtaken[h].pc = creating[h].pc
         /\ \A h \in Handler : creating[h].pc # "idle" => Overtaken[h].late
<1>1. ASSUME NEW h \in Handler
      PROVE  /\ Overtaken[h] \in Reading /\ Overtaken[h].pc = creating[h].pc
             /\ creating[h].pc # "idle" => Overtaken[h].late
  <2>1. creating[h] \in Reading
    BY DEF ConfigurationTypes
  <2>2. Overtaken[h] = IF creating[h].pc = "idle" THEN creating[h]
                       ELSE [creating[h] EXCEPT !.late = TRUE]
    BY DEF Overtaken
  <2> QED BY <2>1, <2>2 DEF Reading
<1>2. Overtaken = [h \in Handler |-> Overtaken[h]]
  BY DEF Overtaken
<1> QED BY <1>1, <1>2

LEMMA NextConfigurationTypes ==
  ASSUME ConfigurationTypes, [ConfigurationNext]_configurationVars
  PROVE  ConfigurationTypes'
<1> USE DEF panelVars
<1>0. /\ entries \subseteq Entry /\ changed \in BOOLEAN /\ dirty \in BOOLEAN
      /\ save \in [Save -> SaveState] /\ panel \subseteq Variable
      /\ cache \subseteq Variable /\ removed \subseteq Variable
      /\ creating \in [Handler -> Reading] /\ Values(entries) \subseteq Variable
  BY ValuesOfEntries DEF ConfigurationTypes
<1>1. ASSUME NEW v \in Variable, NEW w \in Variable, HandleEnvChange(v, w)
      PROVE  ConfigurationTypes'
  BY <1>0, <1>1, EditTypes DEF HandleEnvChange
<1>2. ASSUME NEW v \in Variable, AddVar(v) \/ RemoveVar(v) \/ ImportEnvFile(v)
      PROVE  ConfigurationTypes'
  BY <1>0, <1>2, EditTypes DEF AddVar, RemoveVar, ImportEnvFile
<1>3. ASSUME NEW v \in Variable, Undo(v) PROVE ConfigurationTypes'
  BY <1>0, <1>3 DEF Undo, ConfigurationTypes
<1>4. CASE DiscardChanges \/ Revalidate
  BY <1>0, <1>4 DEF DiscardChanges, Revalidate, ConfigurationTypes
<1>5. ASSUME NEW s \in Save, SaveEnvVars(s) \/ DeleteAll(s)
      PROVE  ConfigurationTypes'
  BY <1>0, <1>5, SaveSteps DEF SaveEnvVars, DeleteAll, ConfigurationTypes
<1>6. ASSUME NEW s \in Save, Insert(s) PROVE ConfigurationTypes'
  <2> DEFINE new == {[by |-> s, variable |-> v] : v \in save[s].variables}
  <2>1. /\ entries' \subseteq entries \cup new /\ changed' \in {changed, TRUE}
        /\ creating' \in {creating, Overtaken}
        /\ UNCHANGED <<panel, dirty, removed, cache>>
    BY <1>6 DEF Insert, Flagged
  <2>2. new \subseteq Entry
    BY <1>0 DEF SaveState, Entry
  <2>3. Overtaken \in [Handler -> Reading]
    BY OvertakenReadings
  <2> HIDE DEF new
  <2> QED BY <1>0, <1>6, <2>1, <2>2, <2>3, SaveSteps DEF ConfigurationTypes
<1>7. ASSUME NEW s \in Save, SaveAnswered(s) PROVE ConfigurationTypes'
  <2>1. dirty' \in BOOLEAN /\ cache' \subseteq Variable
    BY <1>0, <1>7 DEF SaveAnswered, StaysDirty, SaveState
  <2>2. UNCHANGED <<entries, changed, panel, removed, creating>>
    BY <1>7 DEF SaveAnswered
  <2> QED BY <1>0, <1>7, <2>1, <2>2, SaveSteps DEF ConfigurationTypes
<1>8. ASSUME NEW h \in Handler, TriggerStep(h) PROVE ConfigurationTypes'
  <2>1. PICK r \in Reading : creating' = [creating EXCEPT ![h] = r]
    BY <1>8, TriggerSteps
  <2>2. creating' \in [Handler -> Reading]
    BY <1>0, <2>1
  <2>3. /\ UNCHANGED <<entries, save, panel, dirty, removed, cache>>
        /\ changed' \in {changed, FALSE}
    BY <1>8, TriggerSteps
  <2> QED BY <1>0, <2>2, <2>3 DEF ConfigurationTypes
<1>9. CASE UNCHANGED configurationVars
  BY <1>0, <1>9 DEF configurationVars, ConfigurationTypes
<1> QED BY <1>1, <1>2, <1>3, <1>4, <1>5, <1>6, <1>7, <1>8, <1>9
        DEF ConfigurationNext

LEMMA ConfigurationTypesAlways == ConfigurationSpec => []ConfigurationTypes
<1>1. ConfigurationInit => ConfigurationTypes
  <2> SUFFICES ASSUME ConfigurationInit PROVE ConfigurationTypes
    OBVIOUS
  <2>1. NoSave \in SaveState /\ NoReading \in Reading
    BY DEF NoSave, SaveState, NoReading, Reading
  <2> QED BY <2>1 DEF ConfigurationInit, ConfigurationTypes
<1> QED BY <1>1, NextConfigurationTypes, PTL DEF ConfigurationSpec

\* Three kinds of steps matter for the banner; the others leave it, the table
\* and the readers alone.
BannerVars == <<entries, changed, creating, jobVars>>

LEMMA BannerSteps ==
  ASSUME [ConfigurationNext]_configurationVars
  PROVE  \/ UNCHANGED BannerVars
         \/ \E s \in Save : Insert(s)
         \/ \E h \in Handler : TriggerStep(h)
  BY DEF ConfigurationNext, configurationVars, BannerVars, HandleEnvChange, AddVar,
     RemoveVar, Undo, ImportEnvFile, Edit, DiscardChanges, Revalidate,
     SaveEnvVars, DeleteAll, SaveAnswered

\* A reader that no save has overtaken has what is in the table, until it has
\* pushed its job.
ReadersKnow ==
  \A h \in Handler : creating[h].pc # "idle" =>
    creating[h].late \/ creating[h].variables = Values(entries)

LEMMA HandlerKeepsBanner ==
  ASSUME ConfigurationTypes, ReadersKnow, BannerIsRight,
         NEW h \in Handler, TriggerStep(h)
  PROVE  ReadersKnow' /\ BannerIsRight'
<1>0. /\ creating \in [Handler -> Reading] /\ UNCHANGED <<entries, Values(entries)>>
      /\ \A g \in Handler \ {h} : creating'[g] = creating[g]
  BY TriggerSteps DEF ConfigurationTypes, Values
<1>1. CASE ReadProject(h)
  <2>1. /\ creating[h].pc = "idle" /\ UNCHANGED <<changed, job, missed, lost>>
        /\ creating'[h].pc = "read" /\ creating'[h].variables = Values(entries)
    BY <1>0, <1>1 DEF ReadProject, Turns, jobVars
  <2>2. Handing' = Handing
    BY <1>0, <2>1 DEF Handing
  <2> QED BY <1>0, <2>1, <2>2 DEF ReadersKnow, BannerIsRight
<1>2. CASE CreateManual(h) \/ CreateForPush(h)
  <2>1. /\ creating[h].pc = "read" /\ UNCHANGED <<job, missed, lost>>
        /\ creating'[h].pc = "created" /\ creating'[h].late = creating[h].late
        /\ creating'[h].variables = creating[h].variables
    BY <1>0, <1>2 DEF CreateManual, CreateForPush, Commits, Turns, jobVars, Reading
  <2>2. ReadersKnow'
    BY <1>0, <2>1 DEF ReadersKnow
  <2>3. CASE h \notin Webhook
    BY <2>1, <2>2, <2>3 DEF BannerIsRight, Handing
  <2>4. CASE h \in Webhook
    <3>1. Handing' = Handing /\ UNCHANGED changed
      BY <1>0, <1>2, <2>4 DEF Handing, CreateManual, CreateForPush
    <3> QED BY <1>0, <2>1, <2>2, <3>1 DEF BannerIsRight
  <2> QED BY <2>3, <2>4
<1>3. CASE PushBuildJob(h)
  <2>1. /\ creating[h].pc = "created" /\ creating'[h].pc = "idle"
        /\ job'.pushed = (h \in Webhook) /\ missed' = creating[h].late
        /\ job'.variables = Given(h \in Webhook, creating[h].variables)
    BY <1>0, <1>3 DEF PushBuildJob, Ends, Turns, NoReading
  <2>2. missed' \/ job'.variables = Given(job'.pushed, Values(entries))
    BY <2>1 DEF ReadersKnow
  <2> QED BY <1>0, <2>1, <2>2 DEF ReadersKnow, BannerIsRight
<1>4. CASE GivesUp(h)
  <2>1. /\ creating[h].pc # "idle" /\ creating'[h].pc = "idle"
        /\ UNCHANGED <<changed, job, missed>>
        /\ lost' = (lost \/ (h \notin Webhook /\ creating[h].pc = "created"))
    BY <1>0, <1>4 DEF GivesUp, Ends, Turns, NoReading
  <2>2. ReadersKnow'
    BY <1>0, <2>1 DEF ReadersKnow
  <2>3. h \in Handing \/ Handing' = Handing
    BY <1>0, <2>1 DEF Handing
  <2>4. h \in Handing => lost'
    BY <2>1 DEF Handing
  <2> QED BY <1>0, <2>1, <2>2, <2>3, <2>4 DEF BannerIsRight
<1> QED BY <1>1, <1>2, <1>3, <1>4 DEF TriggerStep

LEMMA NextBanner ==
  ASSUME ConfigurationTypes, ReadersKnow, BannerIsRight,
         [ConfigurationNext]_configurationVars
  PROVE  ReadersKnow' /\ BannerIsRight'
<1>1. CASE UNCHANGED BannerVars
  BY <1>1 DEF BannerVars, jobVars, ReadersKnow, BannerIsRight, Values, Handing
<1>2. ASSUME NEW s \in Save, Insert(s) PROVE ReadersKnow' /\ BannerIsRight'
  <2>1. CASE UNCHANGED BannerVars
    BY <1>1, <2>1
  <2>2. CASE changed' = TRUE /\ creating' = Overtaken
    BY <2>2, OvertakenReadings DEF ReadersKnow, BannerIsRight
  <2> QED BY <1>2, <2>1, <2>2 DEF Insert, Flagged, BannerVars
<1> QED BY <1>1, <1>2, HandlerKeepsBanner, BannerSteps

\* Without the banner the newest job carries what its handler is given of the
\* table, unless a save overtook the handler, or a manual deployment has taken
\* the banner away and its job is still to be pushed, or was lost
\* (deployments.service.ts:29-177, webhooks.service.ts:136-306).
THEOREM BannerTellsTheTruth == ConfigurationSpec => []BannerIsRight
<1>1. ConfigurationInit => ReadersKnow /\ BannerIsRight
  BY DEF ConfigurationInit, ReadersKnow, BannerIsRight, NoReading, Values, Given
<1>2. ConfigurationTypes /\ ReadersKnow /\ BannerIsRight
        /\ [ConfigurationNext]_configurationVars => ReadersKnow' /\ BannerIsRight'
  BY NextBanner
<1> QED BY <1>1, <1>2, ConfigurationTypesAlways, PTL DEF ConfigurationSpec

\* Only a transaction that deletes or inserts counts for the table.
LEMMA TableSteps ==
  ASSUME ConfigurationTypes, [ConfigurationNext]_configurationVars
  PROVE  \/ \E s \in Save : DeleteAll(s) \/ Insert(s)
         \/ /\ UNCHANGED <<entries, overlapped>>
            /\ \A q \in Save : save'[q].pc = "deleted" =>
                 save[q].pc = "deleted" /\ save'[q] = save[q]
<1>0. save \in [Save -> SaveState]
  BY DEF ConfigurationTypes
<1>1. ASSUME NEW s \in Save, SaveEnvVars(s) \/ SaveAnswered(s)
      PROVE  /\ UNCHANGED <<entries, overlapped>>
             /\ \A q \in Save : save'[q].pc = "deleted" =>
                  save[q].pc = "deleted" /\ save'[q] = save[q]
  <2>1. save'[s].pc \in {"sent", "done"}
    BY <1>0, <1>1 DEF SaveEnvVars, SaveAnswered, NoSave
  <2> QED BY <1>1, <2>1, SaveSteps DEF SaveEnvVars, SaveAnswered
<1>2. ASSUME NEW h \in Handler, TriggerStep(h)
      PROVE  UNCHANGED <<entries, overlapped, save>>
  BY <1>2, TriggerSteps
<1>3. ASSUME NEW v \in Variable,
             \/ AddVar(v) \/ RemoveVar(v) \/ Undo(v) \/ ImportEnvFile(v)
             \/ \E w \in Variable : HandleEnvChange(v, w)
      PROVE  UNCHANGED <<entries, overlapped, save>>
  BY <1>3 DEF AddVar, RemoveVar, Undo, ImportEnvFile, HandleEnvChange, Edit
<1>4. DiscardChanges \/ Revalidate \/ UNCHANGED configurationVars
        => UNCHANGED <<entries, overlapped, save>>
  BY DEF DiscardChanges, Revalidate, configurationVars
<1> QED BY <1>1, <1>2, <1>3, <1>4 DEF ConfigurationNext

\* Transactions that are open together are known, and so is, for each of them,
\* who wrote the rows that came after its delete.
OpenTogether ==
  \A s \in Holders :
    /\ \A q \in Holders \ {s} : {s, q} \in overlapped
    /\ \A e \in entries : e \in save[s].seen \/ {s, e.by} \in overlapped

LEMMA NextTable ==
  ASSUME ConfigurationTypes, OpenTogether, TableIsOneSave,
         [ConfigurationNext]_configurationVars
  PROVE  OpenTogether' /\ TableIsOneSave'
<1>0. save \in [Save -> SaveState] /\ entries \subseteq Entry
  BY DEF ConfigurationTypes
<1>1. CASE /\ UNCHANGED <<entries, overlapped>>
           /\ \A q \in Save : save'[q].pc = "deleted" =>
                save[q].pc = "deleted" /\ save'[q] = save[q]
  <2>1. \A q \in Holders' : q \in Holders /\ save'[q] = save[q]
    BY <1>1 DEF Holders
  <2> QED BY <1>1, <2>1 DEF OpenTogether, TableIsOneSave
<1>2. ASSUME NEW s \in Save, DeleteAll(s) PROVE OpenTogether' /\ TableIsOneSave'
  <2>1. /\ save'[s] = Holding(s) /\ \A q \in Save \ {s} : save'[q] = save[q]
        /\ overlapped' = overlapped \cup {{s, q} : q \in Holders}
        /\ UNCHANGED entries
    BY <1>0, <1>2 DEF DeleteAll
  <2>2. /\ save'[s].seen = entries
        /\ \A q \in Holders' : q = s \/ (q \in Holders /\ save'[q] = save[q])
    BY <2>1, HoldingState DEF Holders
  <2>3. ASSUME NEW q \in Holders', NEW r \in Holders' \ {q}
        PROVE  {q, r} \in overlapped'
    <3>1. CASE q # s /\ r # s
      BY <2>1, <2>2, <3>1 DEF OpenTogether
    <3>2. CASE q = s
      BY <2>1, <2>2, <3>2
    <3>3. CASE r = s
      <4>1. q \in Holders /\ {q, r} = {s, q}
        BY <2>2, <3>3
      <4> QED BY <2>1, <4>1
    <3> QED BY <3>1, <3>2, <3>3
  <2>4. ASSUME NEW q \in Holders', NEW e \in entries'
        PROVE  e \in save'[q].seen \/ {q, e.by} \in overlapped'
    BY <2>1, <2>2 DEF OpenTogether
  <2> QED BY <2>1, <2>3, <2>4 DEF OpenTogether, TableIsOneSave
<1>3. ASSUME NEW s \in Save, Insert(s) PROVE OpenTogether' /\ TableIsOneSave'
  <2> DEFINE kept == entries \ save[s].seen
             new == {[by |-> s, variable |-> v] : v \in save[s].variables}
  <2>1. /\ s \in Holders /\ UNCHANGED overlapped
        /\ \/ UNCHANGED entries
           \/ entries' = kept \cup new
        /\ \A q \in Save \ {s} : save'[q] = save[q]
    BY <1>3, SaveSteps DEF Insert, Holders
  <2>2. s \notin Holders'
    <3>1. PICK pc \in {"saved", "failed"} : save' = [save EXCEPT ![s] = Ended(s, pc)]
      BY <1>3 DEF Insert
    <3> QED BY <1>0, <3>1, EndedState DEF Holders
  <2>3. \A q \in Holders' : q \in Holders \ {s} /\ save'[q] = save[q]
    BY <2>1, <2>2 DEF Holders
  <2>4. \A e \in new : e.by = s
    OBVIOUS
  <2> HIDE DEF new
  <2>5. CASE UNCHANGED entries
    BY <2>1, <2>3, <2>5 DEF OpenTogether, TableIsOneSave
  <2>6. CASE entries' = kept \cup new
    \* What the insert keeps was written by transactions open together with it.
    <3>1. \A e \in kept : e \in entries /\ {s, e.by} \in overlapped
      BY <2>1 DEF OpenTogether
    <3>2. ASSUME NEW d \in entries', NEW e \in entries'
          PROVE  d.by = e.by \/ {d.by, e.by} \in overlapped
      <4>1. CASE d \in kept /\ e \in kept
        BY <3>1, <4>1 DEF TableIsOneSave
      <4>2. CASE d \in new /\ e \in new
        BY <2>4, <4>2
      <4>3. CASE d \in new /\ e \in kept
        BY <2>4, <3>1, <4>3
      <4>4. CASE d \in kept /\ e \in new
        <5>1. {d.by, e.by} = {s, d.by}
          BY <2>4, <4>4
        <5> QED BY <3>1, <4>4, <5>1
      <4> QED BY <2>6, <4>1, <4>2, <4>3, <4>4
    <3>3. ASSUME NEW q \in Holders', NEW e \in entries'
          PROVE  e \in save'[q].seen \/ {q, e.by} \in overlapped
      <4>1. CASE e \in kept
        BY <2>3, <4>1 DEF OpenTogether
      <4>2. CASE e \in new
        <5>1. {q, s} \in overlapped
          BY <2>1, <2>3 DEF OpenTogether
        <5> QED BY <2>4, <4>2, <5>1
      <4> QED BY <2>6, <4>1, <4>2
    <3> QED BY <2>1, <2>3, <3>2, <3>3 DEF OpenTogether, TableIsOneSave
  <2> QED BY <2>1, <2>5, <2>6
<1> QED BY <1>1, <1>2, <1>3, TableSteps

\* The table is what one save sent, or what transactions left that were open
\* together (env-vars.service.ts:35-62).
THEOREM TableOfOneSave == ConfigurationSpec => []TableIsOneSave
<1>1. ConfigurationInit => OpenTogether /\ TableIsOneSave
  BY DEF ConfigurationInit, OpenTogether, Holders, NoSave, TableIsOneSave
<1>2. ConfigurationTypes /\ OpenTogether /\ TableIsOneSave
        /\ [ConfigurationNext]_configurationVars => OpenTogether' /\ TableIsOneSave'
  BY NextTable
<1> QED BY <1>1, <1>2, ConfigurationTypesAlways, PTL DEF ConfigurationSpec

\* While nothing is in doubt there is one save in flight at most, and it is of
\* what the panel shows; its transaction finds the rows that it deleted.
Undoubted ==
  doubts = {} =>
    /\ \A s \in InFlight :
         /\ InFlight = {s} /\ dirty /\ save[s].variables = panel
         /\ save[s].pc = "deleted" => save[s].seen = entries
         /\ save[s].pc = "saved" => Values(entries) = panel
    /\ InFlight = {} /\ ~ dirty => panel = Values(entries)

LEMMA NextUndoubted ==
  ASSUME ConfigurationTypes, Undoubted, [ConfigurationNext]_configurationVars
  PROVE  Undoubted'
<1> USE DEF panelVars
<1>0. save \in [Save -> SaveState]
  BY DEF ConfigurationTypes
\* Whoever touches the panel while a save is in flight leaves a doubt.
<1>1. ASSUME NEW V, Edit(V) PROVE Undoubted'
  <2>1. /\ UNCHANGED <<save, entries>> /\ dirty' = TRUE
        /\ doubts' = {} => doubts = {} /\ InFlight = {}
    BY <1>1 DEF Edit
  <2> QED BY <2>1 DEF Undoubted, InFlight
<1>2. ASSUME NEW v \in Variable,
             \/ AddVar(v) \/ RemoveVar(v) \/ ImportEnvFile(v)
             \/ \E w \in Variable : HandleEnvChange(v, w)
      PROVE  Undoubted'
  BY <1>1, <1>2 DEF AddVar, RemoveVar, ImportEnvFile, HandleEnvChange
<1>3. ASSUME NEW v \in Variable, Undo(v) PROVE Undoubted'
  BY <1>3 DEF Undo, Undoubted
<1>4. CASE DiscardChanges
  <2>1. /\ UNCHANGED <<save, entries>> /\ panel' = cache
        /\ doubts' = {} => cache = Values(entries) /\ InFlight = {}
    <3>1. doubts' = {d \in {"stale", "edited"} :
                       IF d = "stale" THEN cache # Values(entries)
                       ELSE InFlight # {}}
      BY <1>4 DEF DiscardChanges
    <3>2. ASSUME doubts' = {} PROVE cache = Values(entries) /\ InFlight = {}
      <4>1. "stale" \notin doubts' /\ "edited" \notin doubts'
        BY <3>2
      <4> QED BY <3>1, <4>1
    <3> QED BY <1>4, <3>2 DEF DiscardChanges
  <2> QED BY <2>1 DEF Undoubted, InFlight, Values
<1>5. ASSUME NEW s \in Save, SaveEnvVars(s) PROVE Undoubted'
  <2>1. /\ dirty /\ save[s].pc = "new" /\ UNCHANGED <<panel, dirty, entries>>
        /\ save'[s].pc = "sent" /\ save'[s].variables = panel
        /\ \A q \in Save \ {s} : save'[q] = save[q]
        /\ doubts' = {} => InFlight = {}
    BY <1>0, <1>5, SaveSteps DEF SaveEnvVars
  <2>2. InFlight' = InFlight \cup {s}
    BY <2>1 DEF InFlight
  <2> QED BY <2>1, <2>2 DEF Undoubted
<1>6. ASSUME NEW s \in Save, DeleteAll(s) PROVE Undoubted'
  <2>1. /\ save[s].pc = "sent" /\ save'[s] = Holding(s)
        /\ \A q \in Save \ {s} : save'[q] = save[q]
        /\ UNCHANGED <<entries, panel, dirty, doubts>>
    BY <1>0, <1>6 DEF DeleteAll
  <2>2. /\ save'[s].pc = "deleted" /\ save'[s].seen = entries
        /\ save'[s].variables = save[s].variables
    BY <2>1, HoldingState
  <2>3. InFlight' = InFlight /\ s \in InFlight
    BY <2>1, <2>2 DEF InFlight
  <2>4. ASSUME doubts = {}
        PROVE  InFlight = {s} /\ dirty /\ save[s].variables = panel
    BY <2>3, <2>4 DEF Undoubted
  <2> QED BY <2>1, <2>2, <2>3, <2>4 DEF Undoubted
<1>7. ASSUME NEW s \in Save, Insert(s) PROVE Undoubted'
  <2> DEFINE new == {[by |-> s, variable |-> v] : v \in save[s].variables}
  <2>1. PICK pc \in {"saved", "failed"} :
          /\ save' = [save EXCEPT ![s] = Ended(s, pc)]
          /\ pc = "saved" => entries' = (entries \ save[s].seen) \cup new
    BY <1>7 DEF Insert
  <2>2. /\ save'[s].pc = pc /\ save'[s].variables = save[s].variables
        /\ \A q \in Save \ {s} : save'[q] = save[q]
        /\ save[s].pc = "deleted" /\ UNCHANGED <<panel, dirty, doubts>>
    BY <1>0, <1>7, <2>1, EndedState DEF Insert
  <2>3. InFlight' = InFlight /\ s \in InFlight
    BY <2>2 DEF InFlight
  <2>4. Values(new) = save[s].variables
    <3>1. Values(new) \subseteq save[s].variables
      BY DEF Values
    <3>2. ASSUME NEW v \in save[s].variables PROVE v \in Values(new)
      <4>1. /\ [by |-> s, variable |-> v] \in new
            /\ [by |-> s, variable |-> v].variable = v
        OBVIOUS
      <4> QED BY <4>1 DEF Values
    <3> QED BY <3>1, <3>2
  <2> HIDE DEF new
  <2>5. ASSUME doubts = {}
        PROVE  /\ InFlight = {s} /\ dirty /\ save[s].variables = panel
               /\ pc = "saved" => Values(entries') = panel
    <3>1. InFlight = {s} /\ dirty /\ save[s].variables = panel
          /\ save[s].seen = entries
      BY <2>2, <2>3, <2>5 DEF Undoubted
    <3>2. pc = "saved" => entries' = new
      BY <2>1, <3>1
    <3> QED BY <2>4, <3>1, <3>2
  <2> QED BY <2>2, <2>3, <2>5 DEF Undoubted, Values
<1>8. ASSUME NEW s \in Save, SaveAnswered(s) PROVE Undoubted'
  <2>1. /\ s \in InFlight /\ save'[s].pc = "done"
        /\ \A q \in Save \ {s} : save'[q] = save[q]
        /\ dirty' = StaysDirty(s) /\ save[s].pc \in {"saved", "failed"}
        /\ UNCHANGED <<entries, panel, doubts>>
    BY <1>0, <1>8, SaveSteps DEF SaveAnswered, NoSave, InFlight
  <2>2. InFlight' = InFlight \ {s}
    BY <2>1 DEF InFlight
  <2>3. ASSUME doubts = {}
        PROVE  /\ InFlight = {s} /\ dirty
               /\ save[s].pc = "saved" => Values(entries) = panel
    BY <2>1, <2>3 DEF Undoubted
  <2> QED BY <2>1, <2>2, <2>3 DEF Undoubted, StaysDirty, Values
<1>9. ASSUME NEW h \in Handler, TriggerStep(h)
      PROVE  UNCHANGED <<entries, save, panel, dirty, doubts>>
  BY <1>9, TriggerSteps
<1>10. Revalidate \/ UNCHANGED configurationVars
         => UNCHANGED <<entries, save, panel, dirty, doubts>>
  BY DEF Revalidate, configurationVars
<1>11. UNCHANGED <<entries, save, panel, dirty, doubts>> => Undoubted'
  BY DEF Undoubted, InFlight, Values
<1> QED BY <1>2, <1>3, <1>4, <1>5, <1>6, <1>7, <1>8, <1>9, <1>10, <1>11
        DEF ConfigurationNext

\* A panel without a Save button shows the table, unless one of the doubts
\* applies (EnvVarsPanel.tsx:84-170, use-projects.ts:58-80).
THEOREM CleanPanelShowsTheTable == ConfigurationSpec => []CleanPanelIsSaved
<1>1. ConfigurationInit => Undoubted
  BY DEF ConfigurationInit, Undoubted, InFlight, NoSave, Values
<1>2. ConfigurationTypes /\ Undoubted /\ [ConfigurationNext]_configurationVars
        => Undoubted'
  BY NextUndoubted
<1>3. Undoubted => CleanPanelIsSaved
  BY DEF Undoubted, CleanPanelIsSaved
<1> QED BY <1>1, <1>2, <1>3, ConfigurationTypesAlways, PTL DEF ConfigurationSpec
-----------------------------------------------------------------------------
(* The types of the variables. *)

\* For finitely many variables the index on project and key says that no key
\* has two values.
OneValue(V) == \A v, w \in V : keyOf[v] = keyOf[w] => v = w

LEMMA UniqueIsOneValue ==
  ASSUME NEW V, IsFiniteSet(V)
  PROVE  Unique(V) <=> OneValue(V)
<1> DEFINE f == [v \in V |-> keyOf[v]]
<1>1. f \in Surjection(V, Keys(V))
  BY DEF Keys, Surjection
<1>2. Cardinality(Keys(V)) = Cardinality(V) <=> f \in Injection(V, Keys(V))
  BY <1>1, FS_Surjection
<1>3. f \in [V -> Keys(V)] /\ \A v \in V : f[v] = keyOf[v]
  BY DEF Keys
<1> HIDE DEF f
<1>4. f \in Injection(V, Keys(V)) <=> OneValue(V)
  BY <1>3 DEF OneValue, Injection, IsInjective
<1> QED BY <1>2, <1>4 DEF Unique

LEMMA FiniteValues ==
  ASSUME NEW T, IsFiniteSet(T)
  PROVE  IsFiniteSet(Values(T))
<1> DEFINE f == [e \in T |-> e.variable]
<1>1. f \in Surjection(T, Values(T))
  BY DEF Values, Surjection
<1> QED BY <1>1, FS_Surjection

LEMMA FiniteRows ==
  ASSUME NEW s, NEW V, IsFiniteSet(V)
  PROVE  LET new == {[by |-> s, variable |-> v] : v \in V}
         IN  IsFiniteSet(new) /\ Values(new) = V
<1> DEFINE new == {[by |-> s, variable |-> v] : v \in V}
           f == [v \in V |-> [by |-> s, variable |-> v]]
<1>1. f \in Surjection(V, new)
  BY DEF Surjection
<1>2. \A e \in new : e.variable \in V
  OBVIOUS
<1>3. ASSUME NEW v \in V PROVE v \in Values(new)
  <2>1. [by |-> s, variable |-> v] \in new
    OBVIOUS
  <2>2. [by |-> s, variable |-> v].variable = v
    OBVIOUS
  <2> HIDE DEF new
  <2> QED BY <2>1, <2>2 DEF Values
<1>4. Values(new) = V
  <2> HIDE DEF new
  <2> QED BY <1>2, <1>3 DEF Values
<1> QED BY <1>1, <1>4, FS_Surjection

\* What the types of the variables need beyond ConfigurationTypes.
ConfigurationRest ==
  /\ Unique(Values(entries))
  /\ IsFiniteSet(entries) /\ IsFiniteSet(panel) /\ IsFiniteSet(cache)
  /\ \A s \in Save : IsFiniteSet(save[s].variables)
                     /\ IsFiniteSet(save[s].previous)
  /\ job \in [pushed : BOOLEAN, variables : SUBSET Variable]
  /\ edits \in 0 .. MaxEdit
  /\ overlapped \subseteq SUBSET Save /\ missed \in BOOLEAN /\ lost \in BOOLEAN
  /\ doubts \subseteq {"undone", "edited", "overlap", "stale"}

\* A transaction leaves no key with two values.
LEMMA InsertIsUnique ==
  ASSUME ConfigurationTypes, ConfigurationRest, NEW s \in Save, Insert(s)
  PROVE  Unique(Values(entries')) /\ IsFiniteSet(entries')
<1> DEFINE kept == entries \ save[s].seen
           V == save[s].variables
           new == {[by |-> s, variable |-> v] : v \in V}
<1>1. CASE ~ Fits(s, kept)
  BY <1>1 DEF Insert, ConfigurationRest
<1>2. CASE Fits(s, kept)
  <2>1. entries' = kept \cup new
    BY <1>2 DEF Insert
  <2>2. IsFiniteSet(V) /\ IsFiniteSet(kept) /\ IsFiniteSet(entries)
    BY FS_Difference DEF ConfigurationRest
  <2>3. IsFiniteSet(new) /\ Values(new) = V
    BY <2>2, FiniteRows
  <2>4. Values(entries') = Values(kept) \cup V
    BY <2>1, <2>3 DEF Values
  <2>5. IsFiniteSet(entries')
    BY <2>1, <2>2, <2>3, FS_Union
  <2>6. OneValue(V) /\ OneValue(Values(entries))
    BY <1>2, <2>2, FiniteValues, UniqueIsOneValue DEF Fits, ConfigurationRest
  <2>7. Values(kept) \subseteq Values(entries)
    BY DEF Values
  <2>8. \A v \in Values(kept), w \in V : keyOf[v] # keyOf[w]
    BY <1>2 DEF Fits, Keys
  <2>9. OneValue(Values(entries'))
    BY <2>4, <2>6, <2>7, <2>8 DEF OneValue
  <2> QED BY <2>5, <2>9, FiniteValues, UniqueIsOneValue
<1> QED BY <1>1, <1>2

LEMMA NextConfigurationRest ==
  ASSUME ConfigurationTypes, ConfigurationRest,
         [ConfigurationNext]_configurationVars
  PROVE  ConfigurationRest'
<1> USE DEF panelVars, jobVars
<1>0. /\ entries \subseteq Entry /\ panel \subseteq Variable
      /\ cache \subseteq Variable /\ save \in [Save -> SaveState]
      /\ creating \in [Handler -> Reading] /\ Values(entries) \subseteq Variable
      /\ MaxEdit \in Nat
  BY ValuesOfEntries, ConfigurationAssumption
  DEF ConfigurationTypes, ConfigurationAssumption
\* The rows, the job and the saves stay, and the panel is of finitely many.
<1>1. ASSUME UNCHANGED <<entries, save, jobVars, overlapped>>,
             IsFiniteSet(panel'), IsFiniteSet(cache'), edits' \in 0 .. MaxEdit,
             doubts' \subseteq {"undone", "edited", "overlap", "stale"}
      PROVE  ConfigurationRest'
  BY <1>1 DEF ConfigurationRest
<1>2. ASSUME NEW V, IsFiniteSet(V), Edit(V) PROVE ConfigurationRest'
  <2>1. /\ UNCHANGED <<entries, save, jobVars, overlapped, cache>>
        /\ panel' = V /\ edits < MaxEdit /\ edits' = edits + 1
        /\ doubts' \subseteq doubts \cup {"edited"}
    BY <1>2 DEF Edit
  <2> QED BY <1>0, <1>1, <1>2, <2>1 DEF ConfigurationRest
<1>3. ASSUME NEW v \in Variable, NEW w \in Variable, HandleEnvChange(v, w)
      PROVE  ConfigurationRest'
  <2>1. IsFiniteSet((panel \ {v}) \cup {w})
    BY FS_AddElement, FS_RemoveElement DEF ConfigurationRest
  <2> QED BY <1>2, <1>3, <2>1 DEF HandleEnvChange
<1>4. ASSUME NEW v \in Variable, AddVar(v) \/ RemoveVar(v) \/ ImportEnvFile(v)
      PROVE  ConfigurationRest'
  <2>1. IsFiniteSet(panel \cup {v}) /\ IsFiniteSet(panel \ {v})
    BY FS_AddElement, FS_RemoveElement DEF ConfigurationRest
  <2> QED BY <1>2, <1>4, <2>1 DEF AddVar, RemoveVar, ImportEnvFile
<1>5. ASSUME NEW v \in Variable, Undo(v) PROVE ConfigurationRest'
  <2>1. IsFiniteSet(panel \cup {v})
    BY FS_AddElement DEF ConfigurationRest
  <2> QED BY <1>1, <1>5, <2>1 DEF Undo, ConfigurationRest
<1>6. CASE DiscardChanges \/ Revalidate
  <2>1. IsFiniteSet(Values(entries))
    BY FiniteValues DEF ConfigurationRest
  <2> QED BY <1>1, <1>6, <2>1 DEF DiscardChanges, Revalidate, ConfigurationRest
<1>7. ASSUME NEW s \in Save, SaveEnvVars(s) PROVE ConfigurationRest'
  <2>1. /\ save' = [save EXCEPT ![s] = [pc |-> "sent", variables |-> panel,
                                        seen |-> {}, ahead |-> {},
                                        previous |-> cache]]
        /\ cache' = panel /\ doubts' \subseteq {"overlap"}
        /\ UNCHANGED <<entries, panel, edits, jobVars, overlapped>>
    BY <1>7 DEF SaveEnvVars
  <2> QED BY <1>0, <2>1 DEF ConfigurationRest
<1>8. ASSUME NEW s \in Save, DeleteAll(s) PROVE ConfigurationRest'
  <2>1. /\ save' = [save EXCEPT ![s] = Holding(s)]
        /\ overlapped' = overlapped \cup {{s, q} : q \in Holders}
        /\ UNCHANGED <<entries, panel, cache, edits, jobVars, doubts>>
    BY <1>8 DEF DeleteAll
  <2>2. /\ Holding(s).variables = save[s].variables
        /\ Holding(s).previous = save[s].previous
    BY <1>0 DEF Holding, SaveState
  <2>3. {{s, q} : q \in Holders} \subseteq SUBSET Save
    BY DEF Holders
  <2> QED BY <1>0, <2>1, <2>2, <2>3 DEF ConfigurationRest
<1>9. ASSUME NEW s \in Save, Insert(s) PROVE ConfigurationRest'
  <2>1. PICK pc \in {"saved", "failed"} : save' = [save EXCEPT ![s] = Ended(s, pc)]
    BY <1>9 DEF Insert
  <2>2. /\ Ended(s, pc).variables = save[s].variables
        /\ Ended(s, pc).previous = save[s].previous
    BY EndedState
  <2>3. UNCHANGED <<panel, cache, edits, jobVars, overlapped, doubts>>
    BY <1>9 DEF Insert
  <2>4. \A q \in Save : IsFiniteSet(save'[q].variables)
                        /\ IsFiniteSet(save'[q].previous)
    BY <1>0, <2>1, <2>2 DEF ConfigurationRest
  <2> QED BY <1>9, <2>3, <2>4, InsertIsUnique DEF ConfigurationRest
<1>10. ASSUME NEW s \in Save, SaveAnswered(s) PROVE ConfigurationRest'
  <2>1. /\ save' = [save EXCEPT ![s] = [NoSave EXCEPT !.pc = "done"]]
        /\ cache' \in {cache, save[s].previous}
        /\ UNCHANGED <<entries, panel, edits, jobVars, overlapped, doubts>>
    BY <1>10 DEF SaveAnswered
  <2>2. /\ [NoSave EXCEPT !.pc = "done"].variables = {}
        /\ [NoSave EXCEPT !.pc = "done"].previous = {}
    BY DEF NoSave
  <2>3. \A q \in Save : IsFiniteSet(save'[q].variables)
                        /\ IsFiniteSet(save'[q].previous)
    BY <1>0, <2>1, <2>2, FS_EmptySet DEF ConfigurationRest
  <2> QED BY <2>1, <2>3 DEF ConfigurationRest
<1>11. ASSUME NEW h \in Handler, TriggerStep(h) PROVE ConfigurationRest'
  <2>1. UNCHANGED <<entries, save, panel, cache, edits, overlapped, doubts>>
    BY <1>11, TriggerSteps
  <2>2. creating[h].variables \subseteq Variable /\ creating[h].late \in BOOLEAN
    BY <1>0 DEF Reading
  <2>3. Given(h \in Webhook, creating[h].variables) \subseteq Variable
    BY <2>2 DEF Given
  <2>4. job' \in [pushed : BOOLEAN, variables : SUBSET Variable]
    <3> DEFINE pushed == h \in Webhook
               given == Given(pushed, creating[h].variables)
    <3>1. job' = job \/ job' = [pushed |-> pushed, variables |-> given]
      BY <1>11 DEF TriggerStep, ReadProject, CreateManual, CreateForPush,
                   PushBuildJob, GivesUp, jobVars
    <3>2. pushed \in BOOLEAN /\ given \subseteq Variable
      BY <2>3
    <3> HIDE DEF pushed, given
    <3> QED BY <3>1, <3>2 DEF ConfigurationRest
  <2>5. missed' \in BOOLEAN /\ lost' \in BOOLEAN
    BY <1>11, <2>2 DEF TriggerStep, ReadProject, CreateManual, CreateForPush,
                       PushBuildJob, GivesUp, jobVars, ConfigurationRest
  <2> QED BY <2>1, <2>4, <2>5 DEF ConfigurationRest
<1>12. CASE UNCHANGED configurationVars
  BY <1>12 DEF configurationVars, ConfigurationRest
<1> QED BY <1>3, <1>4, <1>5, <1>6, <1>7, <1>8, <1>9, <1>10, <1>11, <1>12
        DEF ConfigurationNext

\* Table, panel, cache, saves and job stay in their types, and no key has two
\* values in the table, whichever transactions overlap
\* (env-vars.service.ts:35-62, schema.prisma:120).
THEOREM ConfigurationTypeCorrect == ConfigurationSpec => []ConfigurationTypeOK
<1>1. ConfigurationInit => ConfigurationRest
  <2> SUFFICES ASSUME ConfigurationInit PROVE ConfigurationRest
    OBVIOUS
  <2>1. /\ entries = {} /\ panel = {} /\ cache = {} /\ edits = 0
        /\ job = [pushed |-> FALSE, variables |-> {}]
        /\ overlapped = {} /\ missed = FALSE /\ lost = FALSE /\ doubts = {}
        /\ save = [s \in Save |-> NoSave]
    BY DEF ConfigurationInit
  <2>2. Unique(Values(entries))
    <3>1. Values(entries) = {}
      BY <2>1 DEF Values
    <3>2. Keys({}) = {}
      BY DEF Keys
    <3> QED BY <3>1, <3>2 DEF Unique
  <2>3. \A s \in Save : IsFiniteSet(save[s].variables)
                        /\ IsFiniteSet(save[s].previous)
    BY <2>1, FS_EmptySet DEF NoSave
  <2>4. edits \in 0 .. MaxEdit
    BY <2>1, ConfigurationAssumption DEF ConfigurationAssumption
  <2> QED BY <2>1, <2>2, <2>3, <2>4, FS_EmptySet DEF ConfigurationRest
<1>2. ConfigurationTypes /\ ConfigurationRest => ConfigurationTypeOK
  BY DEF ConfigurationTypes, ConfigurationRest, ConfigurationTypeOK, SaveState
<1> QED BY <1>1, <1>2, NextConfigurationRest, ConfigurationTypesAlways,
        PTL DEF ConfigurationSpec

-----------------------------------------------------------------------------
(* The settings of a user. *)

Put == [n : Nat, pc : {"sent", "stored", "refused"}, from : Window]

\* The parts of the page and of the requests that the row depends on.
OwnerTypes ==
  /\ copy \in [Window -> Form \cup {NoConfig}]
  /\ pressed \in Seq(Form \cup {NoConfig})
  /\ puts \subseteq Put
  /\ \A p \in puts : p.n \in DOMAIN pressed

LEMMA PutAnswered ==
  ASSUME NEW p \in Put, NEW pc \in {"stored", "refused"}
  PROVE  [p EXCEPT !.pc = pc] \in Put /\ [p EXCEPT !.pc = pc].n = p.n
  BY DEF Put

\* One action may change a copy; what was stored is of that type, too.
LEMMA ChangeTypes ==
  ASSUME OwnerTypes, NEW w \in Window, Change(w)
  PROVE  copy' \in [Window -> Form \cup {NoConfig}]
<1> DEFINE c == copy[w]
<1>1. c \in Form
  BY DEF OwnerTypes, Change
<1> HIDE DEF c
<1>2. /\ \A b \in BOOLEAN : [c EXCEPT !.mail = b] \in Form
      /\ \A t \in {5, 60} : [c EXCEPT !.ttl = t] \in Form
      /\ \A h \in Hook \cup {Empty} : [c EXCEPT !.hook = h] \in Form
  BY <1>1 DEF Form
<1>3. (~ c.mail) \in BOOLEAN
  OBVIOUS
<1>4. \E e \in Form : copy' = [copy EXCEPT ![w] = e]
  <2>1. CASE copy' = [copy EXCEPT ![w].mail = ~ @]
    <3>1. copy' = [copy EXCEPT ![w] = [c EXCEPT !.mail = ~ c.mail]]
      BY <2>1 DEF c
    <3> QED BY <1>2, <1>3, <3>1
  <2>2. CASE \E t \in {5, 60} : copy' = [copy EXCEPT ![w].ttl = t]
    BY <1>2, <2>2 DEF c
  <2>3. CASE \E h \in Hook \cup {Empty} : copy' = [copy EXCEPT ![w].hook = h]
    BY <1>2, <2>3 DEF c
  <2> QED BY <2>1, <2>2, <2>3 DEF Change
<1> QED BY <1>4 DEF OwnerTypes

\* What was sent once stays what was sent.
RowInv ==
  /\ OwnerTypes
  /\ config \in Form \cup {NoConfig}
  /\ RowIsOneForm

LEMMA NextRow == RowInv /\ [OwnerNext]_ownerVars => RowInv'
<1> SUFFICES ASSUME RowInv, [OwnerNext]_ownerVars PROVE RowInv'
  OBVIOUS
<1> USE DEF RowInv, pageVars
<1>0. DefaultRow \in Form
  BY DEF DefaultRow, Form
<1>1. ASSUME NEW w \in Window, Load(w) PROVE RowInv'
  BY <1>0, <1>1 DEF Load, OwnerTypes, RowIsOneForm
<1>2. ASSUME NEW w \in Window, Change(w) PROVE RowInv'
  BY <1>2, ChangeTypes DEF Change, OwnerTypes, RowIsOneForm
<1>3. ASSUME NEW w \in Window, SaveSettings(w) PROVE RowInv'
  <2> DEFINE put == [n |-> Len(pressed'), pc |-> "sent", from |-> w]
  <2>1. /\ pressed' = Append(pressed, copy[w])
        /\ puts' = puts \cup {put} /\ UNCHANGED <<copy, config>>
    BY <1>3 DEF SaveSettings
  <2>2. /\ pressed' \in Seq(Form \cup {NoConfig})
        /\ DOMAIN pressed \subseteq DOMAIN pressed'
        /\ Len(pressed') \in DOMAIN pressed'
        /\ \A x \in DOMAIN pressed : pressed'[x] = pressed[x]
    BY <2>1 DEF OwnerTypes
  <2>3. put \in Put /\ put.n \in DOMAIN pressed'
    BY <2>2 DEF Put
  <2> HIDE DEF put
  <2>4. OwnerTypes'
    BY <2>1, <2>2, <2>3 DEF OwnerTypes
  <2>5. RowIsOneForm'
    BY <2>1, <2>2 DEF RowIsOneForm
  <2> QED BY <2>1, <2>4, <2>5
<1>4. ASSUME NEW p \in puts, UpdateConfig(p) PROVE RowInv'
  <2>1. PICK pc \in {"stored", "refused"} :
          puts' = (puts \ {p}) \cup {[p EXCEPT !.pc = pc]}
    BY <1>4 DEF UpdateConfig
  <2>2. UNCHANGED <<copy, pressed>>
    BY <1>4 DEF UpdateConfig
  <2>3. p \in Put /\ p.n \in DOMAIN pressed
    BY DEF OwnerTypes
  <2>4. OwnerTypes'
    BY <2>1, <2>2, <2>3, PutAnswered DEF OwnerTypes
  \* A form that passes is stored as it is.
  <2>5. config' = config \/ config' = pressed[p.n]
    BY <1>4 DEF UpdateConfig, IsValid, Stored
  <2>6. pressed[p.n] \in Form \cup {NoConfig}
    BY <2>3 DEF OwnerTypes
  <2> QED BY <2>2, <2>3, <2>4, <2>5, <2>6 DEF RowIsOneForm
<1>5. ASSUME NEW p \in puts, SettingsSaved(p) \/ SettingsNotSaved(p) PROVE RowInv'
  BY <1>5 DEF SettingsSaved, SettingsNotSaved, OwnerTypes, RowIsOneForm
<1>6. UNCHANGED <<config, pageVars>> => RowInv'
  BY DEF OwnerTypes, RowIsOneForm
<1>7. MarkedReady \/ JobFails \/ NotifySuccess \/ NotifyFailure
        \/ UNCHANGED ownerVars => UNCHANGED <<config, pageVars>>
  BY DEF MarkedReady, JobFails, NotifySuccess, NotifyFailure, WorkerTurns, Announces,
     ownerVars
<1> QED BY <1>1, <1>2, <1>3, <1>4, <1>5, <1>6, <1>7 DEF OwnerNext

\* The row is the defaults or the whole of one form that some tab sent
\* (settings.service.ts:31-52, update-settings.dto.ts:30-33).
THEOREM RowOfOneForm == OwnerSpec => []RowIsOneForm
<1>1. OwnerInit => RowInv
  <2> SUFFICES ASSUME OwnerInit PROVE RowInv
    OBVIOUS
  <2>1. DefaultRow \in Form /\ << >> \in Seq(Form \cup {NoConfig})
    BY DEF DefaultRow, Form
  <2> QED BY <2>1 DEF OwnerInit, RowInv, OwnerTypes, RowIsOneForm
<1>2. RowInv => RowIsOneForm
  BY DEF RowInv
<1> QED BY <1>1, <1>2, NextRow, PTL DEF OwnerSpec

-----------------------------------------------------------------------------
\* Nothing is said before the job has come to one end, and then only that.
Told ==
  /\ outcome # "over" => told = {}
  /\ ToldOneOutcome

LEMMA MessagesAgree ==
  ASSUME NEW status, NEW m \in Messages(status)
  PROVE  m.says = status
  BY DEF Messages

LEMMA NextTold == Told /\ [OwnerNext]_ownerVars => Told'
<1> SUFFICES ASSUME Told, [OwnerNext]_ownerVars PROVE Told'
  OBVIOUS
<1> USE DEF pageVars
<1>1. ASSUME NEW status, outcome # "over",
             Announces(status, "over") \/ WorkerTurns("over")
      PROVE  Told'
  <2>1. /\ told' \subseteq Messages(status) /\ outcome' = "over"
    BY <1>1 DEF Announces, WorkerTurns, Told
  <2> QED BY <2>1, MessagesAgree DEF Told, ToldOneOutcome
<1>2. CASE NotifySuccess
  BY <1>1, <1>2 DEF NotifySuccess, AfterLostNotice
<1>3. CASE NotifyFailure
  BY <1>1, <1>3 DEF NotifyFailure
<1>4. CASE MarkedReady \/ JobFails
  BY <1>4 DEF MarkedReady, JobFails, WorkerTurns, Told, ToldOneOutcome
<1>5. ASSUME UNCHANGED <<outcome, told>> PROVE Told'
  BY <1>5 DEF Told, ToldOneOutcome
<1>6. ASSUME NEW w \in Window, Load(w) \/ Change(w) \/ SaveSettings(w)
      PROVE  UNCHANGED <<outcome, told>>
  BY <1>6 DEF Load, Change, SaveSettings
<1>7. ASSUME NEW p, UpdateConfig(p) \/ SettingsSaved(p) \/ SettingsNotSaved(p)
      PROVE  UNCHANGED <<outcome, told>>
  BY <1>7 DEF UpdateConfig, SettingsSaved, SettingsNotSaved
<1>8. UNCHANGED ownerVars => UNCHANGED <<outcome, told>>
  BY DEF ownerVars
<1> QED BY <1>2, <1>3, <1>4, <1>5, <1>6, <1>7, <1>8 DEF OwnerNext

\* A deployment that was announced as successful is never announced as failed
\* (notifications.go:17-36).
THEOREM OneOutcomeTold == OwnerSpec => []ToldOneOutcome
<1>1. OwnerInit => Told
  BY DEF OwnerInit, Told, ToldOneOutcome
<1>2. Told => ToldOneOutcome
  BY DEF Told
<1> QED BY <1>1, <1>2, NextTold, PTL DEF OwnerSpec
-----------------------------------------------------------------------------
(* The types of the settings. *)

\* What the types of the settings need beyond RowInv.
OwnerRest ==
  /\ unsaved \subseteq Window
  /\ outcome \in {"running", "ready", "failing", "over"}
  /\ changes \in 0 .. MaxChange

LEMMA NextOwnerRest ==
  OwnerRest /\ [OwnerNext]_ownerVars => OwnerRest'
<1> SUFFICES ASSUME OwnerRest, [OwnerNext]_ownerVars PROVE OwnerRest'
  OBVIOUS
<1> USE DEF OwnerRest, pageVars
<1>0. MaxChange \in Nat
  BY SettingsAssumption DEF SettingsAssumption
<1>1. ASSUME NEW w \in Window, Load(w) \/ SaveSettings(w) PROVE OwnerRest'
  BY <1>1, Zenon DEF Load, SaveSettings
<1>2. ASSUME NEW w \in Window, Change(w) PROVE OwnerRest'
  <2>1. /\ changes < MaxChange /\ changes' = changes + 1
        /\ unsaved' = unsaved \cup {w} /\ outcome' = outcome
    BY <1>2, Zenon DEF Change
  <2> QED BY <1>0, <2>1
<1>3. ASSUME NEW p \in puts,
             UpdateConfig(p) \/ SettingsSaved(p) \/ SettingsNotSaved(p)
      PROVE  OwnerRest'
  <2>1. UNCHANGED <<outcome, changes>> /\ unsaved' \subseteq unsaved
    BY <1>3, Zenon DEF UpdateConfig, SettingsSaved, SettingsNotSaved
  <2> QED BY <2>1
<1>4. CASE MarkedReady \/ JobFails \/ NotifySuccess \/ NotifyFailure
           \/ UNCHANGED ownerVars
  <2>1. UNCHANGED <<unsaved, changes>>
    BY <1>4, Zenon DEF MarkedReady, JobFails, NotifySuccess, NotifyFailure,
       WorkerTurns, Announces, ownerVars
  <2>2. outcome' \in {outcome, "ready", "failing", "over"}
    BY <1>4 DEF MarkedReady, JobFails, NotifySuccess, NotifyFailure,
       WorkerTurns, Announces, AfterLostNotice, ownerVars
  <2> QED BY <2>1, <2>2
<1> QED BY <1>1, <1>2, <1>3, <1>4 DEF OwnerNext

\* Row, copies, requests and outcome stay in their types, for any number of
\* tabs, addresses and saves (settings.service.ts:31-52).
THEOREM OwnerTypeCorrect == OwnerSpec => []OwnerTypeOK
<1>1. OwnerInit => RowInv /\ OwnerRest
  <2> SUFFICES ASSUME OwnerInit PROVE RowInv /\ OwnerRest
    OBVIOUS
  <2>1. DefaultRow \in Form /\ << >> \in Seq(Form \cup {NoConfig})
    BY DEF DefaultRow, Form
  <2>2. RowInv
    BY <2>1 DEF OwnerInit, RowInv, OwnerTypes, RowIsOneForm
  <2>3. OwnerRest
    BY SettingsAssumption DEF OwnerInit, OwnerRest, SettingsAssumption
  <2> QED BY <2>2, <2>3
<1>2. RowInv /\ OwnerRest => OwnerTypeOK
  BY DEF RowInv, OwnerTypes, OwnerRest, OwnerTypeOK
<1> QED BY <1>1, <1>2, NextRow, NextOwnerRest, PTL DEF OwnerSpec

-----------------------------------------------------------------------------
(* The list of projects over SWR's cache. *)

\* What the cache and the answers hold: a row number, for one deployment also
\* whether it is in progress.
RowAnswer == [row : Nat] \cup [row : Nat, live : BOOLEAN]
Press == [pc : {"none"}] \cup [pc : {"cancel", "checked", "cancelled"}, row : Deployed]
         \cup [pc : {"redeploy"}, from : Int]
         \cup [pc : {"created"}, from : Int, row : Nat]
Fetch == [pc : {"none", "sent", "read", "kept"}, answer : RowAnswer]

PageTypes ==
  /\ table \in Seq({"live", "over"})
  /\ data \in [Key -> RowAnswer] /\ fetching \in [Key -> Fetch]
  /\ own \subseteq Nat
  /\ place \in Int /\ call \in Press
  /\ call.pc = "created" => call.row <= Len(table)

\* The rows the tab has created are there; a list at rest has them, and so
\* has the answer that it awaits.
Listed(row) == \A d \in own : d <= row

ListInv ==
  /\ PageTypes
  /\ Listed(Len(table))
  /\ fetching[Projects].pc = "read" => Listed(fetching[Projects].answer.row)
  /\ OwnAreListed

\* A step keeps the list when rows are only added and the key /projects is
\* left alone or asked for anew.
LEMMA ListKept ==
  ASSUME ListInv, PageTypes', UNCHANGED <<data, own>>, Len(table) <= Len(table'),
         \/ fetching'[Projects] = fetching[Projects]
         \/ fetching'[Projects] = SentEntry
         \/ /\ fetching[Projects].pc = "kept"
            /\ fetching'[Projects] = NoEntry,
         failed' = failed
  PROVE  ListInv'
<1>1. Projects \in Key
  BY DEF Key
<1>2. \A n : Listed(n)' <=> Listed(n)
  BY DEF Listed
<1>3. Len(table) \in Nat /\ Len(table') \in Nat /\ own \subseteq Nat
  BY DEF ListInv, PageTypes
<1>4. Listed(Len(table))'
  BY <1>2, <1>3 DEF ListInv, Listed
<1>5. (fetching[Projects].pc = "read" => Listed(fetching[Projects].answer.row))'
  BY <1>2 DEF ListInv, SentEntry, NoEntry
<1>6. OwnAreListed'
  BY DEF ListInv, OwnAreListed, SentEntry, NoEntry
<1> QED BY <1>4, <1>5, <1>6 DEF ListInv

LEMMA EntryTypes == /\ SentEntry \in Fetch /\ NoEntry \in Fetch
                    /\ [NoEntry EXCEPT !.pc = "kept"] \in Fetch
                    /\ NoData \in RowAnswer
BY DEF SentEntry, NoEntry, NoData, Fetch, RowAnswer

LEMMA NoCallTyped == NoCall \in Press /\ NoCall.pc # "created"
BY DEF NoCall, Press

\* What the rows become: one is overwritten, and one may be added.
LEMMA RowsTyped ==
  ASSUME PageTypes, NEW d, NEW s \in {"live", "over"}
  PROVE  /\ [table EXCEPT ![d] = s] \in Seq({"live", "over"})
         /\ Len([table EXCEPT ![d] = s]) = Len(table)
<1>1. CASE d \in 1 .. Len(table)
  BY <1>1 DEF PageTypes
<1>2. CASE d \notin 1 .. Len(table)
  <2>1. [table EXCEPT ![d] = s] = table
    BY <1>2 DEF PageTypes
  <2> QED BY <2>1 DEF PageTypes
<1> QED BY <1>1, <1>2

LEMMA RowAdded ==
  ASSUME NEW old \in Seq({"live", "over"}), NewRow(old)
  PROVE  table' \in Seq({"live", "over"}) /\ Len(table') = Len(old) + 1
BY DEF NewRow

LEMMA JoiningKeeps ==
  ASSUME PageTypes, NEW K, Joining(K)
  PROVE  /\ fetching' \in [Key -> Fetch]
         /\ \/ fetching'[Projects] = fetching[Projects]
            \/ fetching'[Projects] = SentEntry
<1>1. Projects \in Key
  BY DEF Key
<1> QED BY <1>1, EntryTypes DEF PageTypes, Joining

\* Steps that only concern the table.
LEMMA TableListed ==
  ASSUME ListInv, table' \in Seq({"live", "over"}), Len(table) <= Len(table'),
         UNCHANGED <<place, swrVars, own>>, call' \in Press,
         call'.pc = "created" => call'.row <= Len(table')
  PROVE  ListInv'
<1>1. UNCHANGED <<place, data, fetching, failed, own>>
  BY DEF swrVars
<1>2. PageTypes'
  BY <1>1 DEF ListInv, PageTypes
<1> QED BY <1>1, <1>2, ListKept

\* Steps that only ask: the keys in view, or some of them.
LEMMA AskingListed ==
  ASSUME ListInv, NEW K, Joining(K), place' \in Int,
         UNCHANGED <<tableVars, data, failed, call, own>>
  PROVE  ListInv'
<1>1. UNCHANGED <<table, data, failed, call, own>>
  BY DEF tableVars
<1>2. /\ fetching' \in [Key -> Fetch]
      /\ \/ fetching'[Projects] = fetching[Projects]
         \/ fetching'[Projects] = SentEntry
  BY JoiningKeeps DEF ListInv
<1>3. PageTypes' /\ Len(table) <= Len(table')
  BY <1>1, <1>2 DEF ListInv, PageTypes
<1> QED BY <1>1, <1>2, <1>3, ListKept

LEMMA NextListed == ListInv /\ [PagesNext]_pagesVars => ListInv'
<1> SUFFICES ASSUME ListInv, [PagesNext]_pagesVars PROVE ListInv'
  OBVIOUS
<1>0. /\ PageTypes /\ Len(table) \in Nat /\ Projects \in Key
      /\ call \in Press
      /\ call.pc = "created" => call.row <= Len(table)
  BY DEF ListInv, PageTypes, Key
<1>1. ASSUME NEW k \in Key, ApiReads(k) PROVE ListInv'
  <2> DEFINE new == [pc |-> "read", answer |-> AnswerOf(k)]
  <2>1. /\ fetching' = [fetching EXCEPT ![k] = new]
        /\ UNCHANGED <<table, place, data, failed, call, own>>
    BY <1>1 DEF ApiReads, tableVars
  <2>2. AnswerOf(k) \in RowAnswer
    BY <1>0 DEF AnswerOf, RowAnswer, Key, Deployed, Projects
  <2>3. fetching' \in [Key -> Fetch]
    BY <1>0, <2>1, <2>2 DEF PageTypes, Fetch
  <2>4. PageTypes'
    BY <1>0, <2>1, <2>3 DEF PageTypes
  <2>5. CASE k # Projects
    <3>1. fetching'[Projects] = fetching[Projects]
      BY <1>0, <2>1, <2>5 DEF PageTypes
    <3> QED BY <1>0, <2>1, <2>4, <3>1, ListKept
  <2>6. CASE k = Projects
    <3>1. fetching'[Projects] = [pc |-> "read", answer |-> [row |-> Len(table)]]
      BY <1>0, <2>1, <2>6 DEF PageTypes, AnswerOf
    <3>2. Listed(Len(table))'
      BY <2>1 DEF ListInv, Listed
    <3> QED BY <2>1, <2>4, <3>1, <3>2 DEF ListInv, OwnAreListed
  <2> QED BY <2>5, <2>6
<1>2. ASSUME NEW k \in Key, Answered(k) PROVE ListInv'
  <2>1. /\ fetching[k].pc = "read"
        /\ fetching' = [fetching EXCEPT ![k] = [NoEntry EXCEPT !.pc = "kept"]]
        /\ data' = [data EXCEPT ![k] = fetching[k].answer]
        /\ failed' = failed \ {k}
        /\ UNCHANGED <<table, place, call, own>>
    BY <1>2 DEF Answered, tableVars
  <2>2. fetching[k].answer \in RowAnswer
    BY <1>0 DEF PageTypes, Fetch
  <2>3. PageTypes'
    BY <1>0, <2>1, <2>2, EntryTypes DEF PageTypes
  <2>4. Listed(Len(table))'
    BY <2>1 DEF ListInv, Listed
  <2>5. CASE k # Projects
    <3>1. /\ fetching'[Projects] = fetching[Projects]
          /\ data'[Projects] = data[Projects]
          /\ Projects \in failed' <=> Projects \in failed
      BY <1>0, <2>1, <2>5 DEF PageTypes
    <3>2. OwnAreListed'
      BY <2>1, <3>1 DEF ListInv, OwnAreListed
    <3>3. (fetching[Projects].pc = "read" => Listed(fetching[Projects].answer.row))'
      BY <2>1, <3>1 DEF ListInv, Listed
    <3> QED BY <2>3, <2>4, <3>2, <3>3 DEF ListInv
  <2>6. CASE k = Projects
    <3>1. /\ fetching'[Projects] = [NoEntry EXCEPT !.pc = "kept"]
          /\ data'[Projects] = fetching[Projects].answer
      BY <1>0, <2>1, <2>6 DEF PageTypes
    <3>2. fetching'[Projects].pc = "kept"
      BY <3>1 DEF NoEntry
    <3>3. Listed(fetching[Projects].answer.row)
      BY <2>1, <2>6 DEF ListInv
    <3>4. OwnAreListed'
      BY <2>1, <3>1, <3>3 DEF OwnAreListed, Listed
    <3> QED BY <2>3, <2>4, <3>2, <3>4 DEF ListInv
  <2> QED BY <2>5, <2>6
<1>3. ASSUME NEW k \in Key, Forget(k) PROVE ListInv'
  <2>1. /\ fetching[k].pc = "kept"
        /\ fetching' = [fetching EXCEPT ![k] = NoEntry]
        /\ UNCHANGED <<table, place, data, failed, call, own>>
    BY <1>3 DEF Forget, tableVars
  <2>2. PageTypes' /\ Len(table) <= Len(table')
    BY <1>0, <2>1, EntryTypes DEF PageTypes
  <2>3. \/ fetching'[Projects] = fetching[Projects]
        \/ /\ fetching[Projects].pc = "kept"
           /\ fetching'[Projects] = NoEntry
    BY <1>0, <2>1 DEF PageTypes
  <2> QED BY <2>1, <2>2, <2>3, ListKept
<1>4. ASSUME NEW k \in Key, RequestFails(k) PROVE ListInv'
  <2>1. /\ fetching' = [fetching EXCEPT ![k] = NoEntry]
        /\ failed' = failed \cup {k}
        /\ UNCHANGED <<table, place, data, call, own>>
    BY <1>4 DEF RequestFails, tableVars
  <2>2. PageTypes'
    BY <1>0, <2>1, EntryTypes DEF PageTypes
  <2>3. k = Projects \/ fetching'[Projects] = fetching[Projects]
    BY <1>0, <2>1 DEF PageTypes
  <2>4. k = Projects => fetching'[Projects] = NoEntry /\ Projects \in failed'
    BY <1>0, <2>1 DEF PageTypes
  <2> QED BY <2>1, <2>2, <2>3, <2>4 DEF ListInv, OwnAreListed, Listed, NoEntry
<1>5. ASSUME NEW k \in Key, RetryRequest(k) PROVE ListInv'
  BY <1>0, <1>5, AskingListed DEF RetryRequest, PageTypes
<1>6. ASSUME NEW d \in Deployed, Poll(d) PROVE ListInv'
  BY <1>0, <1>6, AskingListed DEF Poll, PageTypes
<1>7. CASE Focus
  BY <1>0, <1>7, AskingListed DEF Focus, PageTypes
<1>8. ASSUME NEW p \in {ListPage, ProjectPage} \cup Deployed, Visit(p) PROVE ListInv'
  <2>1. place' \in Int
    BY <1>8 DEF Visit, ListPage, ProjectPage, Deployed
  <2> QED BY <1>8, <2>1, AskingListed DEF Visit
<1>9. ASSUME NEW d \in Deployed, WorkerWrites(d) PROVE ListInv'
  <2>1. /\ table' \in Seq({"live", "over"}) /\ Len(table') = Len(table)
        /\ UNCHANGED <<place, swrVars, call, own>>
    BY <1>0, <1>9, RowsTyped DEF WorkerWrites
  <2> QED BY <1>0, <2>1, TableListed
<1>10. CASE Pushed
  <2> DEFINE old == [table EXCEPT ![Len(table)] = "over"]
  <2>1. NewRow(old) /\ UNCHANGED <<place, swrVars, call, own>>
    BY <1>10 DEF Pushed
  <2>0. call' \in Press /\ (call'.pc = "created" => call'.row <= Len(table))
    BY <1>0, <2>1
  <2>2. old \in Seq({"live", "over"}) /\ Len(old) = Len(table)
    BY <1>0, RowsTyped
  <2>3. table' \in Seq({"live", "over"}) /\ Len(table') = Len(table) + 1
    BY <2>1, <2>2, RowAdded
  <2>4. call'.pc = "created" => call'.row <= Len(table')
    BY <1>0, <2>0, <2>3 DEF Press
  <2> HIDE DEF old
  <2> QED BY <1>0, <2>1, <2>0, <2>3, <2>4, TableListed
<1>11. ASSUME UNCHANGED <<tableVars, place, swrVars, own>>,
              call' \in Press, call'.pc # "created" \/ call' = call
       PROVE  ListInv'
  <2>1. table' = table /\ table \in Seq({"live", "over"})
    BY <1>0, <1>11 DEF tableVars, PageTypes
  <2> QED BY <1>0, <1>11, <2>1, TableListed
<1>12. CASE PressCancel \/ PressRedeploy \/ CancelChecks \/ RedeployRefused \/ CallFails
  <2>1. /\ UNCHANGED <<tableVars, place, swrVars, own>>
        /\ call' \in Press /\ call'.pc # "created"
    BY <1>0, <1>12
    DEF PressCancel, PressRedeploy, CancelChecks, RedeployRefused, CallFails,
        NoCall, Press, PageTypes
  <2> QED BY <1>11, <2>1
<1>13. CASE CancelWrites
  <2>1. /\ table' = [table EXCEPT ![call.row] = "over"]
        /\ UNCHANGED <<place, swrVars, own>>
        /\ call' \in Press /\ call'.pc # "created"
    BY <1>0, <1>13 DEF CancelWrites, Press
  <2>2. table' \in Seq({"live", "over"}) /\ Len(table') = Len(table)
    BY <1>0, <2>1, RowsTyped
  <2> QED BY <1>0, <2>1, <2>2, TableListed
<1>14. CASE CancelAnswered
  <2>1. /\ fetching' = Mutated({call.row}, Mounted) /\ call' = NoCall
        /\ UNCHANGED <<table, place, data, failed, own>>
        /\ call.row \in Deployed
    BY <1>0, <1>14 DEF CancelAnswered, tableVars, Press
  <2>2. Projects # call.row
    BY <2>1 DEF Projects, Deployed
  <2>3. fetching' \in [Key -> Fetch] /\ fetching'[Projects] = fetching[Projects]
    BY <1>0, <2>1, <2>2, EntryTypes DEF Mutated, PageTypes
  <2>4. PageTypes'
    BY <1>0, <2>1, <2>3, NoCallTyped DEF PageTypes
  <2>5. Len(table) <= Len(table')
    BY <1>0, <2>1
  <2> QED BY <2>1, <2>3, <2>4, <2>5, ListKept
<1>15. CASE RedeployCreates
  <2>1. /\ NewRow(table) /\ UNCHANGED <<place, swrVars, own>>
        /\ call' = [pc |-> "created", from |-> call.from, row |-> Len(table) + 1]
        /\ call.pc = "redeploy"
    BY <1>15 DEF RedeployCreates
  <2>2. table' \in Seq({"live", "over"}) /\ Len(table') = Len(table) + 1
    BY <1>0, <2>1, RowAdded DEF PageTypes
  <2>3. call' \in Press /\ call'.row = Len(table) + 1
    BY <1>0, <2>1 DEF Press
  <2> QED BY <1>0, <2>1, <2>2, <2>3, TableListed
<1>16. CASE RedeployAnswered
  <2> DEFINE next == IF call.from \in Deployed THEN call.row ELSE place
             kept == Mutated(RedeployRefreshes, Mounted)
  <2>1. /\ fetching' = [k \in Key |-> IF k \in MountedIn(next) /\ kept[k].pc = "none"
                                      THEN SentEntry ELSE kept[k]]
        /\ call.pc = "created" /\ place' = next /\ call' = NoCall
        /\ own' = own \cup {call.row}
        /\ UNCHANGED <<table, data, failed>>
    BY <1>16 DEF RedeployAnswered, tableVars
  <2>2. kept \in [Key -> Fetch] /\ kept[Projects] = SentEntry
    BY <1>0, EntryTypes
    DEF Mutated, RedeployRefreshes, Mounted, MountedIn
  <2>3. fetching' \in [Key -> Fetch] /\ fetching'[Projects] = SentEntry
    BY <1>0, <2>1, <2>2, EntryTypes DEF SentEntry
  <2>4. call.row \in Nat /\ call.row <= Len(table)
    BY <1>0, <2>1 DEF Press
  <2>5. PageTypes'
    <3>1. next \in Int
      BY <1>0, <2>4 DEF PageTypes
    <3>2. own' \subseteq Nat
      BY <1>0, <2>1, <2>4 DEF PageTypes
    <3> HIDE DEF next
    <3> QED BY <1>0, <2>1, <2>3, <3>1, <3>2, NoCallTyped DEF PageTypes
  <2>6. Listed(Len(table))'
    BY <2>1, <2>4 DEF ListInv, Listed
  <2> QED BY <2>3, <2>5, <2>6 DEF ListInv, OwnAreListed, SentEntry
<1>17. CASE UNCHANGED pagesVars
  BY <1>0, <1>11, <1>17 DEF pagesVars
<1> QED
  BY <1>1, <1>2, <1>3, <1>4, <1>5, <1>6, <1>7, <1>8, <1>9, <1>10, <1>12, <1>13,
     <1>14, <1>15, <1>16, <1>17 DEF PagesNext, TabStep

\* A list of projects that awaits no answer has every deployment the tab has
\* created, or a newer one (use-deployments.ts:45-49).
THEOREM OwnStayListed == PagesSpec => []OwnAreListed
<1>1. PagesInit => ListInv
  <2> SUFFICES ASSUME PagesInit PROVE ListInv
    OBVIOUS
  <2>1. table \in Seq({"live", "over"})
    BY DEF PagesInit
  <2>2. data \in [Key -> RowAnswer] /\ fetching \in [Key -> Fetch]
    BY EntryTypes DEF PagesInit
  <2>3. own = {} /\ place \in Int /\ call \in Press /\ call.pc = "none"
    BY DEF PagesInit, ListPage, ProjectPage, NoCall, Press
  <2> QED BY <2>1, <2>2, <2>3 DEF ListInv, PageTypes, Listed, OwnAreListed
<1>2. ListInv => OwnAreListed
  BY DEF ListInv
<1> QED BY <1>1, <1>2, NextListed, PTL DEF PagesSpec
-----------------------------------------------------------------------------
(* The types of the lists. *)

\* What the types of the pages need beyond ListInv: a press is about a row.
PagesRest ==
  /\ Len(table) \in Deployed /\ unfinished \subseteq DOMAIN table
  /\ place \in {ListPage, ProjectPage} \cup DOMAIN table
  /\ failed \subseteq Key /\ own \subseteq DOMAIN table
  /\ call.pc = "created" => call.row \in DOMAIN table
  /\ visits \in 0 .. MaxVisit /\ failures \in 0 .. MaxFailure

\* Rows are only added, so that what is about a row stays about one.
LEMMA PagesRestKept ==
  ASSUME ListInv, PagesRest,
         table' \in Seq({"live", "over"}), Len(table') \in Deployed,
         Len(table) <= Len(table'), unfinished' \subseteq DOMAIN table',
         UNCHANGED <<place, failed, own, visits>>,
         failures' \in 0 .. MaxFailure,
         call'.pc = "created" => call' = call \/ call'.row \in DOMAIN table'
  PROVE  PagesRest'
<1>1. DOMAIN table = 1 .. Len(table) /\ DOMAIN table' = 1 .. Len(table')
      /\ Len(table) \in Nat /\ Len(table') \in Nat
  BY DEF ListInv, PageTypes
<1>2. DOMAIN table \subseteq DOMAIN table'
  BY <1>1
<1> QED BY <1>2 DEF PagesRest

LEMMA NextPagesRest ==
  ASSUME ListInv, PagesRest, [PagesNext]_pagesVars
  PROVE  PagesRest'
<1> USE DEF tableVars, swrVars
<1>0. /\ PageTypes /\ Len(table) \in Nat /\ table \in Seq({"live", "over"})
      /\ DOMAIN table = 1 .. Len(table)
      /\ MaxDeployed \in Nat /\ MaxVisit \in Nat /\ MaxFailure \in Nat
  BY PagesAssumption DEF ListInv, PageTypes, PagesAssumption
\* Steps of SWR, which may repeat a request or give one up.
<1>1. ASSUME UNCHANGED <<table, unfinished, place, call, own>>, failed' \subseteq Key,
             visits' \in 0 .. MaxVisit, failures' \in 0 .. MaxFailure
      PROVE  PagesRest'
  BY <1>1 DEF PagesRest
<1>2. ASSUME NEW k \in Key, ApiReads(k) \/ Answered(k) \/ Forget(k) \/ RetryRequest(k)
      PROVE  PagesRest'
  <2>1. /\ UNCHANGED <<table, unfinished, place, call, own, visits, failures>>
        /\ failed' \in {failed, failed \ {k}}
    BY <1>2, Zenon DEF ApiReads, Answered, Forget, RetryRequest
  <2> QED BY <1>1, <2>1 DEF PagesRest
<1>3. ASSUME NEW d \in Deployed, Poll(d) PROVE PagesRest'
  BY <1>1, <1>3 DEF Poll, PagesRest
<1>4. CASE Focus
  BY <1>0, <1>1, <1>4 DEF Focus, PagesRest
<1>5. ASSUME NEW k \in Key, RequestFails(k) PROVE PagesRest'
  BY <1>0, <1>1, <1>5 DEF RequestFails, PagesRest
<1>6. ASSUME NEW p \in {ListPage, ProjectPage} \cup Deployed, Visit(p)
      PROVE  PagesRest'
  BY <1>0, <1>6 DEF Visit, PagesRest
<1>7. ASSUME NEW d \in Deployed, WorkerWrites(d) PROVE PagesRest'
  <2>1. /\ table' \in Seq({"live", "over"}) /\ Len(table') = Len(table)
        /\ unfinished' \subseteq unfinished
        /\ UNCHANGED <<place, failed, call, own, visits, failures>>
    BY <1>0, <1>7, RowsTyped DEF WorkerWrites
  <2>2. DOMAIN table' = DOMAIN table
    BY <1>0, <2>1
  <2> QED BY <1>0, <2>1, <2>2 DEF PagesRest
<1>8. ASSUME NEW old \in Seq({"live", "over"}), Len(old) = Len(table), NewRow(old),
             UNCHANGED <<place, failed, own, visits, failures>>,
             call'.pc = "created" => call' = call \/ call'.row = Len(table) + 1
      PROVE  PagesRest'
  <2>1. /\ table' \in Seq({"live", "over"}) /\ Len(table') = Len(table) + 1
        /\ Len(table) < MaxDeployed
        /\ unfinished' = unfinished \cup {Len(table) + 1}
    BY <1>8, RowAdded DEF NewRow
  <2>2. DOMAIN table' = 1 .. Len(table) + 1 /\ Len(table') \in Deployed
    BY <1>0, <2>1 DEF Deployed
  <2>3. unfinished' \subseteq DOMAIN table'
    BY <1>0, <2>1, <2>2 DEF PagesRest
  <2> QED BY <1>0, <1>8, <2>1, <2>2, <2>3, PagesRestKept DEF PagesRest
<1>9. CASE Pushed
  <2>1. [table EXCEPT ![Len(table)] = "over"] \in Seq({"live", "over"})
        /\ Len([table EXCEPT ![Len(table)] = "over"]) = Len(table)
    BY <1>0, RowsTyped
  <2> QED BY <1>8, <1>9, <2>1 DEF Pushed
<1>10. CASE RedeployCreates
  BY <1>0, <1>8, <1>10 DEF RedeployCreates
<1>11. CASE PressCancel \/ PressRedeploy \/ CancelChecks \/ RedeployRefused \/ CallFails
            \/ CancelAnswered
  <2>1. /\ UNCHANGED <<table, unfinished, place, failed, own, visits>>
        /\ failures' \in 0 .. MaxFailure
    BY <1>0, <1>11
    DEF PressCancel, PressRedeploy, CancelChecks, RedeployRefused, CallFails,
        CancelAnswered, PagesRest
  <2>2. call'.pc # "created"
    BY <1>0, <1>11
    DEF PressCancel, PressRedeploy, CancelChecks, RedeployRefused, CallFails,
        CancelAnswered, NoCall, PageTypes, Press
  <2> QED BY <1>0, <2>1, <2>2 DEF PagesRest
<1>12. CASE CancelWrites
  <2>1. /\ table' = [table EXCEPT ![call.row] = "over"]
        /\ call'.pc # "created"
        /\ UNCHANGED <<unfinished, place, failed, own, visits, failures>>
    BY <1>0, <1>12 DEF CancelWrites, PageTypes, Press
  <2>2. table' \in Seq({"live", "over"}) /\ Len(table') = Len(table)
    BY <1>0, <2>1, RowsTyped
  <2>3. DOMAIN table' = DOMAIN table
    BY <1>0, <2>2
  <2> QED BY <1>0, <2>1, <2>2, <2>3 DEF PagesRest
<1>13. CASE RedeployAnswered
  <2>1. /\ call.pc = "created" /\ call' = NoCall
        /\ place' \in {call.row, place} /\ own' = own \cup {call.row}
        /\ UNCHANGED <<table, unfinished, failed, visits, failures>>
    BY <1>13, Zenon DEF RedeployAnswered
  <2>2. call'.pc # "created"
    BY <2>1 DEF NoCall
  <2> QED BY <2>1, <2>2 DEF PagesRest
<1>14. CASE UNCHANGED pagesVars
  BY <1>14 DEF pagesVars, PagesRest
<1> QED
  BY <1>2, <1>3, <1>4, <1>5, <1>6, <1>7, <1>9, <1>10, <1>11, <1>12, <1>13, <1>14
  DEF PagesNext, TabStep

\* Rows, pages, the cache of SWR and the press under way stay in their types:
\* what is shown, polled or created is a row (use-deployments.ts:37-109).
THEOREM PagesTypeCorrect == PagesSpec => []PagesTypeOK
<1>1. PagesInit => ListInv /\ PagesRest
  <2> SUFFICES ASSUME PagesInit PROVE ListInv /\ PagesRest
    OBVIOUS
  <2>1. table = <<"live">> /\ Len(table) = 1 /\ DOMAIN table = 1 .. 1
        /\ table \in Seq({"live", "over"})
    BY DEF PagesInit
  <2>2. data \in [Key -> RowAnswer] /\ fetching \in [Key -> Fetch]
    BY EntryTypes DEF PagesInit
  <2>3. own = {} /\ place \in Int /\ call \in Press /\ call.pc = "none"
    BY DEF PagesInit, ListPage, ProjectPage, NoCall, Press
  <2>4. ListInv
    BY <2>1, <2>2, <2>3, EntryTypes
    DEF PagesInit, ListInv, PageTypes, Listed, OwnAreListed
  <2>5. Len(table) \in Deployed /\ 1 \in DOMAIN table
    BY <2>1, PagesAssumption DEF Deployed, PagesAssumption
  <2>6. visits \in 0 .. MaxVisit /\ failures \in 0 .. MaxFailure
    BY PagesAssumption DEF PagesInit, PagesAssumption
  <2>7. /\ unfinished \subseteq DOMAIN table /\ failed \subseteq Key
        /\ own \subseteq DOMAIN table
        /\ place \in {ListPage, ProjectPage} \cup DOMAIN table
    BY <2>5 DEF PagesInit
  <2> QED BY <2>3, <2>4, <2>5, <2>6, <2>7 DEF PagesRest
<1>2. ListInv /\ PagesRest => PagesTypeOK
  <2> SUFFICES ASSUME ListInv, PagesRest PROVE PagesTypeOK
    OBVIOUS
  <2>1. PageTypes
    BY DEF ListInv
  <2>2. \A k \in Key : fetching[k].pc \in {"none", "sent", "read", "kept"}
    BY <2>1 DEF PageTypes, Fetch
  <2>3. call.pc \in {"none", "cancel", "checked", "cancelled", "redeploy", "created"}
    BY <2>1 DEF PageTypes, Press
  <2> QED BY <2>1, <2>2, <2>3 DEF PageTypes, PagesRest, PagesTypeOK
<1> QED BY <1>1, <1>2, NextListed, NextPagesRest, PTL DEF PagesSpec
=============================================================================

---------------------------- MODULE LogDelivery -----------------------------
(***************************************************************************)
(* The log lines of one deployment on their way to the database:           *)
(* apps/worker/internal/logging/logger.go buffers and batches them, each   *)
(* batch is sent by a goroutine of its own (api_adapter.go, api/logs.go),  *)
(* the API stores it (internal.service.ts) and forgets it when the         *)
(* retention ends.  A deployment has several loggers: the job's build      *)
(* logger, one for each phase (git, builder, k8s) and one for each pod.    *)
(***************************************************************************)
EXTENDS Integers, Sequences, SequencesExt

CONSTANTS
  Logger,     \* the StreamLoggers of the deployment
  MaxLine,    \* bound on the lines ever logged
  MaxWrite,   \* bound on the lines of one Write
  BatchSize,  \* Config.BatchSize
  MaxTime,    \* bound on the seconds that pass
  Retention,  \* logRetentionDays, in the seconds of the model; 0: none
  Faults      \* {"api", "slow", "crash"}: what the environment may do

ASSUME DeliveryAssumption ==
  /\ MaxLine \in Nat
  /\ MaxWrite \in Nat \ {0} /\ BatchSize \in Nat \ {0}
  /\ MaxTime \in Nat \ {0} /\ Retention \in Nat
  /\ Faults \subseteq {"api", "slow", "crash"}

Line == 1 .. MaxLine
Second == 1 .. MaxTime
Unstamped == 0

VARIABLES
  logged,  \* lines 1..logged have been logged, in this order
  state,   \* of a logger: "new", "open", "closing" (Close waits), "closed"
  buffer,  \* StreamLogger.buffer
  ticker,  \* the auto-flush goroutine: "none", "wait", "fired"
  fresh,   \* a flush since the timer was last set
  sends,   \* batches on their way: the lines in one, stamped when the request
           \* body is built; waited: the goroutine still waits for the answer
  rows,    \* table LogEntry
  lost,    \* history: lines that will never be stored
  clock,
  settled  \* the deployment is no longer QUEUED, BUILDING or DEPLOYING

loggerVars == <<logged, state, buffer, ticker, fresh>>
deliveryVars == <<loggerVars, sends, rows, lost, clock, settled>>

Row == [line : Line, stamp : Second]

\* Where lines wait: with the loggers, and in the batches of S.
Buffered == UNION {ToSet(buffer[l]) : l \in Logger}
Batched(S) == UNION {s.lines : s \in S}

DeliveryTypeOK ==
  /\ logged \in 0 .. MaxLine
  /\ state \in [Logger -> {"new", "open", "closing", "closed"}]
  /\ \A l \in Logger : buffer[l] \in Seq(Line) /\ Len(buffer[l]) < BatchSize
  /\ ticker \in [Logger -> {"none", "wait", "fired"}]
  /\ fresh \in [Logger -> BOOLEAN]
  /\ sends \subseteq [logger : Logger, lines : (SUBSET Line) \ {{}},
                      stamp : {Unstamped} \cup Second, waited : BOOLEAN]
  /\ rows \subseteq Row
  /\ lost \subseteq Line
  /\ clock \in Second
  /\ settled \in BOOLEAN

DeliveryInit ==
  /\ logged = 0
  /\ state = [l \in Logger |-> "new"]
  /\ buffer = [l \in Logger |-> <<>>]
  /\ ticker = [l \in Logger |-> "none"]
  /\ fresh = [l \in Logger |-> FALSE]
  /\ sends = {} /\ rows = {} /\ lost = {}
  /\ clock = 1
  /\ settled = FALSE

-----------------------------------------------------------------------------
(* The logger. *)

\* Mutant of FlushLocked: the buffer is handed over and not cleared.
FlushKept(l, b) ==
  /\ buffer' = [buffer EXCEPT ![l] = b]
  /\ sends' = IF b = <<>> THEN sends
              ELSE sends \cup {[logger |-> l, lines |-> ToSet(b),
                                stamp |-> Unstamped, waited |-> TRUE]}

\* Mutant of FlushLocked: a full batch stays until the next line is logged.
FlushLate(l, b) ==
  /\ buffer' = [buffer EXCEPT ![l] = b]
  /\ sends' = sends

\* flushLocked with b in the buffer of l: copy, clear, and a new goroutine.
FlushLocked(l, b) ==
  /\ buffer' = [buffer EXCEPT ![l] = <<>>]
  /\ sends' = IF b = <<>> THEN sends
              ELSE sends \cup {[logger |-> l, lines |-> ToSet(b),
                                stamp |-> Unstamped, waited |-> TRUE]}

NewStreamLogger(l) ==
  /\ state[l] = "new"
  /\ state' = [state EXCEPT ![l] = "open"]
  /\ ticker' = [ticker EXCEPT ![l] = "wait"]
  /\ UNCHANGED <<logged, buffer, fresh, sends, rows, lost, clock, settled>>

\* Write, and Log for one line: k lines are appended before the size is
\* looked at.
Write(l, k) ==
  LET b == buffer[l] \o [i \in 1 .. k |-> logged + i]
  IN /\ state[l] = "open"
     /\ logged + k <= MaxLine
     /\ logged' = logged + k
     /\ IF Len(b) >= BatchSize
        THEN FlushLocked(l, b) /\ fresh' = [fresh EXCEPT ![l] = TRUE]
        ELSE /\ buffer' = [buffer EXCEPT ![l] = b]
             /\ UNCHANGED <<sends, fresh>>
     /\ UNCHANGED <<state, ticker, rows, lost, clock, settled>>

\* The timer's channel is received from; the lock comes later.
TimerFires(l) ==
  /\ state[l] = "open" /\ ticker[l] = "wait"
  /\ ticker' = [ticker EXCEPT ![l] = "fired"]
  /\ UNCHANGED <<logged, state, buffer, fresh, sends, rows, lost, clock,
                 settled>>

\* Under the lock: nothing is sent when another flush was more recent than
\* the interval; the timer is set again.
AutoFlush(l) ==
  /\ ticker[l] = "fired"
  /\ ticker' = [ticker EXCEPT ![l] = IF state[l] = "open" THEN "wait"
                                     ELSE "none"]
  /\ fresh' = [fresh EXCEPT ![l] = FALSE]
  /\ IF fresh[l] THEN UNCHANGED <<buffer, sends>>
     ELSE FlushLocked(l, buffer[l])
  /\ UNCHANGED <<logged, state, rows, lost, clock, settled>>

\* Close: the auto-flush goroutine is told to stop, the batches on their way
\* are waited for.
Close(l) ==
  /\ state[l] = "open"
  /\ state' = [state EXCEPT ![l] = "closing"]
  /\ ticker' = [ticker EXCEPT ![l] = IF @ = "fired" THEN @ ELSE "none"]
  /\ UNCHANGED <<logged, buffer, fresh, sends, rows, lost, clock, settled>>

\* The final flush; nobody waits for its batch.
CloseFlush(l) ==
  /\ state[l] = "closing"
  /\ \A s \in sends : s.logger = l => ~s.waited
  /\ FlushLocked(l, buffer[l])
  /\ state' = [state EXCEPT ![l] = "closed"]
  /\ UNCHANGED <<logged, ticker, fresh, rows, lost, clock, settled>>

-----------------------------------------------------------------------------
(* The call and the table. *)

\* SaveLogsRaw builds the body: blank lines (any may be) are left out, the
\* others all get the present second; a body without lines is not sent.
SaveLogsRaw(s) ==
  \E blank \in SUBSET s.lines :
    LET text == s.lines \ blank
    IN /\ s.stamp = Unstamped
       /\ sends' = (sends \ {s}) \cup
                   (IF text = {} THEN {}
                    ELSE {[s EXCEPT !.lines = text, !.stamp = clock]})
       /\ lost' = lost \cup blank
       /\ UNCHANGED <<loggerVars, rows, clock, settled>>

RowsOfBatch(s) == {[line |-> n, stamp |-> s.stamp] : n \in s.lines}

CreateLogs(s) ==
  /\ s.stamp # Unstamped
  /\ rows' = rows \cup RowsOfBatch(s)
  /\ sends' = sends \ {s}
  /\ UNCHANGED <<loggerVars, lost, clock, settled>>

\* The call fails, or the deployment is gone: a warning is written and the
\* batch is dropped.
SendFails(s) ==
  /\ "api" \in Faults
  /\ s.stamp # Unstamped
  /\ lost' = lost \cup s.lines
  /\ sends' = sends \ {s}
  /\ UNCHANGED <<loggerVars, rows, clock, settled>>

\* After ten seconds the goroutine gives up; the API may still store the
\* batch.
SendTimesOut(s) ==
  /\ "slow" \in Faults
  /\ s.stamp # Unstamped /\ s.waited
  /\ sends' = (sends \ {s}) \cup {[s EXCEPT !.waited = FALSE]}
  /\ UNCHANGED <<loggerVars, rows, lost, clock, settled>>

\* A stamp is cut to its second, the threshold is not.
CleanupLogs ==
  /\ Retention # 0
  /\ \E r \in rows : r.stamp <= clock - Retention
  /\ rows' = {r \in rows : r.stamp > clock - Retention}
  /\ lost' = lost \cup {r.line : r \in rows \ rows'}
  /\ UNCHANGED <<loggerVars, sends, clock, settled>>

\* The worker ends, killed or after its shutdown: what has not left it is
\* lost.
WorkerEnds ==
  LET unsent == {s \in sends : s.stamp = Unstamped}
  IN /\ "crash" \in Faults
     /\ \E l \in Logger : state[l] # "closed"
     /\ state' = [l \in Logger |-> "closed"]
     /\ ticker' = [l \in Logger |-> "none"]
     /\ buffer' = [l \in Logger |-> <<>>]
     /\ fresh' = [l \in Logger |-> FALSE]
     /\ sends' = {[s EXCEPT !.waited = FALSE] : s \in sends \ unsent}
     /\ lost' = lost \cup Buffered \cup Batched(unsent)
     /\ UNCHANGED <<logged, rows, clock, settled>>

Tick ==
  /\ clock < MaxTime
  /\ clock' = clock + 1
  /\ UNCHANGED <<loggerVars, sends, rows, lost, settled>>

\* READY is reported while the build logger is open, FAILED after it was
\* closed, CANCELED by the user at any time.
Settle ==
  /\ ~settled
  /\ settled' = TRUE
  /\ UNCHANGED <<loggerVars, sends, rows, lost, clock>>

LoggerStep(l) ==
  \/ NewStreamLogger(l) \/ TimerFires(l) \/ AutoFlush(l)
  \/ Close(l) \/ CloseFlush(l)
  \/ \E k \in 1 .. MaxWrite : Write(l, k)

SendStep(s) ==
  \/ SaveLogsRaw(s) \/ CreateLogs(s) \/ SendFails(s) \/ SendTimesOut(s)

DeliveryNext ==
  \/ \E l \in Logger : LoggerStep(l)
  \/ \E s \in sends : SendStep(s)
  \/ CleanupLogs \/ WorkerEnds \/ Tick \/ Settle

\* Goroutines run, timers fire, and a request is answered or fails.  Nothing
\* is assumed about Close: a pod's logger may stay open.
DeliveryFairness ==
  /\ \A l \in Logger :
       /\ WF_deliveryVars(TimerFires(l) \/ AutoFlush(l))
       /\ WF_deliveryVars(CloseFlush(l))
  /\ WF_deliveryVars(\E s \in sends :
                        SaveLogsRaw(s) \/ CreateLogs(s) \/ SendFails(s))

-----------------------------------------------------------------------------
(* The channel the loggers implement. *)

Channel == INSTANCE LogChannel WITH
  pending <- Buffered \cup Batched(sends),
  stored <- {r.line : r \in rows}

\* Every line that Log or Write took is stored once or lost once and leaves
\* the worker in the end, however Close, the timer, full batches, slow calls
\* and the end of the worker come together (logger.go:62-208).
ImplementsChannel == Channel!Spec
=============================================================================

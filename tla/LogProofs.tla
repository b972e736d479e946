----------------------------- MODULE LogProofs ------------------------------
(***************************************************************************)
(* The lines of a deployment, from the loggers to the screen, and the      *)
(* streams that feed them, for any number of loggers, lines, deployments   *)
(* and restarts and for any page and batch size.                           *)
(*                                                                         *)
(* 1. LogDelivery: every step of the delivery is one of the channel's.     *)
(*    The inductive invariant is Apart: no line is in two places.          *)
(* 2. LogView: the panel.  Asks says what the fetch in flight may be       *)
(*    about, InOrder and OneRowEach what the panel and the answer under    *)
(*    way hold, Passed and Passing which rows the cursor has passed or is  *)
(*    about to pass, Ends what an answer about a settled deployment tells. *)
(* 3. LogStreams: the streams that were not told to end can be told, and   *)
(*    those of an ended deployment were.  What the two need of each other  *)
(*    is InHand: between the unlock of StartStreaming and the list of the  *)
(*    pods, the context that the goroutines will get is in the map or      *)
(*    cancelled.                                                           *)
(***************************************************************************)
EXTENDS LogStreams, LogView, SequenceTheorems, TLAPS

-----------------------------------------------------------------------------
(* 1. Where the lines are. *)

Batch == [logger : Logger, lines : (SUBSET Line) \ {{}},
          stamp : {Unstamped} \cup Second, waited : BOOLEAN]

LogTypes ==
  /\ logged \in 0 .. MaxLine
  /\ buffer \in [Logger -> Seq(Line)]
  /\ sends \subseteq Batch
  /\ rows \subseteq Row /\ lost \subseteq Line
  /\ clock \in Second /\ settled \in BOOLEAN

\* A line that has been logged is with a logger, in a batch, in the table, or
\* lost.
Underway == Batched(sends)
Kept == {r.line : r \in rows}

\* A line is in one place.
Apart ==
  /\ Buffered \cup Underway \cup Kept \cup lost \subseteq 1 .. logged
  /\ \A l, m \in Logger : l # m => ToSet(buffer[l]) \cap ToSet(buffer[m]) = {}
  /\ \A s, t \in sends : s # t => s.lines \cap t.lines = {}
  /\ Buffered \cap Underway = {}
  /\ (Buffered \cup Underway) \cap (Kept \cup lost) = {}
  /\ Kept \cap lost = {}
  /\ \A r, t \in rows : r.line = t.line => r = t

LogInv == LogTypes /\ Apart

LEMMA LinesOfEmpty == ToSet(<< >>) = {} /\ << >> \in Seq(Line)
  BY EmptySeq DEF ToSet

LEMMA LinesOfSeq ==
  ASSUME NEW q \in Seq(Line)
  PROVE  ToSet(q) \subseteq Line /\ (q # << >> => ToSet(q) # {})
<1>1. Len(q) \in Nat /\ DOMAIN q = 1 .. Len(q) /\ (q # << >> => Len(q) # 0)
  BY LenProperties, EmptySeq
<1>2. q # << >> => 1 \in DOMAIN q
  BY <1>1
<1>3. \A i \in DOMAIN q : q[i] \in Line
  BY <1>1, ElementOfSeq
<1> QED BY <1>2, <1>3 DEF ToSet

\* The lines of one Write.
LEMMA NewLines ==
  ASSUME LogTypes, NEW q \in Seq(Line), NEW k \in 1 .. MaxWrite,
         logged + k <= MaxLine
  PROVE  LET b == q \o [i \in 1 .. k |-> logged + i]
         IN  b \in Seq(Line) /\ ToSet(b) = ToSet(q) \cup logged + 1 .. logged + k
<1> DEFINE w == [i \in 1 .. k |-> logged + i]
           b == q \o w
<1>1. logged \in Nat /\ k \in Nat /\ MaxLine \in Nat
  BY DeliveryAssumption DEF LogTypes
<1>2. w \in [1 .. k -> Line]
  BY <1>1 DEF Line
<1>3. w \in Seq(Line) /\ Len(w) = k
  <2>1. w \in Seq(Line) /\ DOMAIN w = 1 .. k
    BY <1>1, <1>2, IsASeq
  <2> HIDE DEF w
  <2>2. Len(w) \in Nat /\ 1 .. Len(w) = 1 .. k
    BY <2>1, LenProperties
  <2>3. Len(w) = k
    BY <1>1, <2>2
  <2> QED BY <2>1, <2>3
<1>4. \A i \in 1 .. k : w[i] = logged + i
  OBVIOUS
<1> HIDE DEF w
<1>5. /\ b \in Seq(Line) /\ Len(b) = Len(q) + k
      /\ \A i \in 1 .. Len(q) + k :
           b[i] = IF i <= Len(q) THEN q[i] ELSE w[i - Len(q)]
  BY <1>3, ConcatProperties
<1>6. /\ DOMAIN b = 1 .. Len(q) + k /\ DOMAIN q = 1 .. Len(q)
      /\ Len(q) \in Nat
  BY <1>5, LenProperties
<1> HIDE DEF b
<1>7. ToSet(b) \subseteq ToSet(q) \cup logged + 1 .. logged + k
  <2> SUFFICES ASSUME NEW i \in 1 .. Len(q) + k
               PROVE  b[i] \in ToSet(q) \cup logged + 1 .. logged + k
    BY <1>6 DEF ToSet
  <2>1. CASE i <= Len(q)
    <3>1. i \in DOMAIN q
      BY <1>6, <2>1
    <3> QED BY <1>5, <2>1, <3>1 DEF ToSet
  <2>2. CASE ~ i <= Len(q)
    <3>1. i - Len(q) \in 1 .. k
      BY <1>1, <1>6, <2>2
    <3>2. b[i] = logged + (i - Len(q))
      BY <1>4, <1>5, <2>2, <3>1
    <3> QED BY <1>1, <3>1, <3>2
  <2> QED BY <2>1, <2>2
<1>8. ToSet(q) \subseteq ToSet(b)
  <2>1. \A i \in DOMAIN q : i \in DOMAIN b /\ b[i] = q[i]
    BY <1>1, <1>5, <1>6
  <2> QED BY <2>1 DEF ToSet
<1>9. logged + 1 .. logged + k \subseteq ToSet(b)
  <2> SUFFICES ASSUME NEW n \in logged + 1 .. logged + k PROVE n \in ToSet(b)
    OBVIOUS
  <2> DEFINE j == n - logged
             i == Len(q) + j
  <2>1. j \in 1 .. k /\ n = logged + j
    BY <1>1
  <2> HIDE DEF j
  <2>2. i \in 1 .. Len(q) + k /\ ~ i <= Len(q) /\ i - Len(q) = j
    BY <1>1, <1>6, <2>1
  <2>3. i \in DOMAIN b /\ b[i] = n
    BY <1>4, <1>5, <1>6, <2>1, <2>2
  <2> QED BY <2>3 DEF ToSet
<1> QED BY <1>5, <1>7, <1>8, <1>9 DEF b, w

LEMMA WhereLinesAre ==
  /\ \A n : n \in Buffered <=> \E l \in Logger : n \in ToSet(buffer[l])
  /\ \A n : n \in Underway <=> \E s \in sends : n \in s.lines
  /\ \A n : n \in Kept <=> \E r \in rows : n = r.line
  /\ \A n : n \in Buffered' <=> \E l \in Logger : n \in ToSet(buffer'[l])
  /\ \A n : n \in Underway' <=> \E s \in sends' : n \in s.lines
  /\ \A n : n \in Kept' <=> \E r \in rows' : n = r.line
<1>1. \A l : ToSet(buffer[l])' = ToSet(buffer'[l])
  BY DEF ToSet
<1> QED BY <1>1 DEF Buffered, Underway, Batched, Kept

\* A logger takes new lines, none or some, into its buffer or into a batch.
LEMMA BufferStep ==
  ASSUME LogInv, NEW l \in Logger, NEW b \in Seq(Line),
         logged' \in logged .. MaxLine,
         ToSet(b) = ToSet(buffer[l]) \cup logged + 1 .. logged',
         \/ FlushLocked(l, b)
         \/ buffer' = [buffer EXCEPT ![l] = b] /\ UNCHANGED sends,
         UNCHANGED <<rows, lost, clock, settled>>
  PROVE  /\ LogInv'
         /\ (Buffered \cup Underway)' =
              Buffered \cup Underway \cup logged + 1 .. logged'
<1> DEFINE new == logged + 1 .. logged'
           batch == [logger |-> l, lines |-> ToSet(b), stamp |-> Unstamped,
                     waited |-> TRUE]
<1>1. /\ logged \in Nat /\ logged' \in Nat /\ MaxLine \in Nat
      /\ logged \in 0 .. MaxLine /\ logged <= logged' /\ logged' <= MaxLine
      /\ buffer \in [Logger -> Seq(Line)]
  BY DeliveryAssumption DEF LogInv, LogTypes
<1>2. /\ logged' \in 0 .. MaxLine /\ new \cap 1 .. logged = {}
      /\ new \subseteq 1 .. logged' /\ 1 .. logged \subseteq 1 .. logged'
  BY <1>1
<1>3. ToSet(b) \subseteq Line /\ (b # << >> => ToSet(b) # {})
  BY LinesOfSeq
<1>4. \/ /\ b # << >> /\ ToSet(b) # {}
         /\ buffer' = [buffer EXCEPT ![l] = << >>] /\ sends' = sends \cup {batch}
      \/ /\ buffer' = [buffer EXCEPT ![l] = b] /\ UNCHANGED sends
  BY <1>3 DEF FlushLocked
<1>5. batch.lines = ToSet(b)
  OBVIOUS
<1>6. ToSet(b) # {} => batch \in Batch
  <2> SUFFICES ASSUME ToSet(b) # {} PROVE batch \in Batch
    OBVIOUS
  <2>1. /\ ToSet(b) \in (SUBSET Line) \ {{}} /\ TRUE \in BOOLEAN
        /\ Unstamped \in {Unstamped} \cup Second
    BY <1>3
  <2> QED BY <2>1, Zenon DEF Batch
<1>7. LogTypes'
  BY <1>1, <1>2, <1>4, <1>6, LinesOfEmpty DEF LogInv, LogTypes
<1>8. /\ ToSet(buffer'[l]) \in {{}, ToSet(b)}
      /\ \A m \in Logger \ {l} : ToSet(buffer'[m]) = ToSet(buffer[m])
      /\ UNCHANGED Kept
  <2>1. \/ buffer' = [buffer EXCEPT ![l] = << >>]
        \/ buffer' = [buffer EXCEPT ![l] = b]
    BY <1>4
  <2>2. /\ buffer'[l] \in {<< >>, b}
        /\ \A m \in Logger \ {l} : buffer'[m] = buffer[m]
    BY <1>1, <2>1
  <2> QED BY <2>2, LinesOfEmpty DEF Kept
<1> HIDE DEF batch
<1>9. ASSUME NEW n
      PROVE  n \in (Buffered \cup Underway)'
               <=> n \in Buffered \cup Underway \cup new
  <2>1. CASE /\ ToSet(buffer'[l]) = ToSet(b) /\ UNCHANGED sends
    BY <1>8, <2>1, WhereLinesAre
  <2>2. CASE /\ ToSet(buffer'[l]) = {} /\ sends' = sends \cup {batch}
    BY <1>5, <1>8, <2>2, WhereLinesAre
  <2> QED BY <1>1, <1>4, <2>1, <2>2, LinesOfEmpty
<1>10. Apart'
  <2>1. /\ (Buffered \cup Underway)' \cup Kept \cup lost \subseteq 1 .. logged'
        /\ (Buffered \cup Underway)' \cap (Kept \cup lost) = {}
    BY <1>2, <1>9 DEF LogInv, Apart
  <2>2. \A n \in ToSet(b) : /\ n \notin Underway
                            /\ \A m \in Logger \ {l} : n \notin ToSet(buffer[m])
    BY <1>2, WhereLinesAre DEF LogInv, Apart
  <2>3. \A m, k \in Logger : m # k => ToSet(buffer'[m]) \cap ToSet(buffer'[k]) = {}
    BY <1>8, <2>2 DEF LogInv, Apart
  <2>4. /\ \A s, t \in sends' : s # t => s.lines \cap t.lines = {}
        /\ Buffered' \cap Underway' = {}
    <3>1. CASE /\ ToSet(buffer'[l]) = ToSet(b) /\ UNCHANGED sends
      BY <1>8, <2>2, <3>1, WhereLinesAre DEF LogInv, Apart
    <3>2. CASE /\ ToSet(buffer'[l]) = {} /\ sends' = sends \cup {batch}
      BY <1>5, <1>8, <2>2, <3>2, WhereLinesAre DEF LogInv, Apart
    <3> QED BY <1>1, <1>4, <3>1, <3>2, LinesOfEmpty
  <2> QED BY <1>8, <2>1, <2>3, <2>4 DEF LogInv, Apart
<1> QED BY <1>7, <1>9, <1>10 DEF LogInv

\* A batch goes, or becomes another one with some of its lines; those that are
\* gone are lost or stored.
LEMMA BatchStep ==
  ASSUME LogInv, NEW s \in sends, NEW made \in SUBSET Batch,
         sends' = (sends \ {s}) \cup made,
         \A t \in made : t.lines \subseteq s.lines,
         \A t, u \in made : t = u,
         NEW gone \in SUBSET s.lines, UNION {t.lines : t \in made} = s.lines \ gone,
         UNCHANGED <<logged, buffer, clock, settled>>,
         \/ lost' = lost \cup gone /\ UNCHANGED rows
         \/ gone = s.lines /\ CreateLogs(s)
  PROVE  LogInv' /\ (Buffered \cup Underway)' = (Buffered \cup Underway) \ gone
<1>1. s \in Batch
  BY DEF LogInv, LogTypes
<1>2. UNCHANGED Buffered
  BY DEF Buffered
<1>3. \A n : n \in Underway' <=> n \in Underway \ gone
  BY WhereLinesAre DEF LogInv, Apart
<1>4. gone \subseteq Underway
  BY WhereLinesAre
<1>5. \A t, u \in sends' : t # u => t.lines \cap u.lines = {}
  BY DEF LogInv, Apart
<1>6. CASE lost' = lost \cup gone /\ rows' = rows
  <2>1. Kept' = Kept
    BY <1>6 DEF Kept
  <2>2. Apart'
    BY <1>2, <1>3, <1>4, <1>5, <1>6, <2>1 DEF LogInv, Apart
  <2>3. LogTypes'
    BY <1>1, <1>6 DEF LogInv, LogTypes, Batch
  <2> QED BY <1>2, <1>3, <1>4, <2>2, <2>3 DEF LogInv, Apart
<1>7. CASE gone = s.lines /\ CreateLogs(s)
  <2>1. /\ lost' = lost /\ gone = s.lines
        /\ rows' = rows \cup {[line |-> n, stamp |-> s.stamp] : n \in s.lines}
        /\ s.stamp # Unstamped
    BY <1>7 DEF CreateLogs, RowsOfBatch
  <2>2. /\ s.stamp \in Second /\ s.lines \subseteq Line
    BY <1>1, <2>1 DEF Batch
  <2>3. \A n : n \in Kept' <=> n \in Kept \/ n \in gone
    <3> SUFFICES ASSUME NEW n
                 PROVE  (\E r \in rows' : n = r.line)
                          <=> (\E r \in rows : n = r.line) \/ n \in s.lines
      BY <2>1, WhereLinesAre
    <3> DEFINE row(m) == [line |-> m, stamp |-> s.stamp]
    <3>1. \A m : row(m).line = m
      OBVIOUS
    <3>2. /\ \A r \in rows' : r \in rows \/ \E m \in s.lines : r = row(m)
          /\ \A m \in s.lines : row(m) \in rows'
          /\ rows \subseteq rows'
      BY <2>1
    <3> HIDE DEF row
    <3> QED BY <3>1, <3>2
  <2>4. \A r, t \in rows' : r.line = t.line => r = t
    <3>1. \A r \in rows : r.line \notin s.lines
      BY WhereLinesAre DEF LogInv, Apart
    <3> QED BY <2>1, <3>1 DEF LogInv, Apart
  <2>5. Apart'
    BY <1>2, <1>3, <1>4, <1>5, <2>1, <2>3, <2>4 DEF LogInv, Apart
  <2>6. LogTypes'
    <3>1. rows' \subseteq Row
      BY <2>1, <2>2 DEF LogInv, LogTypes, Row
    <3> QED BY <2>1, <3>1 DEF LogInv, LogTypes
  <2> QED BY <1>2, <1>3, <1>4, <2>5, <2>6 DEF LogInv, Apart
<1> QED BY <1>6, <1>7

-----------------------------------------------------------------------------
(* The steps of the delivery as steps of the channel. *)

Waiting == Buffered \cup Underway

LEMMA ToChannel ==
  ASSUME NEW S \in SUBSET Line,
         \/ /\ S \cap (Waiting \cup Kept \cup lost) = {}
            /\ Waiting' = Waiting \cup S /\ Kept' = Kept /\ lost' = lost
         \/ /\ S \subseteq Waiting
            /\ Waiting' = Waiting \ S /\ Kept' = Kept \cup S /\ lost' = lost
         \/ /\ S \subseteq Waiting
            /\ Waiting' = Waiting \ S /\ Kept' = Kept /\ lost' = lost \cup S
         \/ /\ S \subseteq Kept
            /\ Waiting' = Waiting /\ Kept' = Kept \ S /\ lost' = lost \cup S
  PROVE  [Channel!Next]_(Channel!vars)
<1>1. /\ Waiting = Buffered \cup Batched(sends)
      /\ Waiting' = (Buffered \cup Batched(sends))'
  BY DEF Waiting, Underway
<1>2. Kept = {r.line : r \in rows} /\ Kept' = {r.line : r \in rows}'
  BY DEF Kept
<1>3. CASE S = {}
  <2>1. Waiting' = Waiting /\ Kept' = Kept /\ lost' = lost
    BY <1>3
  <2> QED BY <1>1, <1>2, <2>1 DEF Channel!vars
<1>4. CASE S # {}
  <2>1. S \in (SUBSET Line) \ {{}}
    BY <1>4
  <2>2. \/ Channel!Write(S) \/ Channel!Deliver(S) \/ Channel!Lose(S)
        \/ Channel!Expire(S)
    BY <1>1, <1>2
       DEF Channel!Write, Channel!Deliver, Channel!Lose, Channel!Expire
  <2> QED BY <2>1, <2>2 DEF Channel!Next
<1> QED BY <1>3, <1>4

\* What a step of the model does when it moves no line.
LEMMA NoLineMoves ==
  ASSUME LogInv, UNCHANGED <<logged, buffer, sends, rows, lost>>,
         clock' \in Second, settled' \in BOOLEAN
  PROVE  LogInv' /\ [Channel!Next]_(Channel!vars)
<1>1. Buffered' = Buffered /\ Underway' = Underway /\ Kept' = Kept
  BY DEF Buffered, Underway, Batched, Kept
<1>2. Waiting' = Waiting
  BY <1>1 DEF Waiting
<1>3. [Channel!Next]_(Channel!vars)
  <2> DEFINE S == {}
  <2>1. /\ S \in SUBSET Line /\ S \cap (Waiting \cup Kept \cup lost) = {}
        /\ Waiting' = Waiting \cup S /\ Kept' = Kept /\ lost' = lost
    BY <1>1, <1>2
  <2> HIDE DEF S
  <2> QED BY <2>1, ToChannel
<1> QED BY <1>1, <1>3 DEF LogInv, LogTypes, Apart

LEMMA PlacesAreApart == ASSUME LogInv
  PROVE  /\ Waiting \cup Kept \cup lost \subseteq 1 .. logged
         /\ 1 .. logged \subseteq Line
         /\ Waiting \cap (Kept \cup lost) = {} /\ Kept \cap lost = {}
<1>1. logged \in 0 .. MaxLine /\ MaxLine \in Nat
  BY DeliveryAssumption DEF LogInv, LogTypes
<1> QED BY <1>1 DEF LogInv, Apart, Waiting, Line

\* FlushLocked and Write take lines from a logger's owner, or none.
LEMMA BufferSteps ==
  ASSUME LogInv, NEW l \in Logger, LoggerStep(l)
  PROVE  LogInv' /\ [Channel!Next]_(Channel!vars)
<1>1. /\ logged \in 0 .. MaxLine /\ MaxLine \in Nat /\ logged \in Nat
      /\ buffer \in [Logger -> Seq(Line)]
      /\ clock \in Second /\ settled \in BOOLEAN
  BY DeliveryAssumption DEF LogInv, LogTypes
<1>2. ASSUME NEW b \in Seq(Line), logged' \in logged .. MaxLine,
             ToSet(b) = ToSet(buffer[l]) \cup logged + 1 .. logged',
             \/ FlushLocked(l, b)
             \/ buffer' = [buffer EXCEPT ![l] = b] /\ UNCHANGED sends,
             UNCHANGED <<rows, lost, clock, settled>>
      PROVE  LogInv' /\ [Channel!Next]_(Channel!vars)
  <2>1. LogInv' /\ Waiting' = Waiting \cup logged + 1 .. logged'
    BY <1>2, BufferStep DEF Waiting
  <2>2. logged + 1 .. logged' \in SUBSET Line
    BY <1>1, <1>2 DEF Line
  <2>3. logged + 1 .. logged' \cap (Waiting \cup Kept \cup lost) = {}
    BY <1>1, PlacesAreApart
  <2>4. Kept' = Kept /\ lost' = lost
    BY <1>2 DEF Kept
  <2> QED BY <2>1, <2>2, <2>3, <2>4, ToChannel
<1>3. ASSUME FlushLocked(l, buffer[l]),
             UNCHANGED <<logged, rows, lost, clock, settled>>
      PROVE  LogInv' /\ [Channel!Next]_(Channel!vars)
  <2>1. /\ buffer[l] \in Seq(Line) /\ logged' \in logged .. MaxLine
        /\ logged + 1 .. logged' = {}
    BY <1>1, <1>3
  <2>2. ToSet(buffer[l]) = ToSet(buffer[l]) \cup logged + 1 .. logged'
    BY <2>1
  <2> QED BY <1>2, <1>3, <2>1, <2>2
<1>4. CASE NewStreamLogger(l) \/ TimerFires(l) \/ Close(l)
  <2>1. UNCHANGED <<logged, buffer, sends, rows, lost, clock, settled>>
    BY <1>4 DEF NewStreamLogger, TimerFires, Close
  <2> QED BY <1>1, <2>1, NoLineMoves
<1>5. CASE AutoFlush(l)
  <2>1. CASE FlushLocked(l, buffer[l])
    BY <1>3, <1>5, <2>1 DEF AutoFlush
  <2>2. CASE UNCHANGED <<buffer, sends>>
    <3>1. UNCHANGED <<logged, buffer, sends, rows, lost, clock, settled>>
      BY <1>5, <2>2 DEF AutoFlush
    <3> QED BY <1>1, <3>1, NoLineMoves
  <2> QED BY <1>5, <2>1, <2>2 DEF AutoFlush
<1>6. CASE CloseFlush(l)
  BY <1>3, <1>6 DEF CloseFlush
<1>7. ASSUME NEW k \in 1 .. MaxWrite, Write(l, k)
      PROVE  LogInv' /\ [Channel!Next]_(Channel!vars)
  <2> DEFINE b == buffer[l] \o [i \in 1 .. k |-> logged + i]
  <2>1. /\ logged + k <= MaxLine /\ logged' = logged + k
        /\ UNCHANGED <<rows, lost, clock, settled>>
        /\ \/ FlushLocked(l, b)
           \/ buffer' = [buffer EXCEPT ![l] = b] /\ UNCHANGED sends
    BY <1>7 DEF Write
  <2>2. logged' \in logged .. MaxLine
    BY <1>1, <2>1
  <2>3. b \in Seq(Line) /\ ToSet(b) = ToSet(buffer[l]) \cup logged + 1 .. logged'
    BY <1>1, <2>1, NewLines DEF LogInv
  <2> HIDE DEF b
  <2> QED BY <1>2, <2>1, <2>2, <2>3
<1> QED BY <1>4, <1>5, <1>6, <1>7 DEF LoggerStep

LEMMA LinesOfBatch ==
  ASSUME NEW s
  PROVE  \A n : n \in s.lines <=> \E r \in RowsOfBatch(s) : n = r.line
<1> DEFINE row(m) == [line |-> m, stamp |-> s.stamp]
<1>1. \A m : row(m).line = m
  OBVIOUS
<1>2. RowsOfBatch(s) = {row(m) : m \in s.lines}
  BY DEF RowsOfBatch
<1> HIDE DEF row
<1> QED BY <1>1, <1>2

LEMMA BatchSteps ==
  ASSUME LogInv, NEW s \in sends, SendStep(s)
  PROVE  LogInv' /\ [Channel!Next]_(Channel!vars)
<1>1. /\ s \in Batch /\ clock \in Second
      /\ s.lines \in (SUBSET Line) \ {{}} /\ s.stamp \in {Unstamped} \cup Second
  BY DEF LogInv, LogTypes, Batch
<1>2. /\ s.lines \subseteq Waiting
      /\ s.lines \cap (Kept \cup lost) = {}
  BY WhereLinesAre DEF LogInv, Apart, Waiting
<1>3. ASSUME NEW made \in SUBSET Batch, sends' = (sends \ {s}) \cup made,
             \A t, u \in made : t = u,
             NEW gone \in SUBSET s.lines,
             UNION {t.lines : t \in made} = s.lines \ gone,
             UNCHANGED <<logged, buffer, clock, settled>>,
             \/ lost' = lost \cup gone /\ UNCHANGED rows
             \/ gone = s.lines /\ CreateLogs(s)
      PROVE  LogInv' /\ [Channel!Next]_(Channel!vars)
  <2>1. \A t \in made : t.lines \subseteq s.lines
    BY <1>3
  <2>2. LogInv' /\ Waiting' = Waiting \ gone
    BY <1>3, <2>1, BatchStep DEF Waiting
  <2>3. gone \in SUBSET Line /\ gone \subseteq Waiting
    BY <1>1, <1>2
  <2>4. CASE lost' = lost \cup gone /\ UNCHANGED rows
    <3>1. Kept' = Kept
      BY <2>4 DEF Kept
    <3> QED BY <2>2, <2>3, <2>4, <3>1, ToChannel
  <2>5. CASE gone = s.lines /\ CreateLogs(s)
    <3>1. rows' = rows \cup RowsOfBatch(s) /\ lost' = lost
      BY <2>5 DEF CreateLogs
    <3>2. Kept' = Kept \cup gone
      BY <2>5, <3>1, LinesOfBatch, WhereLinesAre
    <3> QED BY <2>2, <2>3, <3>1, <3>2, ToChannel
  <2> QED BY <1>3, <2>4, <2>5
<1>4. ASSUME NEW blank \in SUBSET s.lines, s.lines \ blank # {},
             sends' = (sends \ {s}) \cup {[s EXCEPT !.lines = s.lines \ blank,
                                                 !.stamp = clock]},
             lost' = lost \cup blank,
             UNCHANGED <<loggerVars, rows, clock, settled>>
      PROVE  LogInv' /\ [Channel!Next]_(Channel!vars)
  <2> DEFINE t == [s EXCEPT !.lines = s.lines \ blank, !.stamp = clock]
             made == {t}
  <2>1. t \in Batch /\ t.lines = s.lines \ blank
    BY <1>1, <1>4 DEF Batch
  <2>2. sends' = (sends \ {s}) \cup {t}
    BY <1>4
  <2> HIDE DEF t
  <2>3. /\ made \in SUBSET Batch /\ \A u, v \in made : u = v
        /\ UNION {u.lines : u \in made} = s.lines \ blank
    BY <2>1
  <2> QED BY <1>3, <1>4, <2>2, <2>3 DEF loggerVars
<1>5. CASE SaveLogsRaw(s)
  <2>1. PICK blank \in SUBSET s.lines :
          /\ sends' = (sends \ {s}) \cup
               (IF s.lines \ blank = {} THEN {}
                ELSE {[s EXCEPT !.lines = s.lines \ blank, !.stamp = clock]})
          /\ lost' = lost \cup blank
          /\ UNCHANGED <<loggerVars, rows, clock, settled>>
    BY <1>5 DEF SaveLogsRaw
  <2>2. CASE s.lines \ blank = {}
    <3> DEFINE made == {}
    <3>1. /\ made \in SUBSET Batch /\ \A u, v \in made : u = v
          /\ UNION {u.lines : u \in made} = s.lines \ blank
          /\ sends' = (sends \ {s}) \cup made
      BY <2>1, <2>2
    <3> HIDE DEF made
    <3> QED BY <1>3, <2>1, <3>1 DEF loggerVars
  <2>3. CASE s.lines \ blank # {}
    BY <1>4, <2>1, <2>3
  <2> QED BY <2>2, <2>3
<1>6. CASE CreateLogs(s) \/ SendFails(s)
  <2> DEFINE made == {}
  <2>1. /\ made \in SUBSET Batch /\ \A u, v \in made : u = v
        /\ UNION {u.lines : u \in made} = s.lines \ s.lines
        /\ sends' = (sends \ {s}) \cup made
    BY <1>6 DEF CreateLogs, SendFails
  <2>2. /\ UNCHANGED <<logged, buffer, clock, settled>>
        /\ \/ lost' = lost \cup s.lines /\ UNCHANGED rows
           \/ s.lines = s.lines /\ CreateLogs(s)
    BY <1>6 DEF CreateLogs, SendFails, loggerVars
  <2> HIDE DEF made
  <2> QED BY <1>3, <2>1, <2>2
<1>7. CASE SendTimesOut(s)
  <2> DEFINE t == [s EXCEPT !.waited = FALSE]
             made == {t}
             gone == {}
  <2>1. t \in Batch /\ t.lines = s.lines
    BY <1>1 DEF Batch
  <2>2. /\ sends' = (sends \ {s}) \cup {t} /\ lost' = lost \cup gone
        /\ UNCHANGED <<logged, buffer, rows, clock, settled>>
    BY <1>7 DEF SendTimesOut, loggerVars
  <2> HIDE DEF t
  <2>3. /\ made \in SUBSET Batch /\ \A u, v \in made : u = v
        /\ UNION {u.lines : u \in made} = s.lines \ gone
        /\ gone \in SUBSET s.lines /\ sends' = (sends \ {s}) \cup made
    BY <2>1, <2>2
  <2> HIDE DEF made, gone
  <2> QED BY <1>3, <2>2, <2>3
<1> QED BY <1>5, <1>6, <1>7 DEF SendStep

\* The hourly cleanup, the end of the worker, the clock and the status.
LEMMA CleanupStep ==
  ASSUME LogInv, CleanupLogs
  PROVE  LogInv' /\ [Channel!Next]_(Channel!vars)
<1> DEFINE S == {r.line : r \in rows \ rows'}
<1>1. /\ rows' \subseteq rows /\ lost' = lost \cup S
      /\ UNCHANGED <<logged, buffer, sends, clock, settled>>
  BY DEF CleanupLogs, loggerVars
<1>2. S \subseteq Line
  BY DEF LogInv, LogTypes, Row
<1>3. \A n : n \in S <=> \E r \in rows \ rows' : n = r.line
  OBVIOUS
<1> HIDE DEF S
<1>4. S \subseteq Kept /\ Kept' = Kept \ S
  <2>1. \A r, t \in rows : r.line = t.line => r = t
    BY DEF LogInv, Apart
  <2> QED BY <1>1, <1>3, <2>1, WhereLinesAre
<1>5. Buffered' = Buffered /\ Underway' = Underway
  BY <1>1 DEF Buffered, Underway, Batched
<1>6. LogInv'
  BY <1>1, <1>2, <1>4, <1>5 DEF LogInv, LogTypes, Apart
<1> QED BY <1>1, <1>2, <1>4, <1>5, <1>6, ToChannel DEF Waiting

LEMMA CrashStep ==
  ASSUME LogInv, WorkerEnds
  PROVE  LogInv' /\ [Channel!Next]_(Channel!vars)
<1> DEFINE unsent == {s \in sends : s.stamp = Unstamped}
           S == Buffered \cup Batched(unsent)
           gaveUp(s) == [s EXCEPT !.waited = FALSE]
<1>1. /\ buffer' = [l \in Logger |-> << >>]
      /\ sends' = {gaveUp(s) : s \in sends \ unsent}
      /\ lost' = lost \cup S
      /\ UNCHANGED <<logged, rows, clock, settled>>
  BY DEF WorkerEnds
<1>2. \A s \in sends : gaveUp(s) \in Batch /\ gaveUp(s).lines = s.lines
  BY DEF LogInv, LogTypes, Batch
<1> HIDE DEF gaveUp
<1>3. Buffered' = {} /\ buffer' \in [Logger -> Seq(Line)]
      /\ \A l \in Logger : ToSet(buffer'[l]) = {}
  <2>1. \A l \in Logger : buffer'[l] = << >>
    BY <1>1
  <2>2. \A l \in Logger : ToSet(buffer'[l]) = {}
    BY <2>1, LinesOfEmpty
  <2>3. \A n : n \notin Buffered'
    BY <2>2, WhereLinesAre
  <2> QED BY <1>1, <2>2, <2>3, LinesOfEmpty
<1>4. /\ unsent \subseteq sends
      /\ \A n : n \in Batched(unsent) <=> \E s \in unsent : n \in s.lines
  BY DEF Batched
<1> HIDE DEF unsent
<1>5. \A n : n \in Underway' <=> \E s \in sends \ unsent : n \in s.lines
  BY <1>1, <1>2, WhereLinesAre
<1>6. S \subseteq Waiting /\ Waiting' = Waiting \ S /\ S \subseteq Line
  <2>1. S \subseteq Waiting
    BY <1>4, WhereLinesAre DEF Waiting
  <2>2. Underway' = Underway \ Batched(unsent)
    BY <1>4, <1>5, WhereLinesAre DEF LogInv, Apart
  <2>3. Waiting' = Waiting \ S
    BY <1>3, <2>2 DEF Waiting, LogInv, Apart
  <2> QED BY <2>1, <2>3, PlacesAreApart
<1> HIDE DEF S
<1>7. Kept' = Kept
  BY <1>1 DEF Kept
<1>8. LogTypes'
  BY <1>1, <1>2, <1>3, <1>6 DEF LogInv, LogTypes
<1>9. Apart'
  <2>1. \A s, t \in sends' : s # t => s.lines \cap t.lines = {}
    BY <1>1, <1>2 DEF LogInv, Apart
  <2>2. /\ Buffered \cup Underway \subseteq 1 .. logged
        /\ (Buffered \cup Underway) \cap (Kept \cup lost) = {}
    BY DEF LogInv, Apart
  <2>3. /\ Buffered' = {} /\ Underway' = (Buffered \cup Underway) \ S
        /\ S \subseteq Buffered \cup Underway
    BY <1>3, <1>6 DEF Waiting
  <2> QED BY <1>1, <1>3, <1>7, <2>1, <2>2, <2>3 DEF LogInv, Apart
<1> QED BY <1>1, <1>6, <1>7, <1>8, <1>9, ToChannel DEF LogInv

LEMMA DeliverySteps ==
  ASSUME LogInv, [DeliveryNext]_deliveryVars
  PROVE  LogInv' /\ [Channel!Next]_(Channel!vars)
<1>1. clock \in Second /\ settled \in BOOLEAN
  BY DEF LogInv, LogTypes
<1>2. CASE UNCHANGED deliveryVars
  BY <1>1, <1>2, NoLineMoves DEF deliveryVars, loggerVars
<1>3. CASE Tick
  <2>1. clock' \in Second
    BY <1>1, <1>3, DeliveryAssumption DEF Tick, Second
  <2> QED BY <1>1, <1>3, <2>1, NoLineMoves DEF Tick, loggerVars
<1>4. CASE Settle
  BY <1>1, <1>4, NoLineMoves DEF Settle, loggerVars
<1> QED BY <1>2, <1>3, <1>4, BufferSteps, BatchSteps, CleanupStep, CrashStep
        DEF DeliveryNext

LEMMA LogInit == ASSUME Init PROVE LogInv /\ Channel!Init
<1>1. /\ logged = 0 /\ buffer = [l \in Logger |-> << >>]
      /\ sends = {} /\ rows = {} /\ lost = {} /\ clock = 1 /\ settled = FALSE
  BY DEF Init, DeliveryInit
<1>2. /\ \A l \in Logger : buffer[l] = << >> /\ ToSet(buffer[l]) = {}
      /\ buffer \in [Logger -> Seq(Line)]
  BY <1>1, LinesOfEmpty
<1>3. Buffered = {} /\ Underway = {} /\ Kept = {} /\ Batched(sends) = {}
  BY <1>1, <1>2 DEF Buffered, Underway, Batched, Kept
<1>4. LogInv
  <2>1. 0 \in 0 .. MaxLine /\ 1 \in Second
    BY DeliveryAssumption DEF Second
  <2>2. LogTypes
    BY <1>1, <1>2, <2>1, Zenon DEF LogTypes
  <2>3. Apart
    BY <1>1, <1>2, <1>3 DEF Apart
  <2> QED BY <2>2, <2>3 DEF LogInv
<1> QED BY <1>1, <1>3, <1>4 DEF Channel!Init, Kept

\* Every line that was logged is with one logger, in one batch, in one row of
\* the table, or lost: neither the timer against Close, nor a full batch, nor a
\* call that timed out and was stored all the same, nor the end of the worker
\* makes two copies of it or none (logger.go:62-208, internal.service.ts:67-86).
THEOREM LinesStayApart == Spec => []LogInv
<1>1. Init => LogInv
  BY LogInit
<1>2. LogInv /\ [Next]_vars => LogInv'
  <2>1. [Next]_vars => [DeliveryNext]_deliveryVars
    BY DEF Next, vars
  <2> QED BY <2>1, DeliverySteps
<1> QED BY <1>1, <1>2, PTL DEF Spec

\* The loggers, their batches and the table implement the safety part of the
\* channel: each step writes, delivers, loses or expires a set of lines, or
\* changes nothing that the channel knows of (logger.go:62-208,
\* api/logs.go:79-110).
THEOREM LoggersImplementChannel == Spec => Channel!SafeSpec
<1>1. Init => Channel!Init
  BY LogInit
<1>2. LogInv /\ [Next]_vars => [Channel!Next]_(Channel!vars)
  <2>1. [Next]_vars => [DeliveryNext]_deliveryVars
    BY DEF Next, vars
  <2> QED BY <2>1, DeliverySteps
<1> QED BY <1>1, <1>2, LinesStayApart, PTL DEF Spec, Channel!SafeSpec

-----------------------------------------------------------------------------
(* 2. The panel: pages and sequences of records. *)

Sorted(q) == \A i, j \in DOMAIN q :
               i < j => q[i].stamp <= q[j].stamp /\ q[i].line # q[j].line
Record == Row \cup OldRows

LEMMA EmptyPage ==
  /\ ToSet(<< >>) = {} /\ Lines(<< >>) = {} /\ Sorted(<< >>)
  /\ << >> \in Seq(Record) /\ Len(<< >>) = 0
<1>1. << >> \in Seq(Record) /\ Len(<< >>) = 0
  BY EmptySeq
<1>2. DOMAIN << >> = {}
  BY <1>1, LenProperties
<1> QED BY <1>1, <1>2 DEF ToSet, Lines, Sorted

LEMMA LinesAre ==
  ASSUME NEW q
  PROVE  \A n : n \in Lines(q) <=> \E r \in ToSet(q) : n = r.line
  BY DEF Lines, ToSet

LEMMA Joined ==
  ASSUME NEW p \in Seq(Record), NEW q \in Seq(Record)
  PROVE  /\ p \o q \in Seq(Record)
         /\ ToSet(p \o q) = ToSet(p) \cup ToSet(q)
         /\ Lines(p \o q) = Lines(p) \cup Lines(q)
         /\ /\ Sorted(p) /\ Sorted(q)
            /\ \A r \in ToSet(p), t \in ToSet(q) :
                 r.stamp <= t.stamp /\ r.line # t.line
            => Sorted(p \o q)
<1> DEFINE b == p \o q
<1>1. /\ b \in Seq(Record) /\ Len(b) = Len(p) + Len(q)
      /\ \A i \in 1 .. Len(p) + Len(q) :
           b[i] = IF i <= Len(p) THEN p[i] ELSE q[i - Len(p)]
  BY ConcatProperties
<1>2. /\ DOMAIN b = 1 .. Len(p) + Len(q)
      /\ DOMAIN p = 1 .. Len(p) /\ DOMAIN q = 1 .. Len(q)
      /\ Len(p) \in Nat /\ Len(q) \in Nat
  BY <1>1, LenProperties
<1> HIDE DEF b
<1>3. \A i \in DOMAIN p : i \in DOMAIN b /\ b[i] = p[i]
  BY <1>1, <1>2
<1>4. \A i \in DOMAIN q : Len(p) + i \in DOMAIN b /\ b[Len(p) + i] = q[i]
  <2> SUFFICES ASSUME NEW i \in DOMAIN q
               PROVE  Len(p) + i \in DOMAIN b /\ b[Len(p) + i] = q[i]
    OBVIOUS
  <2>1. /\ Len(p) + i \in 1 .. Len(p) + Len(q) /\ ~ Len(p) + i <= Len(p)
        /\ (Len(p) + i) - Len(p) = i
    BY <1>2
  <2> QED BY <1>1, <1>2, <2>1
<1>5. \A i \in DOMAIN b :
        \/ i \in DOMAIN p /\ b[i] = p[i]
        \/ i - Len(p) \in DOMAIN q /\ b[i] = q[i - Len(p)] /\ i > Len(p)
  BY <1>1, <1>2
<1>6. ToSet(b) = ToSet(p) \cup ToSet(q)
  <2>1. ToSet(b) \subseteq ToSet(p) \cup ToSet(q)
    BY <1>5 DEF ToSet
  <2>2. ToSet(p) \subseteq ToSet(b)
    BY <1>3 DEF ToSet
  <2>3. ToSet(q) \subseteq ToSet(b)
    BY <1>4 DEF ToSet
  <2> QED BY <2>1, <2>2, <2>3
<1>7. Lines(b) = Lines(p) \cup Lines(q)
  BY <1>6, LinesAre
<1>8. ASSUME Sorted(p), Sorted(q),
             \A r \in ToSet(p), t \in ToSet(q) :
               r.stamp <= t.stamp /\ r.line # t.line
      PROVE  Sorted(b)
  <2> SUFFICES ASSUME NEW i \in DOMAIN b, NEW j \in DOMAIN b, i < j
               PROVE  b[i].stamp <= b[j].stamp /\ b[i].line # b[j].line
    BY DEF Sorted
  <2>1. CASE i \in DOMAIN p /\ j \in DOMAIN p
    BY <1>3, <1>8, <2>1 DEF Sorted
  <2>2. CASE i \in DOMAIN p /\ j \notin DOMAIN p
    <3>1. /\ b[i] = p[i] /\ p[i] \in ToSet(p)
          /\ b[j] = q[j - Len(p)] /\ q[j - Len(p)] \in ToSet(q)
      BY <1>3, <1>5, <2>2 DEF ToSet
    <3> QED BY <1>8, <3>1
  <2>3. CASE i \notin DOMAIN p
    <3>1. i \in Nat /\ j \in Nat /\ i > Len(p) /\ j > Len(p)
      BY <1>2, <2>3
    <3>2. /\ i - Len(p) \in DOMAIN q /\ b[i] = q[i - Len(p)]
          /\ j - Len(p) \in DOMAIN q /\ b[j] = q[j - Len(p)]
          /\ i - Len(p) < j - Len(p)
      BY <1>2, <1>5, <3>1
    <3> QED BY <1>8, <3>2 DEF Sorted
  <2> QED BY <2>1, <2>2, <2>3
<1> QED BY <1>1, <1>6, <1>7, <1>8 DEF b

LEMMA DripKeepsPanel ==
  ASSUME NEW p \in Seq(Record), NEW q \in Seq(Record), q # << >>
  PROVE  /\ Append(p, Head(q)) \in Seq(Record) /\ Tail(q) \in Seq(Record)
         /\ Append(p, Head(q)) \o Tail(q) = p \o q
<1>1. /\ Head(q) \in Record /\ Tail(q) \in Seq(Record)
      /\ q = << Head(q) >> \o Tail(q)
  <2>1. Head(q) \in Record /\ Tail(q) \in Seq(Record)
    BY HeadTailProperties
  <2>2. Len(q) \in Nat \ {0}
    BY EmptySeq
  <2>3. SubSeq(q, 1, Len(q)) = << q[1] >> \o SubSeq(q, 1 + 1, Len(q))
    <3>1. 1 \in 1 .. Len(q) /\ Len(q) \in 1 .. Len(q)
      BY <2>2
    <3> QED BY <3>1, SubSeqRecursiveFirst
  <2>4. Tail(q) = SubSeq(q, 2, Len(q)) /\ SubSeq(q, 1, Len(q)) = q
    BY TailIsSubSeq, SubSeqFull
  <2>5. Head(q) = q[1]
    OBVIOUS
  <2> QED BY <2>1, <2>3, <2>4, <2>5
<1>2. Append(p, Head(q)) \in Seq(Record) /\ Append(p, Head(q)) = p \o << Head(q) >>
  BY <1>1, AppendProperties, AppendIsConcat
<1>3. << Head(q) >> \in Seq(Record)
  BY <1>1
<1> QED BY <1>1, <1>2, <1>3, ConcatAssociative

LEMMA PagesAre ==
  ASSUME NEW R \in SUBSET Record, NEW q \in PagesOf(R)
  PROVE  /\ q \in Seq(Record) /\ Len(q) <= PageSize /\ ToSet(q) \subseteq R
         /\ \A i, j \in DOMAIN q : i < j => q[i].stamp <= q[j].stamp /\ q[i] # q[j]
         /\ \A r \in R \ ToSet(q) :
              /\ Len(q) = PageSize /\ q # << >>
              /\ \A t \in ToSet(q) : t.stamp <= r.stamp
<1>0. PageSize \in Nat \ {0}
  BY ViewAssumption
<1>1. /\ \E n \in 0 .. PageSize : q \in [1 .. n -> R]
      /\ \A i, j \in DOMAIN q : i < j => q[i].stamp <= q[j].stamp /\ q[i] # q[j]
      /\ \A r \in R \ ToSet(q) :
           Len(q) = PageSize /\ \A i \in DOMAIN q : q[i].stamp <= r.stamp
  BY DEF PagesOf, SortedPages
<1>2. PICK n \in 0 .. PageSize : q \in [1 .. n -> R]
  BY <1>1
<1>3. n \in Nat /\ n <= PageSize
  BY <1>0
<1>4. q \in Seq(Record) /\ DOMAIN q = 1 .. n
  <2>1. \A i \in 1 .. n : q[i] \in Record
    BY <1>2
  <2>2. [i \in 1 .. n |-> q[i]] \in Seq(Record)
    BY <1>3, <2>1, IsASeq
  <2> QED BY <1>2, <2>2
<1>5. Len(q) = n
  <2>1. Len(q) \in Nat /\ 1 .. Len(q) = 1 .. n
    BY <1>4, LenProperties
  <2> QED BY <1>3, <2>1
<1>6. ToSet(q) \subseteq R
  BY <1>2 DEF ToSet
<1>7. \A r \in R \ ToSet(q) :
        /\ Len(q) = PageSize /\ q # << >>
        /\ \A t \in ToSet(q) : t.stamp <= r.stamp
  BY <1>0, <1>1, EmptyPage DEF ToSet
<1> QED BY <1>1, <1>3, <1>4, <1>5, <1>6, <1>7

LEMMA Stamps ==
  \A r \in Record : r.stamp \in Second /\ r.stamp \in Int /\ r.stamp > 0
  BY DeliveryAssumption, ViewAssumption DEF Record, Row, Second

LEMMA CursorIs ==
  ASSUME NEW q \in Seq(Record), NEW c \in {0} \cup Second, Sorted(q)
  PROVE  /\ NextCursor(q, c) \in {0} \cup Second
         /\ q = << >> => NextCursor(q, c) = c
         /\ q # << >> => /\ Last(q) \in ToSet(q)
                         /\ \A d : NextCursor(q, d) = Last(q).stamp
                         /\ \A r \in ToSet(q) : r.stamp <= Last(q).stamp
<1>1. CASE q = << >>
  BY <1>1 DEF NextCursor
<1>2. CASE q # << >>
  <2>1. Len(q) \in Nat \ {0} /\ DOMAIN q = 1 .. Len(q)
    BY <1>2, EmptySeq, LenProperties
  <2>2. Len(q) \in DOMAIN q /\ Last(q) = q[Len(q)] /\ Last(q) \in Record
    BY <2>1, ElementOfSeq DEF Last
  <2>3. \A i \in DOMAIN q : q[i].stamp <= Last(q).stamp
    <3>1. SUFFICES ASSUME NEW i \in DOMAIN q PROVE q[i].stamp <= Last(q).stamp
      OBVIOUS
    <3>2. CASE i = Len(q)
      BY <2>2, <3>2, Stamps
    <3>3. CASE i # Len(q)
      <4>1. i < Len(q)
        BY <2>1, <3>3
      <4> QED BY <2>2, <4>1 DEF Sorted
    <3> QED BY <3>2, <3>3
  <2>4. Last(q) \in ToSet(q) /\ \A r \in ToSet(q) : r.stamp <= Last(q).stamp
    BY <2>2, <2>3 DEF ToSet
  <2> QED BY <1>2, <2>2, <2>4, Stamps DEF NextCursor
<1> QED BY <1>1, <1>2

-----------------------------------------------------------------------------
(* Types, and what the fetch in flight is about. *)

Panels == {"none", "old", "this"}

ViewTypes ==
  /\ shown \in Panels /\ last \in Panels
  /\ enabled \in BOOLEAN /\ polling \in BOOLEAN /\ first \in BOOLEAN
  /\ isLive \in BOOLEAN /\ isLoading \in BOOLEAN
  /\ view \in Seq(Record) /\ drip \in Seq(Record)
  /\ cursor \in {0} \cup Second
  /\ request # NoRequest => request \in Request /\ Len(request.page) <= PageSize
  /\ late \subseteq Line /\ cut \subseteq Line /\ stored \subseteq Line
  /\ gaps \subseteq {"stale", "stopped", "full"}
  /\ upsets \in 0 .. MaxUpset

Asks ==
  /\ polling => enabled
  /\ enabled => shown = last /\ shown # "none"
  /\ last = "this" => shown = "this"
  /\ first => view = << >> /\ drip = << >>
  /\ request # NoRequest =>
       /\ last # "none"
       /\ request.of = "this" => last = "this"
       /\ \/ request.after = cursor
          \/ /\ request.of = "old" /\ last = "this"
             /\ cursor = 0 /\ view = << >> /\ drip = << >>

\* A fetch about c that has just been sent.
Asked(s, c, a) ==
  /\ s \in Request /\ s # NoRequest
  /\ s.pc = "sent" /\ s.of = c /\ s.after = a
  /\ s.page = << >> /\ Len(s.page) <= PageSize

LEMMA SentIs ==
  ASSUME NEW c \in {"old", "this"}, NEW a \in {0} \cup Second
  PROVE  Asked(Sent(c, a, FALSE), c, a) /\ Asked(Sent(c, a, TRUE), c, a)
<1>1. << >> \in Seq(Row \cup OldRows) /\ Len(<< >>) <= PageSize
  BY EmptyPage, ViewAssumption DEF Record
<1>2. ASSUME NEW f \in BOOLEAN PROVE Asked(Sent(c, a, f), c, a)
  <2>1. Sent(c, a, f) = [pc |-> "sent", of |-> c, after |-> a, final |-> f,
                         page |-> << >>, cut |-> {}, live |-> FALSE]
    BY DEF Sent
  <2>2. /\ FALSE \in BOOLEAN /\ {} \in SUBSET Line
        /\ "sent" \in {"sent", "status", "read"}
    OBVIOUS
  <2>3. Sent(c, a, f) \in Request
    BY <1>1, <2>1, <2>2 DEF Request
  <2>4. /\ Sent(c, a, f).pc = "sent" /\ Sent(c, a, f).of = c
        /\ Sent(c, a, f).after = a /\ Sent(c, a, f).page = << >>
    BY <2>1
  <2>5. NoRequest.pc = "none"
    BY DEF NoRequest
  <2> QED BY <1>1, <2>3, <2>4, <2>5 DEF Asked
<1> QED BY <1>2, Zenon

LEMMA RequestIs ==
  ASSUME ViewTypes
  PROVE  /\ request.pc # "none" => request # NoRequest
         /\ request # NoRequest =>
              /\ request.pc \in {"sent", "status", "read"}
              /\ request.of \in {"old", "this"}
              /\ request.after \in {0} \cup Second /\ request.final \in BOOLEAN
              /\ request.page \in Seq(Record) /\ request.cut \subseteq Line
              /\ request.live \in BOOLEAN
<1>1. NoRequest.pc = "none"
  BY DEF NoRequest
<1> QED BY <1>1 DEF ViewTypes, Request, Record

\* What the config effect does together with the fetch it starts.
LEMMA ResetIs ==
  ASSUME ViewTypes, Asks, NEW c \in {"old", "this"},
         NEW g \in SUBSET {"stopped"}, Reset(c, g), FetchNow(c)
  PROVE  /\ last' = c
         /\ \/ last = c /\ UNCHANGED <<view, drip, cursor, first, gapVars>>
            \/ /\ last # c /\ view' = << >> /\ drip' = << >>
               /\ cursor' = 0 /\ first' = TRUE
               /\ late' = {} /\ cut' = {} /\ gaps' = g
         /\ \/ request = NoRequest /\ request' = Sent(c, cursor', FALSE)
            \/ request # NoRequest /\ request' = request
         /\ cursor' \in {0} \cup Second
  BY DEF Reset, FetchNow, ViewTypes

LEMMA ResetTypes ==
  ASSUME ViewTypes, Asks, NEW c \in {"old", "this"},
         NEW g \in SUBSET {"stopped"}, Reset(c, g), FetchNow(c),
         shown' = c, enabled' = TRUE, polling' \in BOOLEAN,
         isLive' = isLive, isLoading' \in BOOLEAN, UNCHANGED <<upsets, stored>>,
         last = "this" => c = "this"
  PROVE  (ViewTypes /\ Asks)'
<1>1. /\ last' = c
      /\ \/ last = c /\ UNCHANGED <<view, drip, cursor, first, gapVars>>
         \/ /\ last # c /\ view' = << >> /\ drip' = << >>
            /\ cursor' = 0 /\ first' = TRUE
            /\ late' = {} /\ cut' = {} /\ gaps' = g
      /\ \/ request = NoRequest /\ request' = Sent(c, cursor', FALSE)
         \/ request # NoRequest /\ request' = request
      /\ cursor' \in {0} \cup Second
  BY ResetIs
<1>2. /\ view' \in Seq(Record) /\ drip' \in Seq(Record) /\ first' \in BOOLEAN
      /\ late' \subseteq Line /\ cut' \subseteq Line
      /\ gaps' \subseteq {"stale", "stopped", "full"}
      /\ first' => view' = << >> /\ drip' = << >>
  <2>1. CASE UNCHANGED <<view, drip, cursor, first, gapVars>>
    BY <2>1 DEF ViewTypes, Asks, gapVars
  <2>2. CASE /\ view' = << >> /\ drip' = << >> /\ first' = TRUE
             /\ late' = {} /\ cut' = {} /\ gaps' = g
    BY <2>2, EmptyPage DEF ViewTypes
  <2> QED BY <1>1, <2>1, <2>2
<1>s. Asked(Sent(c, cursor', FALSE), c, cursor')
  BY <1>1, SentIs
<1>3. request' # NoRequest => request' \in Request /\ Len(request'.page) <= PageSize
  BY <1>1, <1>s DEF ViewTypes, Asked
<1>4. ViewTypes'
  BY <1>1, <1>2, <1>3 DEF ViewTypes, Panels
<1>5. request' # NoRequest =>
        /\ request'.of = "this" => c = "this"
        /\ \/ request'.after = cursor'
           \/ /\ request'.of = "old" /\ c = "this"
              /\ cursor' = 0 /\ view' = << >> /\ drip' = << >>
  <2>1. CASE request = NoRequest
    BY <1>1, <1>s, <2>1 DEF Asked
  <2>2. CASE request # NoRequest
    <3>1. /\ request' = request /\ request.of \in {"old", "this"}
          /\ last # "none" /\ last \in Panels
      BY <1>1, <2>2, RequestIs DEF Asks, ViewTypes
    <3>2. CASE last = c
      BY <1>1, <2>2, <3>1, <3>2 DEF Asks
    <3>3. CASE last # c
      BY <1>1, <2>2, <3>1, <3>3 DEF Asks, Panels
    <3> QED BY <3>2, <3>3
  <2> QED BY <2>1, <2>2
<1>6. Asks'
  BY <1>1, <1>2, <1>5 DEF Asks
<1> QED BY <1>4, <1>6

LEMMA InitBase == ASSUME Init PROVE ViewTypes /\ Asks
<1>1. << >> \in Seq(Record) /\ 0 \in 0 .. MaxUpset
  BY EmptyPage, ViewAssumption
<1>2. ViewTypes
  BY <1>1 DEF Init, ViewTypes, Panels
<1>3. Asks
  BY DEF Init, Asks
<1> QED BY <1>2, <1>3

\* After an answer that left live and the cursor at c, the hook may fetch
\* for the last time.
LEMMA LastFetchIs ==
  ASSUME ViewTypes, Asks, request # NoRequest, NEW live \in BOOLEAN,
         NEW c \in {0} \cup Second, LastFetch(live, c)
  PROVE  /\ polling' \in BOOLEAN /\ (polling' => polling)
         /\ \/ request' = NoRequest
            \/ /\ polling /\ polling' = polling /\ shown \in {"old", "this"}
               /\ shown = last
               /\ Asked(request', shown, c)
<1>1. polling => enabled /\ shown = last /\ shown \in {"old", "this"}
  BY DEF Asks, ViewTypes, Panels
<1>2. polling => Asked(Sent(shown, c, TRUE), shown, c)
  BY <1>1, SentIs
<1>3. CASE request.final
  BY <1>3 DEF LastFetch
<1>4. CASE ~request.final
  <2>1. /\ polling' = polling
        /\ request' = IF polling /\ ~live /\ (isLoading \/ live # isLive)
                      THEN Sent(shown, c, TRUE) ELSE NoRequest
    BY <1>4 DEF LastFetch
  <2>2. polling' \in BOOLEAN
    BY <2>1 DEF ViewTypes
  <2> QED BY <1>1, <1>2, <2>1, <2>2
<1> QED BY <1>3, <1>4

LEMMA JoinedTwice ==
  ASSUME NEW p \in Seq(Record), NEW q \in Seq(Record), NEW r \in Seq(Record)
  PROVE  (p \o q) \o r = p \o (q \o r)
  BY ConcatAssociative

LEMMA CursorType ==
  ASSUME NEW q \in Seq(Record), NEW c \in {0} \cup Second
  PROVE  NextCursor(q, c) \in {0} \cup Second
<1>1. q # << >> => Last(q) \in Record
  <2>1. q # << >> => Len(q) \in 1 .. Len(q)
    BY EmptySeq
  <2> QED BY <2>1, ElementOfSeq DEF Last
<1> QED BY <1>1, Stamps DEF NextCursor

LEMMA ReceiveIs ==
  ASSUME ViewTypes, Asks, Receive
  PROVE  /\ request # NoRequest /\ request.pc = "read"
         /\ cursor' = NextCursor(request.page, cursor)
         /\ view' \in Seq(Record) /\ drip' \in Seq(Record)
         /\ view' \o drip' = (view \o drip) \o request.page
         /\ first' \in BOOLEAN
         /\ first' => view' = << >> /\ drip' = << >>
         /\ isLive' = request.live /\ isLoading' = FALSE
         /\ LastFetch(request.live, cursor')
         /\ gaps' = GapsAfter(TRUE)
         /\ cut' = cut \cup (IF request.of = last THEN request.cut ELSE {})
         /\ UNCHANGED <<shown, enabled, last, late, upsets>>
<1>1. /\ request.pc = "read" /\ request # NoRequest
      /\ request.page \in Seq(Record)
      /\ view \in Seq(Record) /\ drip \in Seq(Record)
  BY RequestIs DEF Receive, ViewTypes
<1>2. CASE first
  <2>1. /\ view = << >> /\ drip = << >>
        /\ view' = view \o request.page /\ drip' = drip
    BY <1>2 DEF Asks, Receive
  <2>2. view' = request.page /\ view' \o drip' = request.page
        /\ (view \o drip) \o request.page = request.page
    BY <1>1, <2>1, EmptyPage, ConcatEmptySeq
  <2>3. first' = (first /\ request.page = << >>)
    BY DEF Receive
  <2>4. first' \in BOOLEAN
    BY <2>3, Zenon
  <2> QED BY <1>1, <2>1, <2>2, <2>3, <2>4 DEF Receive
<1>3. CASE ~first
  <2>1. view' = view /\ drip' = drip \o request.page
    BY <1>3 DEF Receive
  <2>2. drip' \in Seq(Record)
    BY <1>1, <2>1, ConcatProperties
  <2>3. view' \o drip' = (view \o drip) \o request.page
    <3>1. (view \o drip) \o request.page = view \o (drip \o request.page)
      BY <1>1, JoinedTwice
    <3> QED BY <2>1, <3>1
  <2>4. first' = FALSE
    BY <1>3 DEF Receive
  <2> QED BY <1>1, <2>1, <2>2, <2>3, <2>4 DEF Receive
<1> QED BY <1>2, <1>3

LEMMA GapsAre ==
  ASSUME ViewTypes, NEW ok \in BOOLEAN
  PROVE  gaps \subseteq GapsAfter(ok)
         /\ GapsAfter(ok) \subseteq {"stale", "stopped", "full"}
  BY DEF ViewTypes, GapsAfter

LEMMA AnswerIs ==
  ASSUME ViewTypes, rows \subseteq Row, GetLogs
  PROVE  \E page \in PagesOf(Matching(request.of, request.after)) :
           /\ request' \in Request /\ request' # NoRequest
           /\ Len(request'.page) <= PageSize
           /\ request'.pc = "read" /\ request'.of = request.of
           /\ request'.after = request.after /\ request'.final = request.final
           /\ request'.live = request.live /\ request'.page = page
           /\ request'.cut =
                LinesOf({r \in Matching(request.of, request.after) \ ToSet(page) :
                           r.stamp = NextCursor(page, 0)}) \cap Line
<1> DEFINE R == Matching(request.of, request.after)
           left(page) == LinesOf({r \in R \ ToSet(page) :
                                    r.stamp = NextCursor(page, 0)}) \cap Line
<1>1. request.pc = "status" /\ request # NoRequest /\ request \in Request
  BY RequestIs DEF GetLogs, ViewTypes
<1>2. PICK page \in PagesOf(R) :
        request' = [request EXCEPT !.pc = "read", !.page = page, !.cut = left(page)]
  BY DEF GetLogs
<1>3. R \in SUBSET Record
  BY DEF Matching, RowsOf, Record
<1>4. page \in Seq(Row \cup OldRows) /\ Len(page) <= PageSize
  BY <1>2, <1>3, PagesAre DEF Record
<1>5. left(page) \in SUBSET Line
  OBVIOUS
<1> HIDE DEF left
<1>6. request' \in Request
  <2>1. "read" \in {"sent", "status", "read"}
    OBVIOUS
  <2> QED BY <1>1, <1>2, <1>4, <1>5, <2>1 DEF Request
<1>7. /\ request'.pc = "read" /\ request'.of = request.of
      /\ request'.after = request.after /\ request'.final = request.final
      /\ request'.live = request.live /\ request'.page = page
      /\ request'.cut = left(page)
  BY <1>1, <1>2 DEF Request
<1>8. request' # NoRequest
  BY <1>7 DEF NoRequest
<1> QED BY <1>2, <1>4, <1>6, <1>7, <1>8 DEF left

LEMMA StatusIs ==
  ASSUME ViewTypes, GetStatus
  PROVE  /\ request # NoRequest /\ request.pc = "sent"
         /\ request' \in Request /\ request' # NoRequest
         /\ request'.pc = "status" /\ request'.of = request.of
         /\ request'.after = request.after /\ request'.final = request.final
         /\ request'.page = request.page /\ request'.cut = request.cut
         /\ request'.live = LiveOf(request.of)
<1>1. request.pc = "sent" /\ request # NoRequest /\ request \in Request
  BY RequestIs DEF GetStatus, ViewTypes
<1>2. LiveOf(request.of) \in BOOLEAN /\ "status" \in {"sent", "status", "read"}
  BY Zenon DEF LiveOf
<1>3. request' = [request EXCEPT !.pc = "status", !.live = LiveOf(request.of)]
  BY DEF GetStatus
<1>4. request' \in Request
  BY <1>1, <1>2, <1>3 DEF Request
<1>5. /\ request'.pc = "status" /\ request'.of = request.of
      /\ request'.after = request.after /\ request'.final = request.final
      /\ request'.page = request.page /\ request'.cut = request.cut
      /\ request'.live = LiveOf(request.of)
  BY <1>1, <1>3 DEF Request
<1> QED BY <1>1, <1>4, <1>5 DEF NoRequest

\* The types, and what a fetch in flight is about, under a step of the panel.
LEMMA BaseStep ==
  ASSUME ViewTypes, Asks, rows \subseteq Row, ViewNext, UNCHANGED stored
  PROVE  (ViewTypes /\ Asks)'
<1>1. ASSUME NEW c \in {"old", "this"}, Mount(c) PROVE (ViewTypes /\ Asks)'
  <2>1. /\ shown' = c /\ enabled' = TRUE /\ polling' = TRUE
        /\ UNCHANGED <<isLive, isLoading, upsets>>
        /\ Reset(c, {}) /\ FetchNow(c) /\ shown = "none"
    BY <1>1 DEF Mount
  <2>2. polling' \in BOOLEAN /\ isLoading' \in BOOLEAN /\ last # "this"
    BY <2>1 DEF ViewTypes, Asks
  <2> QED BY <2>1, <2>2, ResetTypes
<1>2. CASE Return
  <2>1. /\ enabled' = TRUE /\ polling' = TRUE /\ shown' = shown
        /\ UNCHANGED <<isLive, upsets>>
        /\ Reset(shown, {}) /\ FetchNow(shown) /\ shown \in {"old", "this"}
        /\ isLoading' = (isLoading \/ last # shown)
    BY <1>2 DEF Return, ViewTypes, Panels
  <2>2. isLoading' \in BOOLEAN
    BY <2>1, Zenon
  <2>3. polling' \in BOOLEAN /\ (last = "this" => shown = "this")
    BY <2>1 DEF Asks
  <2> QED BY <2>1, <2>2, <2>3, ResetTypes
<1>3. CASE Switch
  <2>1. CASE enabled
    <3> DEFINE g == IF isLive \/ isLoading THEN {} ELSE {"stopped"}
    <3>1. /\ shown' = "this" /\ Reset("this", g) /\ FetchNow("this")
          /\ polling' = (isLive \/ isLoading) /\ isLoading' = TRUE
          /\ UNCHANGED <<enabled, isLive, upsets>>
      BY <1>3, <2>1 DEF Switch
    <3>2. polling' \in BOOLEAN
      BY <3>1, Zenon
    <3>3. /\ g \in SUBSET {"stopped"} /\ isLoading' \in BOOLEAN
          /\ enabled' = TRUE
      BY <2>1, <3>1 DEF ViewTypes
    <3> HIDE DEF g
    <3> QED BY <3>1, <3>2, <3>3, ResetTypes
  <2>2. CASE ~enabled
    <3>1. /\ shown = "old" /\ shown' = "this"
          /\ UNCHANGED <<enabled, isLive, upsets, refVars, polling, isLoading,
                         request, gapVars>>
      BY <1>3, <2>2 DEF Switch
    <3> QED BY <2>2, <3>1 DEF ViewTypes, Asks, Panels, refVars, gapVars
  <2> QED BY <2>1, <2>2 DEF ViewTypes
<1>4. CASE Leave
  <2>1. /\ enabled' = FALSE /\ polling' = FALSE
        /\ UNCHANGED <<shown, refVars, isLive, isLoading, request, gapVars>>
    BY <1>4 DEF Leave
  <2>2. upsets' \in 0 .. MaxUpset
    BY <1>4, ViewAssumption DEF Leave, ViewTypes
  <2>3. ViewTypes'
    BY <2>1, <2>2 DEF ViewTypes, refVars, gapVars
  <2> QED BY <2>1, <2>3 DEF Asks, refVars
<1>5. CASE Poll
  <2>1. /\ polling /\ request = NoRequest /\ shown \in {"old", "this"}
        /\ shown = last /\ cursor \in {0} \cup Second
        /\ request' = Sent(shown, cursor, FALSE)
        /\ UNCHANGED <<shown, enabled, refVars, polling, isLive, isLoading,
                       gapVars, upsets>>
    BY <1>5 DEF Poll, ViewTypes, Asks, Panels
  <2>2. Asked(request', shown, cursor)
    BY <2>1, SentIs
  <2> QED BY <2>1, <2>2 DEF ViewTypes, Asks, Asked, refVars, gapVars
<1>6. CASE GetStatus
  <2>1. UNCHANGED <<shown, enabled, refVars, polling, isLive, isLoading,
                    gapVars, upsets>>
    BY <1>6 DEF GetStatus
  <2> QED BY <1>6, <2>1, StatusIs DEF ViewTypes, Asks, refVars, gapVars
<1>7. CASE GetLogs
  <2>1. /\ UNCHANGED <<shown, enabled, refVars, polling, isLive, isLoading,
                       gapVars, upsets>>
        /\ request # NoRequest
    BY <1>7, RequestIs DEF GetLogs
  <2> QED BY <1>7, <2>1, AnswerIs DEF ViewTypes, Asks, refVars, gapVars
<1>8. CASE Receive
  <2>1. /\ request # NoRequest /\ cursor' = NextCursor(request.page, cursor)
        /\ view' \in Seq(Record) /\ drip' \in Seq(Record)
        /\ first' \in BOOLEAN /\ (first' => view' = << >> /\ drip' = << >>)
        /\ isLive' = request.live /\ isLoading' = FALSE
        /\ LastFetch(request.live, cursor') /\ gaps' = GapsAfter(TRUE)
        /\ cut' = cut \cup (IF request.of = last THEN request.cut ELSE {})
        /\ UNCHANGED <<shown, enabled, last, late, upsets>>
    BY <1>8, ReceiveIs
  <2>2. /\ request.live \in BOOLEAN /\ request.cut \subseteq Line
        /\ request.page \in Seq(Record) /\ cursor \in {0} \cup Second
    BY <2>1, RequestIs DEF ViewTypes
  <2>3. cursor' \in {0} \cup Second
    BY <2>1, <2>2, CursorType
  <2>4. /\ polling' \in BOOLEAN /\ (polling' => polling)
        /\ \/ request' = NoRequest
           \/ /\ polling /\ polling' = polling /\ shown \in {"old", "this"}
              /\ shown = last /\ Asked(request', shown, cursor')
    BY <2>1, <2>2, <2>3, LastFetchIs
  <2>5. gaps' \subseteq {"stale", "stopped", "full"} /\ cut' \subseteq Line
    BY <2>1, <2>2, GapsAre DEF ViewTypes
  <2>6. isLive' \in BOOLEAN /\ isLoading' \in BOOLEAN
    BY <2>1, <2>2
  <2>7. ViewTypes'
    BY <2>1, <2>3, <2>4, <2>5, <2>6 DEF ViewTypes, Asked
  <2> QED BY <2>1, <2>4, <2>7 DEF Asks, Asked
<1>9. CASE ReceiveError
  <2>1. /\ isLoading' = FALSE /\ LastFetch(isLive, cursor)
        /\ gaps' = GapsAfter(FALSE) /\ upsets' = upsets + 1
        /\ upsets < MaxUpset /\ request # NoRequest
        /\ UNCHANGED <<shown, enabled, refVars, isLive, late, cut>>
    BY <1>9 DEF ReceiveError
  <2>2. /\ polling' \in BOOLEAN /\ (polling' => polling)
        /\ \/ request' = NoRequest
           \/ /\ polling /\ polling' = polling /\ shown \in {"old", "this"}
              /\ shown = last /\ Asked(request', shown, cursor)
    BY <2>1, LastFetchIs DEF ViewTypes
  <2>3. gaps' \subseteq {"stale", "stopped", "full"}
    BY <2>1, GapsAre
  <2>4. upsets' \in 0 .. MaxUpset
    BY <2>1, ViewAssumption DEF ViewTypes
  <2> QED BY <2>1, <2>2, <2>3, <2>4 DEF ViewTypes, Asks, Asked, refVars
<1>10. CASE Drip
  <2>1. /\ drip # << >> /\ view' = Append(view, Head(drip)) /\ drip' = Tail(drip)
        /\ UNCHANGED <<shown, enabled, last, cursor, first, polling, isLive,
                       isLoading, request, gapVars, upsets>>
    BY <1>10 DEF Drip
  <2>2. view' \in Seq(Record) /\ drip' \in Seq(Record)
    BY <2>1, DripKeepsPanel DEF ViewTypes
  <2>3. ~first
    BY <2>1 DEF Asks
  <2>4. request # NoRequest => request.after = cursor
    BY <2>1 DEF Asks
  <2> QED BY <2>1, <2>2, <2>3, <2>4 DEF ViewTypes, Asks, gapVars
<1> QED BY <1>1, <1>2, <1>3, <1>4, <1>5, <1>6, <1>7, <1>8, <1>9, <1>10
        DEF ViewNext

-----------------------------------------------------------------------------
(* What the panel holds. *)

Panel == view \o drip
Page == IF request.pc = "read" THEN request.page ELSE << >>
Answered == ToSet(Panel) \cup ToSet(Page)

\* What is on the panel and what is about to be, in the order of time.
InOrder ==
  /\ Sorted(Panel) /\ \A r \in ToSet(Panel) : r.stamp <= cursor
  /\ Sorted(Page) /\ \A r \in ToSet(Page) : r.stamp > request.after

\* A line has one row, wherever copies of it are.
OneRowEach ==
  /\ \A r, t \in Answered \cup rows \cup OldRows : r.line = t.line => r = t
  /\ \A r \in Answered : r \in OldRows \/ r.line \in Kept \cup lost

LEMMA RowsMove ==
  ASSUME LogInv, [DeliveryNext]_deliveryVars
  PROVE  /\ \A r \in rows' :
              r \notin rows => r \in Row /\ r.line \notin Kept \cup lost
         /\ Kept \cup lost \subseteq Kept' \cup lost'
         /\ settled => settled'
<1>1. [Channel!Next]_(Channel!vars)
  BY DeliverySteps
<1>2. Kept \cup lost \subseteq Kept' \cup lost'
  <2>1. Kept = {r.line : r \in rows} /\ Kept' = {r.line : r \in rows}'
    BY DEF Kept
  <2> QED BY <1>1, <2>1 DEF Channel!Next, Channel!vars, Channel!Write,
             Channel!Deliver, Channel!Lose, Channel!Expire
<1>3. rows' \subseteq rows \/ \E s \in sends : CreateLogs(s)
  BY DEF deliveryVars, DeliveryNext, LoggerStep, SendStep, NewStreamLogger,
         TimerFires, AutoFlush, Close, CloseFlush, Write, SaveLogsRaw, SendFails,
         SendTimesOut, CleanupLogs, WorkerEnds, Tick, Settle
<1>4. ASSUME NEW s \in sends, CreateLogs(s)
      PROVE  \A r \in rows' :
               r \notin rows => r \in Row /\ r.line \notin Kept \cup lost
  <2>1. rows' = rows \cup RowsOfBatch(s)
    BY <1>4 DEF CreateLogs
  <2>2. \A r \in RowsOfBatch(s) : r.line \in s.lines
    BY LinesOfBatch
  <2>3. s.lines \cap (Kept \cup lost) = {}
    BY WhereLinesAre DEF LogInv, Apart
  <2>4. rows' \subseteq Row
    BY DeliverySteps DEF LogInv, LogTypes
  <2> SUFFICES ASSUME NEW r \in rows', r \notin rows
               PROVE  r \in Row /\ r.line \notin Kept \cup lost
    OBVIOUS
  <2>5. r \in RowsOfBatch(s)
    BY <2>1
  <2> QED BY <2>2, <2>3, <2>4, <2>5
<1>5. settled => settled'
  BY DEF deliveryVars, DeliveryNext, LoggerStep, SendStep, NewStreamLogger,
         TimerFires, AutoFlush, Close, CloseFlush, Write, SaveLogsRaw, SendFails,
         SendTimesOut, CreateLogs, CleanupLogs, WorkerEnds, Tick, Settle
<1>6. \A r \in rows' : r \notin rows => r \in Row /\ r.line \notin Kept \cup lost
  BY <1>3, <1>4, Zenon
<1> QED BY <1>2, <1>5, <1>6

\* What a step of the panel does to the panel and to the answer under way.
PanelKept ==
  /\ \/ Panel' = Panel /\ cursor' = cursor
     \/ Panel' = << >> /\ cursor' = 0
  /\ \/ Page' = << >>
     \/ Page' = Page /\ request' = request

LEMMA RequestKept ==
  ASSUME request' = request
  PROVE  Page' = Page
  BY DEF Page

LEMMA NotRead ==
  request.pc # "read" => Page = << >>
  BY DEF Page

LEMMA ResetPanel ==
  ASSUME ViewTypes, Asks, NEW c \in {"old", "this"},
         NEW g \in SUBSET {"stopped"}, Reset(c, g), FetchNow(c)
  PROVE  PanelKept
<1>1. /\ \/ last = c /\ UNCHANGED <<view, drip, cursor, first, gapVars>>
         \/ /\ last # c /\ view' = << >> /\ drip' = << >>
            /\ cursor' = 0 /\ first' = TRUE
            /\ late' = {} /\ cut' = {} /\ gaps' = g
      /\ \/ request = NoRequest /\ request' = Sent(c, cursor', FALSE)
         \/ request # NoRequest /\ request' = request
      /\ cursor' \in {0} \cup Second
  BY ResetIs
<1>2. << >> \o << >> = << >>
  BY EmptyPage, ConcatEmptySeq
<1>3. \/ Panel' = Panel /\ cursor' = cursor
      \/ Panel' = << >> /\ cursor' = 0
  BY <1>1, <1>2 DEF Panel
<1>4. Asked(Sent(c, cursor', FALSE), c, cursor')
  BY <1>1, SentIs
<1>5. request' = Sent(c, cursor', FALSE) => Page' = << >>
  BY <1>4 DEF Page, Asked
<1>6. request' = request => Page' = Page
  BY RequestKept
<1> QED BY <1>1, <1>3, <1>5, <1>6 DEF PanelKept

LEMMA PanelMoves ==
  ASSUME ViewTypes, Asks, rows \subseteq Row, ViewNext
  PROVE  \/ PanelKept
         \/ /\ Panel' = Panel /\ cursor' = cursor
            /\ Page' \in PagesOf(Matching(request.of, request.after))
            /\ request'.after = request.after
         \/ /\ request.pc = "read" /\ request # NoRequest
            /\ Panel' = Panel \o Page /\ cursor' = NextCursor(Page, cursor)
            /\ Page' = << >>
<1>1. ASSUME NEW c \in {"old", "this"}, Mount(c) PROVE PanelKept
  <2>1. Reset(c, {}) /\ FetchNow(c) /\ {} \in SUBSET {"stopped"}
    BY <1>1 DEF Mount
  <2> QED BY <2>1, ResetPanel
<1>2. CASE Return
  <2>1. /\ Reset(shown, {}) /\ FetchNow(shown) /\ {} \in SUBSET {"stopped"}
        /\ shown \in {"old", "this"}
    BY <1>2 DEF Return, ViewTypes, Panels
  <2> QED BY <2>1, ResetPanel
<1>3. CASE Switch
  <2>1. CASE enabled
    <3> DEFINE g == IF isLive \/ isLoading THEN {} ELSE {"stopped"}
    <3>1. g \in SUBSET {"stopped"} /\ Reset("this", g) /\ FetchNow("this")
      BY <1>3, <2>1 DEF Switch
    <3> HIDE DEF g
    <3> QED BY <3>1, ResetPanel
  <2>2. CASE ~enabled
    <3>1. UNCHANGED <<refVars, request>>
      BY <1>3, <2>2 DEF Switch
    <3> QED BY <3>1, RequestKept DEF PanelKept, refVars, Panel
  <2> QED BY <2>1, <2>2
<1>4. CASE Leave
  BY <1>4, RequestKept DEF Leave, PanelKept, refVars, Panel
<1>5. CASE Poll
  <2>1. /\ shown \in {"old", "this"} /\ cursor \in {0} \cup Second
        /\ request' = Sent(shown, cursor, FALSE) /\ UNCHANGED refVars
    BY <1>5 DEF Poll, ViewTypes, Asks, Panels
  <2>2. Asked(request', shown, cursor)
    BY <2>1, SentIs
  <2> QED BY <2>1, <2>2 DEF PanelKept, refVars, Panel, Page, Asked
<1>6. CASE GetStatus
  <2>1. UNCHANGED refVars /\ request'.pc = "status"
    BY <1>6, StatusIs DEF GetStatus
  <2> QED BY <2>1 DEF PanelKept, refVars, Panel, Page
<1>7. CASE GetLogs
  <2>1. UNCHANGED refVars
    BY <1>7 DEF GetLogs
  <2>2. PICK page \in PagesOf(Matching(request.of, request.after)) :
          /\ request'.pc = "read" /\ request'.page = page
          /\ request'.after = request.after
    BY <1>7, AnswerIs
  <2> QED BY <2>1, <2>2 DEF refVars, Panel, Page
<1>8. CASE Receive
  <2>1. /\ request # NoRequest /\ request.pc = "read"
        /\ cursor' = NextCursor(request.page, cursor)
        /\ view' \o drip' = (view \o drip) \o request.page
        /\ LastFetch(request.live, cursor')
    BY <1>8, ReceiveIs
  <2>2. /\ request.live \in BOOLEAN /\ request.page \in Seq(Record)
        /\ cursor \in {0} \cup Second
    BY <2>1, RequestIs DEF ViewTypes
  <2>3. cursor' \in {0} \cup Second
    BY <2>1, <2>2, CursorType
  <2>4. request' = NoRequest \/ Asked(request', shown, cursor')
    BY <2>1, <2>2, <2>3, LastFetchIs
  <2>5. Page' = << >>
    BY <2>4 DEF Page, NoRequest, Asked
  <2> QED BY <2>1, <2>5 DEF Panel, Page
<1>9. CASE ReceiveError
  <2>1. LastFetch(isLive, cursor) /\ UNCHANGED refVars /\ request # NoRequest
    BY <1>9 DEF ReceiveError
  <2>2. request' = NoRequest \/ Asked(request', shown, cursor)
    BY <2>1, LastFetchIs DEF ViewTypes
  <2>3. Page' = << >>
    BY <2>2 DEF Page, NoRequest, Asked
  <2> QED BY <2>1, <2>3 DEF PanelKept, refVars, Panel
<1>10. CASE Drip
  <2>1. /\ drip # << >> /\ view' = Append(view, Head(drip)) /\ drip' = Tail(drip)
        /\ UNCHANGED <<cursor, request>>
    BY <1>10 DEF Drip
  <2>2. Panel' = Panel
    BY <2>1, DripKeepsPanel DEF ViewTypes, Panel
  <2> QED BY <2>1, <2>2, RequestKept DEF PanelKept
<1> QED BY <1>1, <1>2, <1>3, <1>4, <1>5, <1>6, <1>7, <1>8, <1>9, <1>10
        DEF ViewNext

\* A step of the model is one of the delivery, with what the histories make of
\* it, or one of the panel.
Delivers ==
  /\ [DeliveryNext]_deliveryVars
  /\ UNCHANGED <<shown, enabled, refVars, polling, isLive, isLoading, request,
                 cut, gaps, upsets>>
  /\ late' = late \cup LinesOf({r \in rows' \ rows :
                                  last = "this" /\ r.stamp <= Seen})
  /\ stored' = IF settled' /\ ~settled THEN LinesOf(rows) ELSE stored

LEMMA StepsAre ==
  ASSUME [Next]_vars
  PROVE  Delivers \/ (ViewNext /\ UNCHANGED <<deliveryVars, stored>>)
<1>1. CASE UNCHANGED vars
  <2>1. rows' \ rows = {} /\ ~(settled' /\ ~settled)
    BY <1>1 DEF vars, deliveryVars
  <2>2. LinesOf({r \in rows' \ rows : last = "this" /\ r.stamp <= Seen}) = {}
    BY <2>1 DEF LinesOf
  <2> QED BY <1>1, <2>1, <2>2 DEF vars, viewVars, gapVars, Delivers
<1> QED BY <1>1 DEF Next, Delivers

LEMMA DeliveryBase ==
  ASSUME LogInv, ViewTypes, Asks, Delivers
  PROVE  (LogInv /\ ViewTypes /\ Asks)'
<1>1. LogInv'
  BY DeliverySteps DEF Delivers
<1>2. rows \subseteq Row /\ rows' \subseteq Row
  BY <1>1 DEF LogInv, LogTypes
<1>3. \A R \in SUBSET Row : LinesOf(R) \subseteq Line
  BY DEF LinesOf, Row
<1>4. /\ {r \in rows' \ rows : last = "this" /\ r.stamp <= Seen} \in SUBSET Row
      /\ rows \in SUBSET Row
  BY <1>2
<1>5. late' \subseteq Line /\ stored' \subseteq Line
  BY <1>3, <1>4 DEF Delivers, ViewTypes
<1>6. ViewTypes'
  BY <1>5 DEF Delivers, ViewTypes, refVars
<1> QED BY <1>1, <1>6 DEF Delivers, Asks, refVars

LEMMA BaseAlways == Spec => [](LogInv /\ ViewTypes /\ Asks)
<1>1. Init => LogInv /\ ViewTypes /\ Asks
  BY LogInit, InitBase
<1>2. (LogInv /\ ViewTypes /\ Asks) /\ [Next]_vars => (LogInv /\ ViewTypes /\ Asks)'
  <2> SUFFICES ASSUME LogInv, ViewTypes, Asks, [Next]_vars
               PROVE  (LogInv /\ ViewTypes /\ Asks)'
    OBVIOUS
  <2>1. CASE Delivers
    BY <2>1, DeliveryBase
  <2>2. CASE ViewNext /\ UNCHANGED <<deliveryVars, stored>>
    <3>1. LogInv'
      BY <2>2, DeliverySteps
    <3>2. rows \subseteq Row
      BY DEF LogInv, LogTypes
    <3> QED BY <2>2, <3>1, <3>2, BaseStep
  <2> QED BY <2>1, <2>2, StepsAre
<1> QED BY <1>1, <1>2, PTL DEF Spec

LEMMA PanelTypes ==
  ASSUME ViewTypes
  PROVE  /\ Panel \in Seq(Record) /\ Page \in Seq(Record)
         /\ Answered \subseteq Record
         /\ OnPanel = Lines(Panel)
<1>1. view \in Seq(Record) /\ drip \in Seq(Record) /\ Page \in Seq(Record)
  BY RequestIs, EmptyPage DEF ViewTypes, Page
<1>2. Panel \in Seq(Record) /\ Lines(Panel) = OnPanel
  BY <1>1, Joined DEF Panel, OnPanel
<1>3. \A q \in Seq(Record) : ToSet(q) \subseteq Record
  <2> SUFFICES ASSUME NEW q \in Seq(Record) PROVE ToSet(q) \subseteq Record
    OBVIOUS
  <2>1. DOMAIN q = 1 .. Len(q) /\ \A i \in 1 .. Len(q) : q[i] \in Record
    BY LenProperties, ElementOfSeq
  <2> QED BY <2>1 DEF ToSet
<1> QED BY <1>1, <1>2, <1>3 DEF Answered

LEMMA InitTold == ASSUME Init PROVE InOrder /\ OneRowEach
<1>1. Panel = << >> /\ Page = << >>
  <2>1. << >> \o << >> = << >>
    BY EmptyPage, ConcatEmptySeq
  <2> QED BY <2>1 DEF Init, Panel, Page, NoRequest
<1>2. InOrder
  BY <1>1, EmptyPage DEF InOrder
<1>3. rows = {} /\ Answered = {}
  BY <1>1, EmptyPage DEF Init, DeliveryInit, Answered
<1> QED BY <1>2, <1>3, ViewAssumption DEF OneRowEach

LEMMA DeliveryTold ==
  ASSUME LogInv, ViewTypes, InOrder, OneRowEach, Delivers
  PROVE  (InOrder /\ OneRowEach)'
<1>1. /\ request' = request /\ view' = view /\ drip' = drip /\ cursor' = cursor
      /\ [DeliveryNext]_deliveryVars
  BY DEF Delivers, refVars
<1>2. Panel' = Panel /\ Page' = Page /\ Answered' = Answered
  BY <1>1 DEF Panel, Page, Answered
<1>3. InOrder'
  BY <1>1, <1>2 DEF InOrder
<1>4. /\ \A r \in rows' : r \notin rows => r \in Row /\ r.line \notin Kept \cup lost
      /\ Kept \cup lost \subseteq Kept' \cup lost'
      /\ \A r, t \in rows' : r.line = t.line => r = t
  BY <1>1, RowsMove, DeliverySteps DEF LogInv, Apart
<1>5. /\ \A t \in OldRows : t.line \notin Line
      /\ \A r \in Row : r.line \in Line
  BY ViewAssumption DEF Row
<1>6. ASSUME NEW r \in rows', NEW t \in Answered \cup OldRows, r.line = t.line
      PROVE  r = t
  <2>1. CASE r \in rows
    BY <1>6, <2>1 DEF OneRowEach
  <2>2. CASE r \notin rows
    <3>1. r.line \in Line /\ r.line \notin Kept \cup lost
      BY <1>4, <1>5, <2>2
    <3>2. t \in OldRows \/ t.line \in Kept \cup lost
      BY DEF OneRowEach
    <3> QED BY <1>5, <1>6, <3>1, <3>2
  <2> QED BY <2>1, <2>2
<1>7. \A r, t \in Answered \cup OldRows : r.line = t.line => r = t
  BY DEF OneRowEach
<1>8. OneRowEach'
  BY <1>2, <1>4, <1>6, <1>7 DEF OneRowEach
<1> QED BY <1>3, <1>8

LEMMA ViewTold ==
  ASSUME LogInv, ViewTypes, Asks, InOrder, OneRowEach,
         ViewNext, UNCHANGED <<deliveryVars, stored>>
  PROVE  (InOrder /\ OneRowEach)'
<1>1. /\ rows' = rows /\ Kept' = Kept /\ lost' = lost /\ rows \subseteq Row
      /\ \A r \in rows : r.line \in Kept
  BY WhereLinesAre DEF deliveryVars, Kept, LogInv, LogTypes
<1>2. /\ Panel \in Seq(Record) /\ Page \in Seq(Record)
      /\ Answered \subseteq Record
  BY PanelTypes
<1>3. Answered' \subseteq Answered \cup rows \cup OldRows => OneRowEach'
  BY <1>1 DEF OneRowEach
<1>4. CASE PanelKept
  <2>1. /\ ToSet(Panel') = ToSet(Panel)' /\ ToSet(Page') = ToSet(Page)'
    BY DEF ToSet
  <2>2. Answered' \subseteq Answered
    BY <1>4, <2>1, EmptyPage DEF PanelKept, Answered
  <2>3. InOrder'
    BY <1>4, EmptyPage DEF PanelKept, InOrder
  <2> QED BY <1>3, <2>2, <2>3
<1>5. ASSUME Panel' = Panel, cursor' = cursor,
             Page' \in PagesOf(Matching(request.of, request.after)),
             request'.after = request.after
      PROVE  (InOrder /\ OneRowEach)'
  <2> DEFINE R == Matching(request.of, request.after)
  <2>1. /\ R \subseteq rows \cup OldRows /\ R \in SUBSET Record
        /\ \A r \in R : r.stamp > request.after
    BY <1>1 DEF Matching, RowsOf, Record
  <2> HIDE DEF R
  <2>2. /\ Page' \in Seq(Record) /\ ToSet(Page') \subseteq R
        /\ \A i, j \in DOMAIN Page' :
             i < j => Page'[i].stamp <= Page'[j].stamp /\ Page'[i] # Page'[j]
    BY <1>5, <2>1, PagesAre DEF R
  <2>3. \A i \in DOMAIN Page' : Page'[i] \in rows \cup OldRows
    BY <2>1, <2>2 DEF ToSet
  <2>4. Sorted(Page')
    BY <2>2, <2>3 DEF Sorted, OneRowEach
  <2>5. InOrder'
    BY <1>5, <2>1, <2>2, <2>4 DEF InOrder
  <2>6. Answered' \subseteq Answered \cup rows \cup OldRows
    BY <1>5, <2>1, <2>2 DEF Answered
  <2> QED BY <1>3, <2>5, <2>6
<1>6. ASSUME request.pc = "read", request # NoRequest, Panel' = Panel \o Page,
             cursor' = NextCursor(Page, cursor), Page' = << >>
      PROVE  (InOrder /\ OneRowEach)'
  <2>1. Panel = << >> \/ request.after = cursor
    <3>1. << >> \o << >> = << >>
      BY EmptyPage, ConcatEmptySeq
    <3> QED BY <1>6, <3>1 DEF Asks, Panel
  <2>2. \A r \in ToSet(Panel), t \in ToSet(Page) :
          r.stamp <= t.stamp /\ r.line # t.line
    <3> SUFFICES ASSUME NEW r \in ToSet(Panel), NEW t \in ToSet(Page)
                 PROVE  r.stamp <= t.stamp /\ r.line # t.line
      OBVIOUS
    <3>1. request.after = cursor
      BY <2>1, EmptyPage
    <3>2. r.stamp <= cursor /\ t.stamp > cursor
      BY <3>1 DEF InOrder
    <3>3. /\ r \in Record /\ t \in Record /\ cursor \in Int
          /\ r \in Answered /\ t \in Answered
      BY <1>2 DEF Answered, ViewTypes, Second
    <3>4. r.stamp < t.stamp
      BY <3>2, <3>3, Stamps
    <3> QED BY <3>3, <3>4, Stamps DEF OneRowEach
  <2>3. /\ Sorted(Panel') /\ ToSet(Panel') = ToSet(Panel) \cup ToSet(Page)
    BY <1>2, <1>6, <2>2, Joined DEF InOrder
  <2>4. \A r \in ToSet(Panel) \cup ToSet(Page) : r.stamp <= cursor'
    <3>1. CASE Page = << >>
      BY <1>6, <3>1, EmptyPage DEF InOrder, NextCursor
    <3>2. CASE Page # << >>
      <4>1. /\ Last(Page) \in ToSet(Page) /\ cursor' = Last(Page).stamp
            /\ \A r \in ToSet(Page) : r.stamp <= Last(Page).stamp
        BY <1>2, <1>6, <3>2, CursorIs DEF InOrder, ViewTypes
      <4> QED BY <2>2, <4>1
    <3> QED BY <3>1, <3>2
  <2>5. InOrder'
    BY <1>6, <2>3, <2>4, EmptyPage DEF InOrder
  <2>6. Answered' \subseteq Answered
    BY <1>6, <2>3, EmptyPage DEF Answered
  <2> QED BY <1>3, <2>5, <2>6
<1> QED BY <1>1, <1>4, <1>5, <1>6, PanelMoves

LEMMA ToldAlways == Spec => [](InOrder /\ OneRowEach)
<1>1. Init => InOrder /\ OneRowEach
  BY InitTold
<1>2. /\ LogInv /\ ViewTypes /\ Asks
      /\ InOrder /\ OneRowEach
      /\ [Next]_vars
      => (InOrder /\ OneRowEach)'
  BY StepsAre, DeliveryTold, ViewTold
<1> QED BY <1>1, <1>2, BaseAlways, PTL DEF Spec

\* Whatever overlaps, the panel shows lines by time and none of them twice, for
\* any page size and any number of lines (use-deployment-logs.ts:84-103).
THEOREM PanelIsInOrder == Spec => []ShownInOrder
<1>1. InOrder => ShownInOrder
  BY DEF InOrder, Sorted, Panel, ShownInOrder
<1> QED BY <1>1, ToldAlways, PTL

-----------------------------------------------------------------------------
(* What the cursor has passed. *)

Known == OnPanel \cup late \cup cut

\* Rows that the cursor has passed, and those that it will pass when the
\* answer under way is received.
Passed ==
  last = "this" /\ "stale" \notin gaps =>
    \A r \in rows : r.stamp <= cursor => r.line \in Known

Passing ==
  request.pc = "read" /\ request.of = "this" =>
    \A r \in rows :
      r.stamp > request.after /\ r.stamp <= NextCursor(request.page, request.after)
      => r.line \in Lines(request.page) \cup late \cup request.cut

LEMMA PassedIsKnown == Passed => SkippedAreKnown
  BY DEF Passed, Known, SkippedAreKnown, LinesOf

LEMMA LastIs ==
  ASSUME NEW q \in Seq(Record), q # << >>
  PROVE  Last(q) \in ToSet(q) /\ \A d : NextCursor(q, d) = Last(q).stamp
<1>1. Len(q) \in DOMAIN q
  BY EmptySeq, LenProperties
<1> QED BY <1>1 DEF Last, ToSet, NextCursor

LEMMA SkipsKept ==
  ASSUME Passed, Passing, UNCHANGED <<rows, last, cursor>>, Known \subseteq Known',
         gaps \subseteq gaps', late \subseteq late',
         request' = request \/ request'.pc # "read"
  PROVE  (Passed /\ Passing)'
<1>1. Passed'
  BY DEF Passed
<1>2. Passing'
  BY DEF Passing
<1> QED BY <1>1, <1>2

LEMMA DeliverySkips ==
  ASSUME LogInv, ViewTypes, Asks, InOrder, Passed, Passing, Delivers
  PROVE  (Passed /\ Passing)'
<1>1. /\ UNCHANGED <<last, cursor, request, cut, gaps, view, drip>>
      /\ late' = late \cup LinesOf({r \in rows' \ rows :
                                      last = "this" /\ r.stamp <= Seen})
  BY DEF Delivers, refVars
<1>2. Known \subseteq Known' /\ late \subseteq late'
  BY <1>1 DEF Known, OnPanel, Lines
<1>3. \A r \in rows' : r \notin rows /\ last = "this" /\ r.stamp <= Seen
                         => r.line \in late' /\ r.line \in Known'
  BY <1>1 DEF LinesOf, Known
<1>4. last = "this" /\ request.pc = "read" /\ request.of = last
        => request.after = cursor
  BY RequestIs DEF Asks
<1>5. last = "this" => \A r \in rows' : r.stamp <= cursor => r.stamp <= Seen
  <2> SUFFICES ASSUME last = "this", NEW r \in rows', r.stamp <= cursor
               PROVE  r.stamp <= Seen
    OBVIOUS
  <2>1. CASE request.pc = "read" /\ request.of = last /\ request.page # << >>
    <3>1. /\ Seen = Last(request.page).stamp
          /\ Last(request.page) \in ToSet(request.page)
      <4>1. /\ request.page \in Seq(Record) /\ Sorted(request.page)
            /\ cursor \in {0} \cup Second
        BY <2>1, RequestIs DEF InOrder, Page, ViewTypes
      <4> QED BY <2>1, <4>1, CursorIs DEF Seen
    <3>2. Seen > cursor
      BY <1>4, <2>1, <3>1 DEF InOrder, Page
    <3>3. Seen \in Int /\ cursor \in Int /\ r.stamp \in Int
      <4>1. Last(request.page) \in Record
        BY <2>1, <3>1, PanelTypes DEF Page, Answered
      <4>2. rows' \subseteq Record
        BY DeliverySteps DEF Delivers, LogInv, LogTypes, Record
      <4> QED BY <3>1, <4>1, <4>2, Stamps DEF ViewTypes, Second
    <3> QED BY <3>2, <3>3
  <2>2. CASE ~(request.pc = "read" /\ request.of = last /\ request.page # << >>)
    BY <2>2 DEF Seen, NextCursor
  <2> QED BY <2>1, <2>2
<1>6. Passed'
  BY <1>1, <1>2, <1>3, <1>5 DEF Passed
<1>7. Passing'
  <2>1. request.pc = "read" /\ request.of = "this" => last = "this"
    BY RequestIs DEF Asks
  <2>2. request.pc = "read" /\ request.of = "this" =>
          Seen = NextCursor(request.page, request.after)
    BY <1>4, <2>1 DEF Seen
  <2> QED BY <1>1, <1>2, <1>3, <2>1, <2>2 DEF Passing
<1> QED BY <1>6, <1>7

LEMMA ResetSkips ==
  ASSUME LogInv, ViewTypes, Asks, Passed, Passing, NEW c \in {"old", "this"},
         NEW g \in SUBSET {"stopped"}, Reset(c, g), FetchNow(c),
         last = "this" => c = "this", rows' = rows
  PROVE  (Passed /\ Passing)'
<1>1. /\ last' = c
      /\ \/ last = c /\ UNCHANGED <<view, drip, cursor, first, gapVars>>
         \/ /\ last # c /\ view' = << >> /\ drip' = << >>
            /\ cursor' = 0 /\ first' = TRUE
            /\ late' = {} /\ cut' = {} /\ gaps' = g
      /\ \/ request = NoRequest /\ request' = Sent(c, cursor', FALSE)
         \/ request # NoRequest /\ request' = request
      /\ cursor' \in {0} \cup Second
  BY ResetIs
<1>2. request' = request \/ request'.pc # "read"
  <2>1. Asked(Sent(c, cursor', FALSE), c, cursor')
    BY <1>1, SentIs
  <2> QED BY <1>1, <2>1 DEF Asked
<1>3. CASE last = c
  <2>1. UNCHANGED <<last, cursor, late, gaps>> /\ Known' = Known
    BY <1>1, <1>3 DEF gapVars, Known, OnPanel, Lines
  <2> QED BY <1>2, <2>1, SkipsKept
<1>4. CASE last # c
  <2>1. rows \subseteq Record
    BY DEF LogInv, LogTypes, Record
  <2>2. Passed'
    BY <1>1, <1>4, <2>1, Stamps DEF Passed
  <2>3. ~(request'.pc = "read" /\ request'.of = "this")
    BY <1>2, <1>4, RequestIs DEF Asks
  <2> QED BY <2>2, <2>3 DEF Passing
<1> QED BY <1>3, <1>4

LEMMA DripLines ==
  ASSUME ViewTypes, Drip
  PROVE  OnPanel' = OnPanel
<1>1. /\ drip # << >> /\ view' = Append(view, Head(drip)) /\ drip' = Tail(drip)
      /\ view \in Seq(Record) /\ drip \in Seq(Record)
  BY DEF Drip, ViewTypes
<1>2. /\ view' \in Seq(Record) /\ drip' \in Seq(Record)
      /\ view' \o drip' = view \o drip
  BY <1>1, DripKeepsPanel
<1>3. /\ Lines(view' \o drip') = Lines(view') \cup Lines(drip')
      /\ Lines(view \o drip) = Lines(view) \cup Lines(drip)
  BY <1>1, <1>2, Joined
<1>4. OnPanel' = Lines(view') \cup Lines(drip')
  BY DEF OnPanel, Lines
<1> QED BY <1>2, <1>3, <1>4 DEF OnPanel

LEMMA ReceiveLines ==
  ASSUME ViewTypes, Asks, Receive
  PROVE  /\ OnPanel' = OnPanel \cup Lines(request.page)
         /\ request' = NoRequest \/ Asked(request', shown, cursor')
<1>1. /\ request # NoRequest /\ cursor' = NextCursor(request.page, cursor)
      /\ view' \o drip' = (view \o drip) \o request.page
      /\ view' \in Seq(Record) /\ drip' \in Seq(Record)
      /\ LastFetch(request.live, cursor')
  BY ReceiveIs
<1>2. /\ request.live \in BOOLEAN /\ request.page \in Seq(Record)
      /\ view \in Seq(Record) /\ drip \in Seq(Record)
      /\ cursor \in {0} \cup Second
  BY <1>1, RequestIs DEF ViewTypes
<1>3. cursor' \in {0} \cup Second
  BY <1>1, <1>2, CursorType
<1>4. request' = NoRequest \/ Asked(request', shown, cursor')
  BY <1>1, <1>2, <1>3, LastFetchIs
<1>5. /\ Lines(view' \o drip') = Lines(view') \cup Lines(drip')
      /\ Lines(view \o drip) = Lines(view) \cup Lines(drip)
      /\ view \o drip \in Seq(Record)
  BY <1>1, <1>2, Joined
<1>6. Lines((view \o drip) \o request.page)
        = Lines(view \o drip) \cup Lines(request.page)
  BY <1>2, <1>5, Joined
<1>7. OnPanel' = Lines(view') \cup Lines(drip')
  BY DEF OnPanel, Lines
<1> QED BY <1>1, <1>4, <1>5, <1>6, <1>7 DEF OnPanel

LEMMA ViewSkips ==
  ASSUME LogInv, ViewTypes, Asks, InOrder, OneRowEach, Passed, Passing,
         ViewNext, UNCHANGED <<deliveryVars, stored>>
  PROVE  (Passed /\ Passing)'
<1>1. /\ rows' = rows /\ rows \subseteq Row
  BY DEF deliveryVars, LogInv, LogTypes
<1>2. ASSUME NEW c \in {"old", "this"}, Mount(c) PROVE (Passed /\ Passing)'
  <2>1. Reset(c, {}) /\ FetchNow(c) /\ {} \in SUBSET {"stopped"} /\ last # "this"
    BY <1>2 DEF Mount, Asks
  <2> QED BY <1>1, <2>1, ResetSkips
<1>3. CASE Return
  <2>1. /\ Reset(shown, {}) /\ FetchNow(shown) /\ {} \in SUBSET {"stopped"}
        /\ shown \in {"old", "this"} /\ (last = "this" => shown = "this")
    BY <1>3 DEF Return, ViewTypes, Panels, Asks
  <2> QED BY <1>1, <2>1, ResetSkips
<1>4. CASE Switch
  <2>1. CASE enabled
    <3> DEFINE g == IF isLive \/ isLoading THEN {} ELSE {"stopped"}
    <3>1. g \in SUBSET {"stopped"} /\ Reset("this", g) /\ FetchNow("this")
      BY <1>4, <2>1 DEF Switch
    <3> HIDE DEF g
    <3> QED BY <1>1, <3>1, ResetSkips
  <2>2. CASE ~enabled
    <3>1. UNCHANGED <<refVars, gapVars, request>>
      BY <1>4, <2>2 DEF Switch
    <3>2. UNCHANGED <<last, cursor, late, gaps>> /\ Known' = Known
      BY <3>1 DEF refVars, gapVars, Known, OnPanel, Lines
    <3> QED BY <1>1, <3>1, <3>2, SkipsKept
  <2> QED BY <2>1, <2>2
<1>5. CASE Leave \/ Poll \/ GetStatus
  <2>1. UNCHANGED <<refVars, gapVars>>
    BY <1>5 DEF Leave, Poll, GetStatus
  <2>2. UNCHANGED <<last, cursor, late, gaps>> /\ Known' = Known
    BY <2>1 DEF refVars, gapVars, Known, OnPanel, Lines
  <2>3. request' = request \/ request'.pc # "read"
    <3>1. CASE Leave
      BY <3>1 DEF Leave
    <3>2. CASE Poll
      <4>1. /\ shown \in {"old", "this"} /\ cursor \in {0} \cup Second
            /\ request' = Sent(shown, cursor, FALSE)
        BY <3>2 DEF Poll, ViewTypes, Asks, Panels
      <4> QED BY <4>1, SentIs DEF Asked
    <3>3. CASE GetStatus
      BY <3>3, StatusIs
    <3> QED BY <1>5, <3>1, <3>2, <3>3
  <2> QED BY <1>1, <2>2, <2>3, SkipsKept
<1>6. CASE GetLogs
  <2> DEFINE R == Matching(request.of, request.after)
  <2>1. UNCHANGED <<refVars, gapVars>> /\ request # NoRequest
    BY <1>6, RequestIs DEF GetLogs
  <2>2. UNCHANGED <<last, cursor, late, gaps>> /\ Known' = Known
    BY <2>1 DEF refVars, gapVars, Known, OnPanel, Lines
  <2>3. Passed'
    BY <1>1, <2>2 DEF Passed
  <2>4. PICK page \in PagesOf(R) :
          /\ request'.of = request.of /\ request'.after = request.after
          /\ request'.page = page
          /\ request'.cut = LinesOf({r \in R \ ToSet(page) :
                                       r.stamp = NextCursor(page, 0)}) \cap Line
    BY <1>1, <1>6, AnswerIs
  <2>5. /\ R \in SUBSET Record
        /\ request.of = "this" => \A r \in rows : r.stamp > request.after => r \in R
    BY <1>1 DEF Matching, RowsOf, Record
  <2> HIDE DEF R
  <2>6. /\ page \in Seq(Record) /\ ToSet(page) \subseteq R
        /\ \A r \in R \ ToSet(page) :
             page # << >> /\ \A t \in ToSet(page) : t.stamp <= r.stamp
    BY <2>4, <2>5, PagesAre
  <2>8. ASSUME request.of = "this", NEW r \in rows, r.stamp > request.after,
               r.stamp <= NextCursor(page, request.after)
        PROVE  r.line \in Lines(page) \cup late \cup request'.cut
    <3>1. r \in R /\ r.line \in Line
      BY <1>1, <2>5, <2>8 DEF Row
    <3>2. CASE r \in ToSet(page)
      BY <3>2, LinesAre
    <3>3. CASE r \notin ToSet(page)
      <4>1. page # << >> /\ \A t \in ToSet(page) : t.stamp <= r.stamp
        BY <2>6, <3>1, <3>3
      <4>2. /\ Last(page) \in ToSet(page)
            /\ \A d : NextCursor(page, d) = Last(page).stamp
        BY <2>6, <4>1, LastIs
      <4>3. Last(page).stamp \in Int /\ r.stamp \in Int
        BY <1>1, <2>5, <2>6, <4>2, Stamps DEF Record
      <4>4. r.stamp = NextCursor(page, 0)
        BY <2>8, <4>1, <4>2, <4>3
      <4> QED BY <2>4, <3>1, <3>3, <4>4 DEF LinesOf
    <3> QED BY <3>2, <3>3
  <2>9. Passing'
    BY <1>1, <2>2, <2>4, <2>8 DEF Passing
  <2> QED BY <2>3, <2>9
<1>7. CASE Receive
  <2>1. /\ request # NoRequest /\ request.pc = "read"
        /\ cursor' = NextCursor(request.page, cursor) /\ gaps' = GapsAfter(TRUE)
        /\ cut' = cut \cup (IF request.of = last THEN request.cut ELSE {})
        /\ UNCHANGED <<last, late>>
    BY <1>7, ReceiveIs
  <2>2. request.of \in {"old", "this"} /\ cursor \in {0} \cup Second
    BY <2>1, RequestIs DEF ViewTypes
  <2>5. request'.pc # "read"
    BY <1>7, ReceiveLines DEF NoRequest, Asked
  <2>6. OnPanel' = OnPanel \cup Lines(request.page)
    BY <1>7, ReceiveLines
  <2>7. gaps \subseteq gaps'
    BY <2>1, GapsAre
  <2>8. CASE request.of = "this"
    <3>1. last = "this" /\ request.after = cursor
      BY <2>1, <2>8 DEF Asks
    <3>2. Known' = Known \cup Lines(request.page) \cup request.cut
      BY <2>1, <2>6, <2>8, <3>1 DEF Known
    <3>3. Passed'
      <4>1. SUFFICES ASSUME "stale" \notin gaps, NEW r \in rows, r.stamp <= cursor'
                     PROVE  r.line \in Known'
        BY <1>1, <2>7 DEF Passed
      <4>2. r.stamp \in Int /\ cursor \in Int
        BY <1>1, <2>2, Stamps DEF Record, Second
      <4>3. CASE r.stamp <= cursor
        BY <3>1, <3>2, <4>1, <4>3 DEF Passed
      <4>4. CASE r.stamp > cursor
        <5>1. r.line \in Lines(request.page) \cup late \cup request.cut
          BY <2>1, <2>8, <3>1, <4>1, <4>4 DEF Passing
        <5> QED BY <3>2, <5>1 DEF Known
      <4> QED BY <4>2, <4>3, <4>4
    <3> QED BY <2>5, <3>3 DEF Passing
  <2>9. CASE request.of = "old" /\ last = "this"
    <3>1. CASE request.page = << >>
      <4>1. cursor' = cursor /\ Known \subseteq Known'
        BY <2>1, <2>6, <3>1 DEF NextCursor, Known
      <4> QED BY <1>1, <2>1, <2>5, <2>7, <4>1, SkipsKept
    <3>2. CASE request.page # << >>
      <4>1. "stale" \in gaps'
        BY <2>1, <2>9, <3>2 DEF GapsAfter
      <4> QED BY <2>5, <4>1 DEF Passed, Passing
    <3> QED BY <3>1, <3>2
  <2>10. CASE last # "this"
    BY <2>1, <2>5, <2>10 DEF Passed, Passing
  <2> QED BY <2>2, <2>8, <2>9, <2>10
<1>8. CASE ReceiveError
  <2>1. /\ LastFetch(isLive, cursor) /\ gaps' = GapsAfter(FALSE)
        /\ request # NoRequest /\ UNCHANGED <<refVars, late, cut>>
    BY <1>8 DEF ReceiveError
  <2>2. request' = NoRequest \/ Asked(request', shown, cursor)
    BY <2>1, LastFetchIs DEF ViewTypes
  <2>3. request'.pc # "read"
    BY <2>2 DEF NoRequest, Asked
  <2>4. gaps \subseteq gaps'
    BY <2>1, GapsAre
  <2>5. UNCHANGED <<last, cursor, late>> /\ Known' = Known
    BY <2>1 DEF refVars, Known, OnPanel, Lines
  <2> QED BY <1>1, <2>3, <2>4, <2>5, SkipsKept
<1>9. CASE Drip
  <2>1. UNCHANGED <<last, cursor, gapVars, request>>
    BY <1>9 DEF Drip
  <2>2. OnPanel' = OnPanel
    BY <1>9, DripLines
  <2>3. UNCHANGED <<late, gaps>> /\ Known' = Known
    BY <2>1, <2>2 DEF gapVars, Known
  <2> QED BY <1>1, <2>1, <2>3, SkipsKept
<1> QED BY <1>2, <1>3, <1>4, <1>5, <1>6, <1>7, <1>8, <1>9 DEF ViewNext

LEMMA InitSkips == ASSUME Init PROVE Passed /\ Passing
  BY DEF Init, DeliveryInit, Passed, Passing, NoRequest

LEMMA SkipsAlways == Spec => [](Passed /\ Passing)
<1>1. Init => Passed /\ Passing
  BY InitSkips
<1>2. /\ LogInv /\ ViewTypes /\ Asks
      /\ InOrder /\ OneRowEach
      /\ Passed /\ Passing
      /\ [Next]_vars
      => (Passed /\ Passing)'
  BY StepsAre, DeliverySkips, ViewSkips
<1> QED BY <1>1, <1>2, BaseAlways, ToldAlways, PTL DEF Spec

\* A line before the cursor that is not on the panel was stored late, or cut at
\* the end of a page (use-deployment-logs.ts:84-117,
\* deployments.service.ts:229-243).
THEOREM WhatIsSkippedIsKnown == Spec => []SkippedAreKnown
  BY SkipsAlways, PassedIsKnown, PTL

-----------------------------------------------------------------------------
(* What an answer about a settled deployment tells. *)

\* What was in the table when the deployment settled and still is.
Left == stored \cap Kept

Told == request.pc \in {"status", "read"} /\ request.of = "this" /\ ~request.live

Ends ==
  /\ settled => stored \subseteq Kept \cup lost
  /\ Told => settled
  /\ /\ Told /\ request.pc = "read"
     /\ Len(request.page) # PageSize /\ "stale" \notin gaps
     => Left \subseteq Known \cup Lines(request.page) \cup request.cut
  /\ last = "this" /\ enabled /\ ~polling /\ gaps = {}
     => settled /\ Left \subseteq Known

LEMMA EndsStopped == Ends => StoppedSawAll
<1>1. Kept = LinesOf(rows)
  BY DEF Kept, LinesOf
<1> QED BY <1>1 DEF Ends, Left, Known, StoppedSawAll

LEMMA InitEnds == ASSUME Init PROVE Ends
  BY DEF Init, DeliveryInit, Ends, Told, NoRequest

LEMMA DeliveryEnds ==
  ASSUME LogInv, Ends, Delivers
  PROVE  Ends'
<1>1. /\ UNCHANGED <<last, enabled, polling, request, cut, gaps, view, drip>>
      /\ late \subseteq late'
      /\ stored' = IF settled' /\ ~settled THEN LinesOf(rows) ELSE stored
  BY DEF Delivers, refVars
<1>2. Known \subseteq Known' /\ Told' = Told
  BY <1>1 DEF Known, OnPanel, Lines, Told
<1>3. /\ \A r \in rows' : r \notin rows => r \in Row /\ r.line \notin Kept \cup lost
      /\ Kept \cup lost \subseteq Kept' \cup lost'
      /\ settled => settled'
  BY RowsMove DEF Delivers
<1>4. Kept = LinesOf(rows)
  BY DEF Kept, LinesOf
<1>5. settled => stored' = stored /\ Left' \subseteq Left
  <2> SUFFICES ASSUME settled PROVE stored' = stored /\ Left' \subseteq Left
    OBVIOUS
  <2>1. stored' = stored /\ stored \subseteq Kept \cup lost
    BY <1>1 DEF Ends
  <2>2. \A n \in Kept' : n \in Kept \cup lost => n \in Kept
    BY <1>3, WhereLinesAre
  <2> QED BY <2>1, <2>2 DEF Left
<1>6. settled' => stored' \subseteq Kept' \cup lost'
  BY <1>1, <1>3, <1>4 DEF Ends
<1>7. Told' => settled'
  BY <1>2, <1>3 DEF Ends
<1>8. Told' /\ request'.pc = "read" /\ Len(request'.page) # PageSize
        /\ "stale" \notin gaps'
      => Left' \subseteq Known' \cup Lines(request'.page) \cup request'.cut
  BY <1>1, <1>2, <1>5 DEF Ends
<1>9. last' = "this" /\ enabled' /\ ~polling' /\ gaps' = {}
      => settled' /\ Left' \subseteq Known'
  BY <1>1, <1>2, <1>3, <1>5 DEF Ends
<1> QED BY <1>6, <1>7, <1>8, <1>9 DEF Ends, Lines

\* A step of the panel that forgets nothing of what it knows.
LEMMA EndsKept ==
  ASSUME Ends, UNCHANGED <<rows, lost, settled, stored>>, Known \subseteq Known',
         gaps \subseteq gaps',
         request' = request \/ request'.pc \notin {"status", "read"},
         /\ last' = "this" /\ enabled' /\ ~polling' /\ gaps' = {}
         => last = "this" /\ enabled /\ ~polling
  PROVE  Ends'
<1>1. Kept' = Kept /\ Left' = Left
  BY DEF Kept, Left
<1>2. Told' => Told /\ request' = request
  BY DEF Told
<1> QED BY <1>1, <1>2 DEF Ends, Lines

LEMMA ResetEnds ==
  ASSUME ViewTypes, Asks, Ends, NEW c \in {"old", "this"},
         NEW g \in SUBSET {"stopped"}, Reset(c, g), FetchNow(c),
         last = "this" => c = "this",
         UNCHANGED <<rows, lost, settled, stored>>,
         polling' \/ gaps' # {}
  PROVE  Ends'
<1>1. /\ last' = c
      /\ \/ last = c /\ UNCHANGED <<view, drip, cursor, first, gapVars>>
         \/ /\ last # c /\ view' = << >> /\ drip' = << >>
            /\ cursor' = 0 /\ first' = TRUE
            /\ late' = {} /\ cut' = {} /\ gaps' = g
      /\ \/ request = NoRequest /\ request' = Sent(c, cursor', FALSE)
         \/ request # NoRequest /\ request' = request
      /\ cursor' \in {0} \cup Second
  BY ResetIs
<1>2. request' = request \/ request'.pc \notin {"status", "read"}
  <2>1. Asked(Sent(c, cursor', FALSE), c, cursor')
    BY <1>1, SentIs
  <2> QED BY <1>1, <2>1 DEF Asked
<1>3. CASE last = c
  <2>1. gaps' = gaps /\ Known' = Known
    BY <1>1, <1>3 DEF gapVars, Known, OnPanel, Lines
  <2> QED BY <1>2, <2>1, EndsKept
<1>4. CASE last # c
  <2>1. ~Told'
    BY <1>2, <1>4, RequestIs DEF Asks, Told
  <2>2. Kept' = Kept
    BY DEF Kept
  <2> QED BY <2>1, <2>2 DEF Ends
<1> QED BY <1>3, <1>4

LEMMA AnswerEnds ==
  ASSUME LogInv, ViewTypes, Asks, Passed, Ends, GetLogs,
         UNCHANGED <<deliveryVars, stored>>
  PROVE  Ends'
<1> DEFINE R == Matching(request.of, request.after)
<1>1. /\ UNCHANGED <<enabled, polling, refVars, gapVars>> /\ request # NoRequest
      /\ request.pc = "status"
  BY RequestIs DEF GetLogs
<1>2. /\ UNCHANGED <<last, enabled, polling, gaps, rows, lost, settled, stored>>
      /\ Known' = Known /\ Kept' = Kept /\ Left' = Left
      /\ rows \subseteq Row /\ rows \subseteq Record
  BY <1>1 DEF refVars, gapVars, Known, OnPanel, Lines, deliveryVars, Kept, Left,
              LogInv, LogTypes, Record
<1>3. PICK page \in PagesOf(R) :
        /\ request'.of = request.of /\ request'.live = request.live
        /\ request'.page = page
  BY <1>2, AnswerIs
<1>4. Told' => Told
  BY <1>1, <1>3 DEF Told
<1>5. /\ R \in SUBSET Record
      /\ request.of = "this" => \A r \in rows : r.stamp > request.after => r \in R
  BY <1>2 DEF Matching, RowsOf, Record
<1> HIDE DEF R
<1>6. Len(page) # PageSize => R \subseteq ToSet(page)
  BY <1>3, <1>5, PagesAre
<1>7. ASSUME request.of = "this", Len(page) # PageSize, "stale" \notin gaps
      PROVE  Kept \subseteq Known \cup Lines(page)
  <2> SUFFICES ASSUME NEW r \in rows PROVE r.line \in Known \cup Lines(page)
    BY WhereLinesAre
  <2>1. last = "this" /\ request.after = cursor
    BY <1>1, <1>7 DEF Asks
  <2>2. r.stamp \in Int /\ cursor \in Int
    BY <1>2, Stamps DEF ViewTypes, Second
  <2>3. CASE r.stamp <= cursor
    BY <1>7, <2>1, <2>3 DEF Passed
  <2>4. CASE r.stamp > cursor
    BY <1>5, <1>6, <1>7, <2>1, <2>4, LinesAre
  <2> QED BY <2>2, <2>3, <2>4
<1>8. Told' => Told /\ request.of = "this"
  BY <1>4 DEF Told
<1>9. /\ settled' => stored' \subseteq Kept' \cup lost'
      /\ Told' => settled'
      /\ last' = "this" /\ enabled' /\ ~polling' /\ gaps' = {}
         => settled' /\ Left' \subseteq Known'
  BY <1>2, <1>4 DEF Ends
<1>10. Told' /\ request'.pc = "read" /\ Len(request'.page) # PageSize
         /\ "stale" \notin gaps'
       => Left' \subseteq Known' \cup Lines(request'.page) \cup request'.cut
  BY <1>2, <1>3, <1>7, <1>8 DEF Left
<1> QED BY <1>9, <1>10 DEF Ends, Lines

LEMMA ReceiveEnds ==
  ASSUME ViewTypes, Asks, Ends, Receive, UNCHANGED <<deliveryVars, stored>>
  PROVE  Ends'
<1>1. /\ request # NoRequest /\ request.pc = "read"
      /\ LastFetch(request.live, cursor') /\ gaps' = GapsAfter(TRUE)
      /\ cut' = cut \cup (IF request.of = last THEN request.cut ELSE {})
      /\ UNCHANGED <<last, late, enabled>>
  BY ReceiveIs
<1>2. /\ OnPanel' = OnPanel \cup Lines(request.page)
      /\ request'.pc \notin {"status", "read"}
  BY ReceiveLines DEF NoRequest, Asked
<1>3. /\ UNCHANGED <<rows, lost, settled, stored>>
      /\ Kept' = Kept /\ Left' = Left
  BY DEF deliveryVars, Kept, Left
<1>4. gaps \subseteq gaps' /\ Known \subseteq Known'
  BY <1>1, <1>2, GapsAre DEF Known
<1>5. CASE request.final
  <2>1. ASSUME last = "this", gaps' = {}
        PROVE  settled /\ Left \subseteq Known'
    <3>1. /\ request.of = "this" /\ ~request.live
          /\ Len(request.page) # PageSize /\ "stale" \notin gaps
      BY <1>1, <1>5, <2>1 DEF GapsAfter
    <3>2. settled /\ Left \subseteq Known \cup Lines(request.page) \cup request.cut
      BY <1>1, <3>1 DEF Ends, Told
    <3>3. Known' = Known \cup Lines(request.page) \cup request.cut
      BY <1>1, <1>2, <2>1, <3>1 DEF Known
    <3> QED BY <3>2, <3>3
  <2> QED BY <1>1, <1>2, <1>3, <2>1 DEF Ends, Told
<1>6. CASE ~request.final
  <2>1. polling' = polling
    BY <1>1, <1>6 DEF LastFetch
  <2> QED BY <1>1, <1>2, <1>3, <1>4, <2>1, EndsKept
<1> QED BY <1>5, <1>6

LEMMA ViewEnds ==
  ASSUME LogInv, ViewTypes, Asks, Passed, Ends,
         ViewNext, UNCHANGED <<deliveryVars, stored>>
  PROVE  Ends'
<1>1. UNCHANGED <<rows, lost, settled, stored>>
  BY DEF deliveryVars
<1>2. ASSUME NEW c \in {"old", "this"}, Mount(c) PROVE Ends'
  <2>1. /\ Reset(c, {}) /\ FetchNow(c) /\ {} \in SUBSET {"stopped"} /\ last # "this"
        /\ polling' = TRUE
    BY <1>2 DEF Mount, Asks
  <2> QED BY <1>1, <2>1, ResetEnds
<1>3. CASE Return
  <2>1. /\ Reset(shown, {}) /\ FetchNow(shown) /\ {} \in SUBSET {"stopped"}
        /\ shown \in {"old", "this"} /\ (last = "this" => shown = "this")
        /\ polling' = TRUE
    BY <1>3 DEF Return, ViewTypes, Panels, Asks
  <2> QED BY <1>1, <2>1, ResetEnds
<1>4. CASE Switch
  <2>1. CASE enabled
    <3> DEFINE g == IF isLive \/ isLoading THEN {} ELSE {"stopped"}
    <3>1. /\ g \in SUBSET {"stopped"} /\ Reset("this", g) /\ FetchNow("this")
          /\ polling' = (isLive \/ isLoading) /\ last = "old"
      BY <1>4, <2>1 DEF Switch, Asks
    <3>2. gaps' = g
      BY <3>1 DEF Reset
    <3>3. polling' \/ gaps' # {}
      BY <3>1, <3>2
    <3> HIDE DEF g
    <3> QED BY <1>1, <3>1, <3>3, ResetEnds
  <2>2. CASE ~enabled
    <3>1. UNCHANGED <<refVars, gapVars, request, enabled, polling>>
      BY <1>4, <2>2 DEF Switch
    <3>2. UNCHANGED <<last, gaps>> /\ Known' = Known
      BY <3>1 DEF refVars, gapVars, Known, OnPanel, Lines
    <3> QED BY <1>1, <3>1, <3>2, EndsKept
  <2> QED BY <2>1, <2>2
<1>5. CASE Leave
  <2>1. UNCHANGED <<refVars, gapVars, request>> /\ enabled' = FALSE
    BY <1>5 DEF Leave
  <2>2. gaps' = gaps /\ Known' = Known
    BY <2>1 DEF refVars, gapVars, Known, OnPanel, Lines
  <2> QED BY <1>1, <2>1, <2>2, EndsKept
<1>6. CASE Poll
  <2>1. /\ shown \in {"old", "this"} /\ cursor \in {0} \cup Second
        /\ request' = Sent(shown, cursor, FALSE)
        /\ UNCHANGED <<refVars, gapVars, enabled, polling>>
    BY <1>6 DEF Poll, ViewTypes, Asks, Panels
  <2>2. UNCHANGED <<last, gaps>> /\ Known' = Known
    BY <2>1 DEF refVars, gapVars, Known, OnPanel, Lines
  <2>3. request'.pc \notin {"status", "read"}
    BY <2>1, SentIs DEF Asked
  <2> QED BY <1>1, <2>1, <2>2, <2>3, EndsKept
<1>7. CASE GetStatus
  <2>1. UNCHANGED <<refVars, gapVars, enabled, polling>>
    BY <1>7 DEF GetStatus
  <2>2. UNCHANGED <<last, gaps>> /\ Known' = Known
    BY <2>1 DEF refVars, gapVars, Known, OnPanel, Lines
  <2>3. Kept' = Kept /\ Left' = Left
    BY <1>1 DEF Kept, Left
  <2>4. request'.pc = "status" /\ (Told' => settled)
    BY <1>7, StatusIs DEF Told, LiveOf
  <2> QED BY <1>1, <2>1, <2>2, <2>3, <2>4 DEF Ends
<1>8. CASE GetLogs
  BY <1>8, AnswerEnds
<1>9. CASE Receive
  BY <1>9, ReceiveEnds
<1>10. CASE ReceiveError
  <2>1. /\ LastFetch(isLive, cursor) /\ gaps' = GapsAfter(FALSE)
        /\ request # NoRequest /\ UNCHANGED <<enabled, refVars, late, cut>>
    BY <1>10 DEF ReceiveError
  <2>2. request' = NoRequest \/ Asked(request', shown, cursor)
    BY <2>1, LastFetchIs DEF ViewTypes
  <2>3. request'.pc \notin {"status", "read"}
    BY <2>2 DEF NoRequest, Asked
  <2>4. gaps \subseteq gaps' /\ (request.final => gaps' # {})
    BY <2>1, GapsAre DEF GapsAfter
  <2>5. last' = last /\ Known' = Known
    BY <2>1 DEF refVars, Known, OnPanel, Lines
  <2>6. ~request.final => polling' = polling
    BY <2>1 DEF LastFetch
  <2>7. /\ last' = "this" /\ enabled' /\ ~polling' /\ gaps' = {}
        => last = "this" /\ enabled /\ ~polling
    BY <2>1, <2>4, <2>5, <2>6
  <2> QED BY <1>1, <2>3, <2>4, <2>5, <2>7, EndsKept
<1>11. CASE Drip
  <2>1. UNCHANGED <<last, enabled, polling, gapVars, request>>
    BY <1>11 DEF Drip
  <2>2. OnPanel' = OnPanel
    BY <1>11, DripLines
  <2>3. gaps' = gaps /\ Known' = Known
    BY <2>1, <2>2 DEF gapVars, Known
  <2> QED BY <1>1, <2>1, <2>3, EndsKept
<1> QED BY <1>2, <1>3, <1>4, <1>5, <1>6, <1>7, <1>8, <1>9, <1>10, <1>11
        DEF ViewNext

\* A panel that stopped polling with no gap has every line that was in the table
\* when the deployment settled, or knows why not: the status is read before the
\* rows, and the last fetch starts at the cursor (use-deployment-logs.ts:159-168,
\* deployments.service.ts:217-257).
THEOREM LastFetchSawAll == Spec => []StoppedSawAll
<1>1. Init => Ends
  BY InitEnds
<1>2. /\ LogInv /\ ViewTypes /\ Asks
      /\ Passed /\ Passing
      /\ Ends
      /\ [Next]_vars
      => Ends'
  BY StepsAre, DeliveryEnds, ViewEnds
<1> QED BY <1>1, <1>2, BaseAlways, SkipsAlways, EndsStopped, PTL DEF Spec

-----------------------------------------------------------------------------
(* Types of the loggers. *)

LoggerTypes ==
  /\ state \in [Logger -> {"new", "open", "closing", "closed"}]
  /\ ticker \in [Logger -> {"none", "wait", "fired"}]
  /\ fresh \in [Logger -> BOOLEAN]
  /\ \A l \in Logger : Len(buffer[l]) < BatchSize

LEMMA FlushTypes ==
  ASSUME LogTypes, LoggerTypes, NEW l \in Logger, NEW b, FlushLocked(l, b)
  PROVE  \A m \in Logger : Len(buffer'[m]) < BatchSize
<1>1. buffer' = [buffer EXCEPT ![l] = << >>] /\ buffer \in [Logger -> Seq(Line)]
  BY DEF FlushLocked, LogTypes
<1>2. Len(<< >>) = 0 /\ 0 < BatchSize
  BY EmptyPage, DeliveryAssumption
<1> QED BY <1>1, <1>2 DEF LoggerTypes

LEMMA LoggerTypesStep ==
  ASSUME LogTypes, LoggerTypes, [DeliveryNext]_deliveryVars
  PROVE  LoggerTypes'
<1>1. ASSUME NEW l \in Logger, NewStreamLogger(l) \/ TimerFires(l) \/ Close(l)
      PROVE  LoggerTypes'
  BY <1>1 DEF NewStreamLogger, TimerFires, Close, LoggerTypes
<1>2. ASSUME NEW l \in Logger, AutoFlush(l) PROVE LoggerTypes'
  <2>1. \A m \in Logger : Len(buffer'[m]) < BatchSize
    BY <1>2, FlushTypes DEF AutoFlush, LoggerTypes
  <2>2. fresh' = [fresh EXCEPT ![l] = FALSE] /\ fresh' \in [Logger -> BOOLEAN]
    BY <1>2 DEF AutoFlush, LoggerTypes
  <2> QED BY <1>2, <2>1, <2>2 DEF AutoFlush, LoggerTypes
<1>3. ASSUME NEW l \in Logger, CloseFlush(l) PROVE LoggerTypes'
  <2>1. \A m \in Logger : Len(buffer'[m]) < BatchSize
    BY <1>3, FlushTypes DEF CloseFlush
  <2> QED BY <1>3, <2>1 DEF CloseFlush, LoggerTypes
<1>4. ASSUME NEW l \in Logger, NEW k \in 1 .. MaxWrite, Write(l, k)
      PROVE  LoggerTypes'
  <2> DEFINE b == buffer[l] \o [i \in 1 .. k |-> logged + i]
  <2>1. CASE Len(b) >= BatchSize
    <3>1. FlushLocked(l, b) /\ fresh' = [fresh EXCEPT ![l] = TRUE]
          /\ UNCHANGED <<state, ticker>>
      BY <1>4, <2>1 DEF Write
    <3> HIDE DEF b
    <3>2. \A m \in Logger : Len(buffer'[m]) < BatchSize
      BY <3>1, FlushTypes
    <3>3. fresh' \in [Logger -> BOOLEAN]
      BY <3>1 DEF LoggerTypes
    <3> QED BY <3>1, <3>2, <3>3 DEF LoggerTypes
  <2>2. CASE ~ Len(b) >= BatchSize
    <3>1. buffer' = [buffer EXCEPT ![l] = b] /\ UNCHANGED <<state, ticker, fresh>>
          /\ logged + k <= MaxLine
      BY <1>4, <2>2 DEF Write
    <3>2. b \in Seq(Line)
      BY <3>1, NewLines DEF LogTypes
    <3> HIDE DEF b
    <3>3. Len(b) < BatchSize
      <4>1. Len(b) \in Nat /\ BatchSize \in Nat
        BY <3>2, LenProperties, DeliveryAssumption
      <4> QED BY <2>2, <4>1
    <3> QED BY <3>1, <3>3 DEF LoggerTypes, LogTypes
  <2> QED BY <2>1, <2>2
<1>5. ASSUME NEW s \in sends, SendStep(s) PROVE LoggerTypes'
  BY <1>5 DEF SendStep, SaveLogsRaw, CreateLogs, SendFails, SendTimesOut,
              loggerVars, LoggerTypes
<1>6. CASE CleanupLogs \/ Tick \/ Settle
  BY <1>6 DEF CleanupLogs, Tick, Settle, loggerVars, LoggerTypes
<1>7. CASE WorkerEnds
  <2>1. /\ state' = [l \in Logger |-> "closed"]
        /\ ticker' = [l \in Logger |-> "none"]
        /\ buffer' = [l \in Logger |-> << >>] /\ fresh' = [l \in Logger |-> FALSE]
    BY <1>7 DEF WorkerEnds
  <2>2. Len(<< >>) = 0 /\ 0 < BatchSize
    BY EmptyPage, DeliveryAssumption
  <2> QED BY <2>1, <2>2 DEF LoggerTypes
<1>8. CASE UNCHANGED deliveryVars
  BY <1>8 DEF deliveryVars, loggerVars, LoggerTypes
<1> QED BY <1>1, <1>2, <1>3, <1>4, <1>5, <1>6, <1>7, <1>8
        DEF DeliveryNext, LoggerStep

\* The loggers, the table, the panel and its fetch keep their types, and no
\* logger holds a full batch (logger.go:62-103).
THEOREM LogTypesCorrect == Spec => []TypeOK
<1>1. Init => LoggerTypes
  <2> SUFFICES ASSUME Init PROVE LoggerTypes
    OBVIOUS
  <2>1. /\ state = [l \in Logger |-> "new"] /\ buffer = [l \in Logger |-> << >>]
        /\ ticker = [l \in Logger |-> "none"] /\ fresh = [l \in Logger |-> FALSE]
    BY DEF Init, DeliveryInit
  <2>2. Len(<< >>) = 0 /\ 0 < BatchSize
    BY EmptyPage, DeliveryAssumption
  <2> QED BY <2>1, <2>2 DEF LoggerTypes
<1>2. LogInv /\ LoggerTypes /\ [Next]_vars => LoggerTypes'
  <2>1. [Next]_vars => [DeliveryNext]_deliveryVars
    BY DEF Next, vars
  <2> QED BY <2>1, LoggerTypesStep DEF LogInv
<1>3. LogInv /\ ViewTypes /\ LoggerTypes => TypeOK
  <2> SUFFICES ASSUME LogInv, ViewTypes, LoggerTypes PROVE TypeOK
    OBVIOUS
  <2>1. DeliveryTypeOK
    BY DEF LogInv, LogTypes, Batch, LoggerTypes, DeliveryTypeOK
  <2> QED BY <2>1 DEF ViewTypes, Panels, Record, TypeOK
<1> QED BY <1>1, <1>2, <1>3, BaseAlways, LinesStayApart, PTL DEF Spec

-----------------------------------------------------------------------------
(* 3. The streams of the pods. *)

USE StreamsAssumption DEF Build, None, Who, Alive

Shape == /\ spc # "idle" => sdep \in Build
         /\ spc = "entered" => sdep \in started

InHand == spc = "entered" /\ sdep \notin cancelled => sdep \in entry

Types == StreamsTypeOK /\ Shape

Followed == InHand /\ StreamsReachable /\ EndedIsSilent

-----------------------------------------------------------------------------
(* Types. *)

\* StopStreaming keeps the sets of the map in their types.
LEMMA StopTypes ==
  ASSUME Types, NEW d \in Build, StopStreaming(d)
  PROVE  /\ entry' \subseteq started' /\ cancelled' \subseteq started'
         /\ ended' \subseteq Build /\ UNCHANGED <<started, startedLate>>
  BY DEF Types, StreamsTypeOK, StopStreaming

LEMMA GotoTypes ==
  ASSUME StreamsTypeOK, NEW d \in Build, NEW p \in Build,
         NEW pc \in Alive \cup {"none", "over"}, Goto(d, p, pc)
  PROVE  stream' \in [Build -> [Build -> Alive \cup {"none", "over"}]]
  BY DEF StreamsTypeOK, Goto

\* A goroutine of streamPodLogs moves nothing but its own place, and it is
\* the only one to leave the place it was in.
LEMMA StreamStepMoves ==
  ASSUME StreamsTypeOK, NEW d \in Build, NEW p \in Build, StreamStep(d, p)
  PROVE  /\ UNCHANGED Rest
         /\ stream[d][p] \in Alive
         /\ \E pc \in Alive \cup {"over"} : Goto(d, p, pc)
  BY DEF StreamStep, Notice, Open, Disconnect, Retry

LEMMA InitTypes == StreamsInit => Types
  BY DEF StreamsInit, Types, StreamsTypeOK, Shape

LEMMA NextTypes == Types /\ [StreamsNext]_streamsVars => Types'
<1> SUFFICES ASSUME Types, [StreamsNext]_streamsVars PROVE Types'
  OBVIOUS
<1> USE DEF Types, StreamsTypeOK, Shape, podVars, mapVars
<1>1. CASE Apply
  BY <1>1 DEF Apply
<1>2. CASE Retire
  <2>1. CASE sdep > 1
    <3>1. sdep - 1 \in Build /\ StopStreaming(sdep - 1)
      BY <1>2, <2>1 DEF Retire
    <3> QED BY <1>2, <3>1, StopTypes DEF Retire
  <2>2. CASE ~(sdep > 1)
    BY <1>2, <2>2 DEF Retire
  <2> QED BY <2>1, <2>2
<1>3. CASE JobFails
  <2>1. sdep \in Build /\ StopStreaming(sdep)
    BY <1>3 DEF JobFails
  <2> QED BY <1>3, <2>1, StopTypes DEF JobFails
<1>4. CASE EnterStream
  BY <1>4 DEF EnterStream
<1>5. CASE ListPods
  BY <1>5 DEF ListPods
<1>6. CASE ListFails
  BY <1>6 DEF ListFails
<1>7. ASSUME NEW d \in Build, NEW p \in Build, StreamStep(d, p) PROVE Types'
  <2>1. UNCHANGED Rest
    BY <1>7, StreamStepMoves
  <2>2. PICK pc \in Alive \cup {"over"} : Goto(d, p, pc)
    BY <1>7, StreamStepMoves
  <2>3. stream' \in [Build -> [Build -> Alive \cup {"none", "over"}]]
    BY <2>2, GotoTypes
  <2>4. UNCHANGED <<spc, sdep, applied, pod, restarts, entry, cancelled, ended,
                    started, startedLate, teardown>>
    BY <2>1 DEF Rest
  <2> QED BY <2>3, <2>4
<1>8. ASSUME NEW p \in Build, PodStarts(p) \/ PodEnds(p) \/ PodGoes(p)
      PROVE  Types'
  <2>1. pod' \in [Build -> {"none", "running", "ended", "gone"}]
    BY <1>8 DEF PodStarts, PodEnds, PodGoes
  <2>2. restarts' \in 0 .. MaxRestart
    <3>1. restarts' = restarts \/ (restarts < MaxRestart /\ restarts' = restarts + 1)
      BY <1>8 DEF PodStarts, PodEnds, PodGoes
    <3> QED BY <3>1
  <2>3. UNCHANGED <<spc, sdep, applied, entry, cancelled, ended, started,
                    startedLate, stream, teardown>>
    BY <1>8 DEF PodStarts, PodEnds, PodGoes
  <2>4. StreamsTypeOK'
    BY <2>1, <2>2, <2>3
  <2>5. Shape'
    BY <2>3
  <2> QED BY <2>4, <2>5
<1>9. ASSUME NEW w \in Who, NEW d \in Build, StopFor(w, d) PROVE Types'
  <2>1. StopStreaming(d)
    BY <1>9 DEF StopFor
  <2>2. /\ UNCHANGED <<spc, sdep, applied, pod, restarts, stream>>
        /\ teardown' \in [Who -> Build \cup {None}]
    BY <1>9 DEF StopFor
  <2>3. StreamsTypeOK'
    BY <2>1, <2>2, StopTypes
  <2> QED BY <2>1, <2>2, <2>3, StopTypes
<1>10. ASSUME NEW w \in Who, CleanupAfter(w) PROVE Types'
  BY <1>10 DEF CleanupAfter
<1>11. CASE StopAll
  BY <1>11 DEF StopAll
<1>12. CASE UNCHANGED streamsVars
  BY <1>12 DEF streamsVars
<1> QED
  BY <1>1, <1>2, <1>3, <1>4, <1>5, <1>6, <1>7, <1>8, <1>9, <1>10, <1>11,
     <1>12 DEF StreamsNext

\* Type correctness, for every set of deployments and number of restarts.
THEOREM StreamsTypeCorrect == StreamsSpec => []StreamsTypeOK
<1>1. Types => StreamsTypeOK
  BY DEF Types
<1> QED BY <1>1, InitTypes, NextTypes, PTL DEF StreamsSpec

-----------------------------------------------------------------------------
(* Streams and contexts. *)

\* Stopping a deployment cancels whatever runs for it or is about to.
LEMMA StopFollowed ==
  ASSUME Types, Followed, NEW d \in Build, StopStreaming(d),
         UNCHANGED <<sdep, stream>>,
         spc' # "entered" \/ spc' = spc
  PROVE  Followed'
<1> USE DEF Types, StreamsTypeOK, Followed
<1>1. \A e \in Build : Running(e)' = Running(e)
  BY DEF Running
<1>2. cancelled \subseteq cancelled' /\ entry \subseteq entry' \cup cancelled'
  BY DEF StopStreaming
<1>3. ended' = ended \cup {d} /\ startedLate' = startedLate
  BY DEF StopStreaming
<1>4. InHand'
  BY <1>2 DEF InHand
<1>5. StreamsReachable'
  BY <1>1, <1>2 DEF StreamsReachable
<1>6. Running(d) \/ (spc = "entered" /\ sdep = d) => d \in cancelled'
  BY DEF StopStreaming, StreamsReachable, InHand
<1>7. EndedIsSilent'
  BY <1>1, <1>2, <1>3, <1>6 DEF EndedIsSilent
<1> QED BY <1>4, <1>5, <1>7

\* A step that starts no stream, hands none over and leaves the map alone.
LEMMA QuietFollowed ==
  ASSUME Types, Followed, UNCHANGED <<entry, cancelled, ended, startedLate>>,
         spc' # "entered" \/ UNCHANGED <<spc, sdep>>,
         \A e \in Build : Running(e)' => Running(e)
  PROVE  Followed'
  BY DEF Types, StreamsTypeOK, Followed, InHand, StreamsReachable, EndedIsSilent

LEMMA InitFollowed == StreamsInit => Followed
  BY DEF StreamsInit, Followed, InHand, StreamsReachable, EndedIsSilent, Running

LEMMA NextFollowed ==
  Types /\ Followed /\ [StreamsNext]_streamsVars => Followed'
<1> SUFFICES ASSUME Types, Followed, [StreamsNext]_streamsVars
             PROVE  Followed'
  OBVIOUS
<1> USE DEF Types, StreamsTypeOK, Shape, podVars, mapVars
<1>a. UNCHANGED stream => \A e \in Build : Running(e)' = Running(e)
  BY DEF Running
<1>1. CASE Apply
  BY <1>1, <1>a, QuietFollowed DEF Apply
<1>2. CASE Retire
  <2>1. CASE sdep > 1
    <3>1. sdep - 1 \in Build /\ StopStreaming(sdep - 1)
      BY <1>2, <2>1 DEF Retire
    <3>2. spc' # "entered" /\ UNCHANGED <<sdep, stream>>
      BY <1>2 DEF Retire
    <3> QED BY <3>1, <3>2, StopFollowed
  <2>2. CASE ~(sdep > 1)
    BY <1>2, <2>2, <1>a, QuietFollowed DEF Retire
  <2> QED BY <2>1, <2>2
<1>3. CASE JobFails
  <2>1. sdep \in Build /\ StopStreaming(sdep)
    BY <1>3 DEF JobFails
  <2>2. spc' # "entered" /\ UNCHANGED <<sdep, stream>>
    BY <1>3 DEF JobFails
  <2> QED BY <2>1, <2>2, StopFollowed
<1>4. CASE EnterStream
  <2>1. /\ entry' = entry \cup {sdep} /\ UNCHANGED <<sdep, cancelled, ended>>
        /\ startedLate' = startedLate \cup ({sdep} \cap ended)
        /\ \A e \in Build : Running(e)' = Running(e)
    BY <1>4, <1>a DEF EnterStream
  <2> QED BY <2>1 DEF Followed, InHand, StreamsReachable, EndedIsSilent
<1>5. CASE ListPods
  <2>1. \A e \in Build \ {sdep} : Running(e)' => Running(e)
    BY <1>5 DEF ListPods, Running
  <2>2. /\ spc = "entered" /\ spc' = "idle"
        /\ UNCHANGED <<sdep, entry, cancelled, ended, startedLate>>
    BY <1>5 DEF ListPods
  <2> QED BY <2>1, <2>2 DEF Followed, InHand, StreamsReachable, EndedIsSilent
<1>6. CASE ListFails
  <2>1. /\ spc' = "idle" /\ cancelled' = cancelled \cup {sdep}
        /\ UNCHANGED <<entry, ended, startedLate>>
        /\ \A e \in Build : Running(e)' = Running(e)
    BY <1>6, <1>a DEF ListFails
  <2> QED BY <2>1 DEF Followed, InHand, StreamsReachable, EndedIsSilent
<1>7. ASSUME NEW d \in Build, NEW p \in Build, StreamStep(d, p)
      PROVE  Followed'
  <2>1. UNCHANGED Rest /\ stream[d][p] \in Alive
    BY <1>7, StreamStepMoves
  <2>2. PICK pc \in Alive \cup {"over"} : Goto(d, p, pc)
    BY <1>7, StreamStepMoves
  <2>3. \A e \in Build : Running(e)' => Running(e)
    BY <2>1, <2>2 DEF Goto, Running
  <2> QED BY <2>1, <2>3, QuietFollowed DEF Rest
<1>8. ASSUME NEW p \in Build, PodStarts(p) \/ PodEnds(p) \/ PodGoes(p)
      PROVE  Followed'
  BY <1>8, <1>a, QuietFollowed DEF PodStarts, PodEnds, PodGoes
<1>9. ASSUME NEW w \in Who, NEW d \in Build, StopFor(w, d) PROVE Followed'
  BY <1>9, StopFollowed DEF StopFor
<1>10. ASSUME NEW w \in Who, CleanupAfter(w) PROVE Followed'
  BY <1>10, <1>a, QuietFollowed DEF CleanupAfter
<1>11. CASE StopAll
  <2>1. /\ spc = "idle" /\ UNCHANGED <<spc, startedLate>>
        /\ cancelled' = cancelled \cup entry /\ ended' = ended \cup entry
        /\ \A e \in Build : Running(e)' = Running(e)
    BY <1>11, <1>a DEF StopAll
  <2> QED BY <2>1 DEF Followed, InHand, StreamsReachable, EndedIsSilent
<1>12. CASE UNCHANGED streamsVars
  BY <1>12, <1>a, QuietFollowed DEF streamsVars
<1> QED
  BY <1>1, <1>2, <1>3, <1>4, <1>5, <1>6, <1>7, <1>8, <1>9, <1>10, <1>11,
     <1>12 DEF StreamsNext

LEMMA FollowedAlways == StreamsSpec => [](Types /\ Followed)
  BY InitTypes, NextTypes, InitFollowed, NextFollowed, PTL DEF StreamsSpec

\* Whoever stops or starts what: no stream that may go on is lost to the map
\* (logs.go:36-77, 175-201).
THEOREM StreamsStayReachable == StreamsSpec => []StreamsReachable
<1>1. Followed => StreamsReachable
  BY DEF Followed
<1> QED BY <1>1, FollowedAlways, PTL

\* What was stopped is followed no longer, but for contexts that are made
\* after the stop (worker.go:456-485, cleanup.go:122, project_cleanup.go:102).
THEOREM EndedStaysSilent == StreamsSpec => []EndedIsSilent
<1>1. Followed => EndedIsSilent
  BY DEF Followed
<1> QED BY <1>1, FollowedAlways, PTL
=============================================================================

----------------------------- MODULE LogChannel -----------------------------
(***************************************************************************)
(* What the worker's log path promises for the lines of one deployment: a  *)
(* line that was logged is stored once or lost once, as part of a batch,   *)
(* never both and never twice, and lines do not stay pending for ever.      *)
(***************************************************************************)
EXTENDS Integers

CONSTANT Line

VARIABLES
  pending,  \* logged, not yet stored and not yet lost
  stored,   \* in the table
  lost

vars == <<pending, stored, lost>>

Init == pending = {} /\ stored = {} /\ lost = {}

\* The owner of the logger logs new lines; blank ones are never sent.
Write(S) ==
  /\ S \cap (pending \cup stored \cup lost) = {}
  /\ pending' = pending \cup S
  /\ UNCHANGED <<stored, lost>>

Deliver(S) ==
  /\ S \subseteq pending
  /\ pending' = pending \ S
  /\ stored' = stored \cup S
  /\ UNCHANGED lost

Lose(S) ==
  /\ S \subseteq pending
  /\ pending' = pending \ S
  /\ lost' = lost \cup S
  /\ UNCHANGED stored

\* The hourly log cleanup forgets what is older than the retention.
Expire(S) ==
  /\ S \subseteq stored
  /\ stored' = stored \ S
  /\ lost' = lost \cup S
  /\ UNCHANGED pending

Next == \E S \in (SUBSET Line) \ {{}} :
          Write(S) \/ Deliver(S) \/ Lose(S) \/ Expire(S)

Leave == \E S \in (SUBSET Line) \ {{}} : Deliver(S) \/ Lose(S)

SafeSpec == Init /\ [][Next]_vars

Spec == SafeSpec /\ WF_vars(Leave)
=============================================================================

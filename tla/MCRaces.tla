------------------------------- MODULE MCRaces -------------------------------
(* What overlaps at the API while nothing fails: the requests and the worker *)
(* on the rows of a project, and the tabs of a browser on one session.  The  *)
(* two parts share no state; a behaviour explores one of them.               *)
EXTENDS MCDeployPipeline, WebSession

VARIABLE part

\* Two requests in one tab and one in the other.
MCTabOf == [r \in Call |-> IF r = 3 THEN 102 ELSE 101]

MCInit == Init /\ SessionInit /\ part \in {"pipeline", "session"}

MCNext ==
  /\ UNCHANGED part
  /\ \/ part = "pipeline" /\ Next /\ UNCHANGED sessionVars
     \/ part = "session" /\ SessionNext /\ UNCHANGED vars

MCSpec == MCInit /\ [][MCNext]_<<part, vars, sessionVars>>
=============================================================================

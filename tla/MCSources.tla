----------------------------- MODULE MCSources ------------------------------
(* Where what runs for a project comes from, in parts that share no state:  *)
(* the hosts in its ingress, the images built from its branch, the          *)
(* installation its repository is read through, and the dialog that imports *)
(* it.  A behaviour explores one of them.                                   *)
EXTENDS MCDomainRouting, ImageBuild, GitAccess, ProjectImport

VARIABLE part

\* Two names that sanitizeName maps to one.
MCRegistryOf == [p \in Repo |-> "my-app"]

MCMemberOf == [g \in Identity |-> Organization]
MCMailOf == [g \in Identity |-> IF g = "ann" THEN "u1" ELSE "u2"]

MCInit ==
  /\ Init /\ ImagesInit /\ AccessInit /\ ImportInit
  /\ MCNames
  /\ part \in {"domains", "images", "access", "import"}

MCNext ==
  /\ UNCHANGED part
  /\ \/ /\ part = "domains" /\ Next
        /\ UNCHANGED <<imageVars, accessVars, importVars>>
     \/ /\ part = "images" /\ ImagesNext
        /\ UNCHANGED <<vars, accessVars, importVars>>
     \/ /\ part = "access" /\ AccessNext
        /\ UNCHANGED <<vars, imageVars, importVars>>
     \/ /\ part = "import" /\ ImportNext
        /\ UNCHANGED <<vars, imageVars, accessVars>>

MCSpec == MCInit /\ [][MCNext]_<<part, vars, imageVars, accessVars, importVars>>
=============================================================================

--------------------------- MODULE MCDomainRouting ---------------------------
(* Two projects and three names, two of which have one ingress; and domains *)
(* in the form of the rules or in another.                                  *)
EXTENDS DomainRouting, TLC

CONSTANTS p1, p2, h1, h2

MCHostOf == [n \in Name \cup Host |-> IF n = "App.com" THEN "app.com" ELSE n]
\* sanitizeK8sName writes both "my-app" and "My-App" in lower case.
MCK8sNameOf == [n \in ProjectName |-> IF n = "My-App" THEN "my-app" ELSE n]

\* Before any rename.
MCNames == projectName = [p \in Project |-> IF p = p1 THEN "my-app" ELSE "api"]
MCDefault == [p \in Project |-> IF p = p1 THEN h1 ELSE h2]
=============================================================================

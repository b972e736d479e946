----------------------------- MODULE MCSettings -----------------------------
(* What surrounds a deployment, in parts that share no state: the domains   *)
(* of its project, the plan it is built and served by, the charts it is     *)
(* counted in, the pages that show it, and the settings of its owner; and   *)
(* how the platform comes up.  A behaviour explores one of them.            *)
EXTENDS MCDomainRouting, BuildPlan, Analytics, OwnerSettings, Startup,
        DeploymentPages

VARIABLE part

MCNode(names) ==
  [package |-> "parsed", requirements |-> FALSE, names |-> names]

\* A static site of each output directory, a server with a port variable of
\* its own, and a Python server next to a package.json that does not parse.
MCFiles ==
  {MCNode({"nuxt"}), MCNode({"vite", "vue"}), MCNode({"react-scripts"}),
   MCNode({"gatsby"}),
   [package |-> "broken", requirements |-> TRUE, names |-> {"flask"}]}

\* A part that is not explored starts in one state.
MCInit ==
  /\ Init /\ PlanInit /\ AnalyticsInit /\ OwnerInit /\ StartupInit /\ PagesInit
  /\ part \in {"domains", "plan", "charts", "owner", "startup", "pages"}
  /\ MCNames
  /\ part # "plan" => project.framework = "nuxt" /\ project.run = "none"
  /\ part # "charts" => hour = Days * DayHours
  /\ part # "owner" => config = NoConfig
  /\ part # "startup" => healthy = {}
  /\ place = ListPage

MCNext ==
  /\ UNCHANGED part
  /\ \/ /\ part = "domains" /\ Next
        /\ UNCHANGED <<planVars, analyticsVars, ownerVars, startupVars, pagesVars>>
     \/ /\ part = "plan" /\ PlanNext
        /\ UNCHANGED <<vars, analyticsVars, ownerVars, startupVars, pagesVars>>
     \/ /\ part = "charts" /\ AnalyticsNext
        /\ UNCHANGED <<vars, planVars, ownerVars, startupVars, pagesVars>>
     \/ /\ part = "owner" /\ OwnerNext
        /\ UNCHANGED <<vars, planVars, analyticsVars, startupVars, pagesVars>>
     \/ /\ part = "startup" /\ StartupNext
        /\ UNCHANGED <<vars, planVars, analyticsVars, ownerVars, pagesVars>>
     \/ /\ part = "pages" /\ PagesNext
        /\ UNCHANGED <<vars, planVars, analyticsVars, ownerVars, startupVars>>

MCVars == <<part, vars, planVars, analyticsVars, ownerVars, startupVars,
            pagesVars>>

MCFairSpec ==
  /\ MCInit /\ [][MCNext]_MCVars
  /\ WF_vars(part = "domains" /\ DomainStep)
  /\ WF_startupVars(part = "startup" /\ ServerStep)
  /\ WF_startupVars(part = "startup" /\ AgentStep)
  /\ WF_pagesVars(part = "pages" /\ TabStep)
=============================================================================

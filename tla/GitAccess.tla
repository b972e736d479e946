----------------------------- MODULE GitAccess ------------------------------
(***************************************************************************)
(* Which installation of the GitHub App a build uses.  A GitAccount row    *)
(* links one GitHub identity to one user and remembers one installation;   *)
(* the callback of GitHub's pages writes it (auth.controller.ts,           *)
(* auth.service.ts), the import dialog lists repositories through it       *)
(* (git.controller.ts), and POST /projects and POST /deployments choose    *)
(* among the user's rows (projects.service.ts, deployments.service.ts).    *)
(* GitHub itself is external: people install the App for an owner (their   *)
(* own account or an organization) and remove it; a new installation has a *)
(* new id.                                                                 *)
(***************************************************************************)
EXTENDS Integers, Sequences, FiniteSets

CONSTANTS
  User,        \* users of Code2Cloud
  Identity,    \* GitHub accounts of people; the username is the identity
  Organization,
  memberOf,    \* identity -> organizations whose installations it sees
  mailOf,      \* identity -> the user with its e-mail address
  Callback,    \* requests to /auth/github/callback that may overlap
  MaxInstall,  \* bound on installations ever made
  MaxImport,   \* bound on projects
  Nobody

ASSUME AccessAssumption ==
  /\ Identity \cap Organization = {}
  /\ memberOf \in [Identity -> SUBSET Organization]
  /\ mailOf \in [Identity -> User]
  /\ Nobody \notin User \cup Identity /\ {MaxInstall, MaxImport} \subseteq Nat

Owner == Identity \cup Organization
Install == 1 .. MaxInstall
NoInstall == 0

VARIABLES
  ownerOf,    \* installation -> the owner it was made for, in the order made
  removed,    \* installations that were removed on GitHub
  account,    \* table GitAccount: identity -> its row's user and installation
  callback,   \* what each callback in flight has in its local variables
  imported,   \* projects: <<user, owner of the repository>>
  disturbed   \* history: projects whose access was taken away by somebody

accessVars == <<ownerOf, removed, account, callback, imported, disturbed>>

Unlinked == [user |-> Nobody, installation |-> NoInstall]
NoCallback == [pc |-> "idle", identity |-> Nobody, installation |-> NoInstall,
               user |-> Nobody]

AccessInit ==
  /\ ownerOf = <<>> /\ removed = {}
  /\ account = [g \in Identity |-> Unlinked]
  /\ callback = [c \in Callback |-> NoCallback]
  /\ imported = {} /\ disturbed = {}

Live == DOMAIN ownerOf \ removed
RowsOf(u) == {g \in Identity : account[g].user = u}

\* find(acc => acc.username === gitRepoOwner) || gitAccounts[0]: the rows come
\* in no particular order, so the first may be any.
Matching(u, o) == IF o \in RowsOf(u) THEN {o} ELSE RowsOf(u)

\* getLatestCommit and the worker's token work with such an installation; with
\* any other the sha is "HEAD" or the build fails.
Reads(i, o) == i \in Live /\ ownerOf[i] = o

\* Whichever row is first, a build of the user's repository can be made.
Readable(u, o) ==
  /\ RowsOf(u) # {}
  /\ \A g \in Matching(u, o) : Reads(account[g].installation, o)

-----------------------------------------------------------------------------
(* GitHub *)

Sees(g, i) == i \in Live /\ ownerOf[i] \in {g} \cup memberOf[g]

\* A person installs the App for an owner that has it not.
InstallApp(o) ==
  /\ Len(ownerOf) < MaxInstall
  /\ \A i \in Live : ownerOf[i] # o
  /\ ownerOf' = Append(ownerOf, o)
  /\ UNCHANGED <<removed, account, callback, imported, disturbed>>

\* The webhook of the removal is only logged (webhooks.controller.ts:52-55).
RemoveApp(i) ==
  /\ i \in Live
  /\ removed' = removed \cup {i}
  /\ disturbed' = disturbed \cup {p \in imported : p[2] = ownerOf[i]}
  /\ UNCHANGED <<ownerOf, account, callback, imported>>

-----------------------------------------------------------------------------
(* GET /auth/github/callback *)

\* What a callback of identity g, under the session of user u and with
\* installation i, may take from a project: the row it is built through goes
\* to another user, or gets another owner's installation; or one more row joins
\* those that an organization's project is built through.
Disturbs(g, u, i, p) ==
  \/ g \in Matching(p[1], p[2]) /\ u \notin {p[1], Nobody}
  \/ g \in Matching(p[1], p[2]) /\ i # NoInstall /\ ownerOf[i] # p[2]
  \/ /\ p[2] \notin RowsOf(p[1]) /\ g \notin RowsOf(p[1])
     /\ u = p[1] \/ (u = Nobody /\ account[g] = Unlinked /\ mailOf[g] = p[1])

\* The code is exchanged; the installation is the one GitHub's page names, or
\* the first that the identity sees; there is none where it sees none or
\* GitHub does not answer.  The cookie, if it is valid, tells the user.
ExchangeCode(c, g, u) ==
  /\ callback[c].pc = "idle"
  /\ \E i \in {j \in Live : Sees(g, j)} \cup {NoInstall} :
       /\ callback' = [callback EXCEPT ![c] =
            [pc |-> IF u = Nobody THEN "find" ELSE "link",
             identity |-> g, installation |-> i, user |-> u]]
       /\ disturbed' = disturbed \cup {p \in imported : Disturbs(g, u, i, p)}
  /\ UNCHANGED <<ownerOf, removed, account, imported>>

\* A login: the user of the identity's row, or the one with its address, who
\* is created where there is none.
FindUser(c) ==
  /\ callback[c].pc = "find"
  /\ LET g == callback[c].identity
         u == IF account[g].user # Nobody THEN account[g].user ELSE mailOf[g]
     IN  callback' = [callback EXCEPT ![c].pc = "link", ![c].user = u]
  /\ UNCHANGED <<ownerOf, removed, account, imported, disturbed>>

\* Mutant of Upserted: the installation is always written.
UpsertedAlways(row, u, i) == [user |-> u, installation |-> i]

\* The upsert's update keeps the installation where the callback brought none.
Upserted(row, u, i) ==
  [user |-> u, installation |-> IF i = NoInstall THEN row.installation ELSE i]

Link(c) ==
  /\ callback[c].pc = "link"
  /\ LET g == callback[c].identity
         u == callback[c].user
         i == callback[c].installation
     IN  account' = [account EXCEPT ![g] = Upserted(account[g], u, i)]
  /\ callback' = [callback EXCEPT ![c] = NoCallback]
  /\ UNCHANGED <<ownerOf, removed, imported, disturbed>>

-----------------------------------------------------------------------------
(* The user's requests *)

Quiet == \A c \in Callback : callback[c].pc = "idle"

\* GET /git/repos for the account chosen in the dialog: its row is looked up
\* by user and installation, and the repositories are the installation's.
\* POST /projects then chooses a row and needs an installation in it.
Import(u, g) ==
  /\ g \in RowsOf(u) /\ account[g].installation \in Live
  /\ LET o == ownerOf[account[g].installation] IN
       /\ \E h \in Matching(u, o) : account[h].installation # NoInstall
       /\ imported' = imported \cup {<<u, o>>}
       /\ Cardinality(imported') <= MaxImport
       /\ disturbed' = IF Readable(u, o) /\ Quiet THEN disturbed \ {<<u, o>>}
                       ELSE disturbed \cup {<<u, o>>}
  /\ UNCHANGED <<ownerOf, removed, account, callback>>

CallbackStep(c) == FindUser(c) \/ Link(c)

AccessNext ==
  \/ \E o \in Owner : InstallApp(o)
  \/ \E i \in Install : RemoveApp(i)
  \/ \E c \in Callback, g \in Identity, u \in User \cup {Nobody} :
       ExchangeCode(c, g, u)
  \/ \E c \in Callback : CallbackStep(c)
  \/ \E u \in User, g \in Identity : Import(u, g)

AccessSpec == AccessInit /\ [][AccessNext]_accessVars

-----------------------------------------------------------------------------
AccessTypeOK ==
  /\ ownerOf \in Seq(Owner) /\ removed \subseteq DOMAIN ownerOf
  /\ account \in [Identity -> [user : User \cup {Nobody},
                               installation : Install \cup {NoInstall}]]
  /\ callback \in [Callback -> [pc : {"idle", "find", "link"},
                                identity : Identity \cup {Nobody},
                                installation : Install \cup {NoInstall},
                                user : User \cup {Nobody}]]
  /\ imported \subseteq User \X Owner /\ disturbed \subseteq imported

\* A project that could be built when it was imported stays so, for whichever
\* row a redeployment picks (deployments.service.ts:66-68), through logins
\* and callbacks in any order: it is lost only when the App is removed, when
\* its row's identity acts under another user or with an installation of
\* another owner, or when an organization's project gets a second row to
\* choose from (auth.service.ts:166-190, 213-262).
ProjectsStayReadable ==
  \A p \in imported \ disturbed : Readable(p[1], p[2])
=============================================================================

----------------------------- MODULE WebSession -----------------------------
(***************************************************************************)
(* The session of one user in several tabs of a browser: the cookies they  *)
(* share (apps/web/lib/token-manager.ts), the client of each tab, which    *)
(* makes one refresh for all requests that were answered 401               *)
(* (fetch-client.ts), the navigation proxy with a client of its own        *)
(* (proxy.ts), and the handlers that issue and revoke refresh tokens       *)
(* (apps/api/src/auth/auth.service.ts).                                    *)
(*                                                                         *)
(* A refresh token is numbered in the order of issue; an access token is   *)
(* good, or old once it has expired.  JavaScript runs between two answers  *)
(* without interruption in its tab, so an answer and all that the waiting  *)
(* requests of the tab make of it are one step.                            *)
(***************************************************************************)
EXTENDS Integers, FiniteSets

CONSTANTS
  Tab,
  Call,      \* requests (numbers), each made at most once
  tabOf,     \* the tab of a request
  MaxExpiry  \* bound on how often the access tokens expire

ASSUME SessionAssumption ==
  /\ Call \subseteq Nat /\ Tab \cap Call = {}
  /\ tabOf \in [Call -> Tab]
  /\ MaxExpiry \in Nat

Issued == 0 .. Cardinality(Call) + 1
NoToken == 0

VARIABLES
  access, refresh,  \* the two cookies
  page,             \* of a tab: "in" (the dashboard) or "out"
  step, kind, sent, \* of a request: where it is, what it is, its access token
  exchange,         \* POST /auth/refresh of a tab's client or of a navigation
  hash,             \* User.hashedRefreshToken, as the token it was made of
  issued,           \* refresh tokens issued so far
  expiries,
  expired,          \* the refresh tokens up to this one have expired
  left,             \* history: a logout has begun
  upset,            \* history: a failure that the code answers by a sign-out
  revoked,          \* history: a logout was carried out since the last sign-in
  overlap           \* history: it found a refresh past its check

cookieVars == <<access, refresh>>
requestVars == <<step, kind, sent>>
serverVars == <<hash, issued, revoked, overlap>>
timeVars == <<expiries, expired>>
sessionVars == <<cookieVars, page, requestVars, exchange, serverVars, timeVars,
                 left, upset>>

RequestKind == {"call", "me", "logout", "signin", "navigate"}
Client == Tab \cup Call
Idle == [pc |-> "idle", token |-> NoToken]

SessionTypeOK ==
  /\ access \in {"none", "good", "old"} /\ refresh \in 0 .. issued
  /\ access # "none" => refresh # NoToken
  /\ page \in [Tab -> {"in", "out"}]
  /\ step \in [Call -> {"new", "sent", "waiting", "retry", "answered", "done"}]
  /\ kind \in [Call -> RequestKind]
  /\ sent \in [Call -> {"none", "good", "old"}]
  /\ exchange \in [Client -> [pc : {"idle", "sent", "checked", "issued",
                                    "refused"}, token : Issued]]
  /\ issued \in Issued /\ hash \in 0 .. issued
  /\ expiries \in 0 .. MaxExpiry /\ expired \in 0 .. issued
  /\ {left, upset, revoked, overlap} \subseteq BOOLEAN

\* The user has signed in, and all tabs show the dashboard.
SessionInit ==
  /\ access = "good" /\ refresh = 1
  /\ page = [t \in Tab |-> "in"]
  /\ step = [r \in Call |-> "new"] /\ kind = [r \in Call |-> "call"]
  /\ sent = [r \in Call |-> "none"]
  /\ exchange = [x \in Client |-> Idle]
  /\ hash = 1 /\ issued = 1 /\ expiries = 0 /\ expired = NoToken
  /\ left = FALSE /\ upset = FALSE /\ revoked = FALSE /\ overlap = FALSE

-----------------------------------------------------------------------------
(* The cookies. *)

SetTokens(t) == access' = "good" /\ refresh' = t

ClearTokens == access' = "none" /\ refresh' = NoToken

\* clearTokens and the event auth:logout, which sends the tab to /auth.
SignOut(t) == ClearTokens /\ page' = [page EXCEPT ![t] = "out"]

\* The access tokens issued so far expire, fifteen minutes later: no retry and
\* no answer of a refresh takes that long.  The cookie goes with its token, or
\* a moment later.
Expire ==
  /\ access = "good" /\ expiries < MaxExpiry
  /\ \A r \in Call : step[r] # "retry"
  /\ \A x \in Client : exchange[x].pc # "issued"
  /\ expiries' = expiries + 1
  /\ access' \in {"none", "old"}
  /\ sent' = [r \in Call |-> IF sent[r] = "good" THEN "old" ELSE sent[r]]
  /\ UNCHANGED <<refresh, page, step, kind, exchange, serverVars, expired, left,
                 upset>>

\* Seven days after the refresh token of the cookie was issued, long after its
\* access token, it expires, and so do those before it.  Its cookie goes too,
\* or a moment later.
RefreshExpires ==
  /\ access # "good" /\ refresh > expired
  /\ expired' = refresh
  /\ access' = "none" /\ refresh' \in {NoToken, refresh}
  /\ UNCHANGED <<page, requestVars, exchange, serverVars, expiries, left, upset>>

-----------------------------------------------------------------------------
(* Requests of a tab. *)

Finish(r) ==
  /\ step' = [step EXCEPT ![r] = "done"]
  /\ kind' = [kind EXCEPT ![r] = "call"]
  /\ sent' = [sent EXCEPT ![r] = "none"]

\* The requests of a tab are made in some order; it does not matter which.
IsNext(r) == /\ step[r] = "new"
             /\ \A q \in Call : tabOf[q] = tabOf[r] /\ q < r => step[q] # "new"

\* The page asks the API; useUser asks /auth/me as long as there is a token.
Ask(r, k) ==
  /\ IsNext(r)
  /\ CASE k = "me" -> access # "none"
       [] k = "signin" -> page[tabOf[r]] = "out"
       [] OTHER -> page[tabOf[r]] = "in"
  /\ step' = [step EXCEPT ![r] = "sent"]
  /\ kind' = [kind EXCEPT ![r] = k]
  /\ sent' = [sent EXCEPT ![r] = IF k = "signin" THEN "none" ELSE access]
  /\ left' = (left \/ k = "logout")
  /\ UNCHANGED <<cookieVars, page, exchange, serverVars, timeVars, upset>>

\* logout: the hash goes.
Revoke ==
  /\ hash' = NoToken
  /\ revoked' = TRUE
  /\ overlap' = \E x \in Client : exchange[x].pc = "checked"
  /\ UNCHANGED issued

\* The API takes the access token.
Succeed(r) ==
  /\ step[r] \in {"sent", "retry"} /\ sent[r] = "good"
  /\ IF kind[r] = "logout"
     THEN Revoke /\ step' = [step EXCEPT ![r] = "answered"]
                 /\ UNCHANGED <<kind, sent>>
     ELSE Finish(r) /\ UNCHANGED serverVars
  /\ UNCHANGED <<cookieVars, page, exchange, timeVars, left, upset>>

\* handleLogout, whatever came of the request.
LoggedOut(r) ==
  /\ step[r] = "answered" /\ kind[r] = "logout"
  /\ Finish(r) /\ SignOut(tabOf[r])
  /\ UNCHANGED <<exchange, serverVars, timeVars, left, upset>>

\* 401: with a refresh cookie the request joins the refresh of its tab, or
\* starts it.  Without one it fails.
Unauthorized(r) ==
  LET t == tabOf[r]
  IN  /\ step[r] = "sent" /\ kind[r] \in {"call", "me", "logout"}
      /\ sent[r] # "good"
      /\ IF refresh # NoToken
         THEN /\ step' = [step EXCEPT ![r] = "waiting"]
              /\ exchange' = IF exchange[t] # Idle THEN exchange
                             ELSE [exchange EXCEPT ![t] =
                                     [pc |-> "sent", token |-> refresh]]
              /\ UNCHANGED <<cookieVars, page, kind, sent>>
         ELSE /\ Finish(r)
              /\ IF kind[r] = "call" THEN UNCHANGED <<cookieVars, page>>
                                     ELSE SignOut(t)
              /\ UNCHANGED exchange
      /\ UNCHANGED <<serverVars, timeVars, left, upset>>

\* The network fails or the request is aborted by its timer.  A first attempt
\* just fails, but for useUser's and for a logout.  A retry, at once when the
\* timer ran out during the refresh, is taken for a failed refresh.
Break(r) ==
  /\ step[r] \in {"sent", "retry"} /\ kind[r] # "navigate"
  /\ Finish(r)
  /\ IF step[r] = "retry" \/ kind[r] \in {"me", "logout"}
     THEN SignOut(tabOf[r]) /\ upset' = TRUE
     ELSE UNCHANGED <<cookieVars, page, upset>>
  /\ UNCHANGED <<exchange, serverVars, timeVars, left>>

-----------------------------------------------------------------------------
(* Refresh. *)

\* Mutant of Matches: only the last token issued.
MatchesLast(token) == hash = token

\* bcrypt compares 72 bytes, which all tokens of a user share: what it tells
\* apart is whether there is a hash.
Matches(token) == hash # NoToken

Lapsed(token) == token <= expired

\* Mutant of Checked: a token that has not expired is enough.
NotChecked(x) == IF Lapsed(exchange[x].token) THEN "refused" ELSE "checked"

\* The guard verifies the token, refreshTokens reads the user and compares.
Checked(x) ==
  IF Matches(exchange[x].token) /\ ~Lapsed(exchange[x].token)
  THEN "checked" ELSE "refused"

RefreshReads(x) ==
  /\ exchange[x].pc = "sent"
  /\ exchange' = [exchange EXCEPT ![x] = [pc |-> Checked(x), token |-> NoToken]]
  /\ UNCHANGED <<cookieVars, page, requestVars, serverVars, timeVars, left,
                 upset>>

\* getTokens and updateRefreshTokenHash.
RefreshWrites(x) ==
  /\ exchange[x].pc = "checked"
  /\ issued' = issued + 1
  /\ hash' = issued + 1
  /\ exchange' = [exchange EXCEPT ![x] =
                    [pc |-> "issued", token |-> issued + 1]]
  /\ UNCHANGED <<cookieVars, page, requestVars, revoked, overlap, timeVars,
                 left, upset>>

\* An error, or the answer is lost.
RefreshBreaks(x) ==
  /\ exchange[x].pc \in {"sent", "issued"}
  /\ exchange' = [exchange EXCEPT ![x] = [pc |-> "refused", token |-> NoToken]]
  /\ upset' = TRUE
  /\ UNCHANGED <<cookieVars, page, requestVars, serverVars, timeVars, left>>

WaitingIn(t) == {r \in Call : tabOf[r] = t /\ step[r] = "waiting"}

\* Mutant of Resumed: the request that started the refresh goes on alone.
ResumedOne(t) == {CHOOSE r \in WaitingIn(t) : TRUE}

\* The requests that awaited refreshPromise.
Resumed(t) == WaitingIn(t)

\* The tokens are set and all requests that waited are sent again.
RefreshDone(t) ==
  /\ exchange[t].pc = "issued"
  /\ SetTokens(exchange[t].token)
  /\ exchange' = [exchange EXCEPT ![t] = Idle]
  /\ step' = [r \in Call |-> IF r \in Resumed(t) THEN "retry" ELSE step[r]]
  /\ sent' = [r \in Call |-> IF r \in Resumed(t) THEN "good" ELSE sent[r]]
  /\ UNCHANGED <<page, kind, serverVars, timeVars, left, upset>>

\* All of them fail, and the tab is signed out.
RefreshRefused(t) ==
  /\ exchange[t].pc = "refused"
  /\ SignOut(t)
  /\ exchange' = [exchange EXCEPT ![t] = Idle]
  /\ step' = [r \in Call |-> IF r \in Resumed(t) THEN "done" ELSE step[r]]
  /\ kind' = [r \in Call |-> IF r \in Resumed(t) THEN "call" ELSE kind[r]]
  /\ sent' = [r \in Call |-> IF r \in Resumed(t) THEN "none" ELSE sent[r]]
  /\ UNCHANGED <<serverVars, timeVars, left, upset>>

-----------------------------------------------------------------------------
(* Navigation and sign-in. *)

\* proxy: with a good access token, or without any token, it decides at once;
\* otherwise it refreshes.
Navigate(r) ==
  LET t == tabOf[r]
  IN  /\ IsNext(r)
      /\ IF access = "good" \/ refresh = NoToken
         THEN /\ Finish(r)
              /\ page' = [page EXCEPT ![t] = IF access = "good" THEN "in"
                                             ELSE "out"]
              /\ UNCHANGED exchange
         ELSE /\ step' = [step EXCEPT ![r] = "sent"]
              /\ kind' = [kind EXCEPT ![r] = "navigate"]
              /\ exchange' = [exchange EXCEPT ![r] =
                                [pc |-> "sent", token |-> refresh]]
              /\ UNCHANGED <<page, sent>>
      /\ UNCHANGED <<cookieVars, serverVars, timeVars, left, upset>>

\* The answer sets both cookies, or sends the tab to /auth and leaves them.
Arrive(r) ==
  /\ kind[r] = "navigate" /\ exchange[r].pc \in {"issued", "refused"}
  /\ Finish(r)
  /\ exchange' = [exchange EXCEPT ![r] = Idle]
  /\ IF exchange[r].pc = "issued"
     THEN /\ SetTokens(exchange[r].token)
          /\ page' = [page EXCEPT ![tabOf[r]] = "in"]
     ELSE /\ page' = [page EXCEPT ![tabOf[r]] = "out"]
          /\ UNCHANGED cookieVars
  /\ UNCHANGED <<serverVars, timeVars, left, upset>>

\* signIn, and signUp or an OAuth callback: a new hash.
Issue ==
  /\ issued' = issued + 1
  /\ hash' = issued + 1
  /\ revoked' = FALSE /\ overlap' = FALSE

SignIn(r) ==
  /\ step[r] = "sent" /\ kind[r] = "signin"
  /\ Issue
  /\ step' = [step EXCEPT ![r] = "answered"]
  /\ exchange' = [exchange EXCEPT ![r].token = issued + 1]
  /\ UNCHANGED <<cookieVars, page, kind, sent, timeVars, left, upset>>

SignedIn(r) ==
  /\ step[r] = "answered" /\ kind[r] = "signin"
  /\ Finish(r) /\ SetTokens(exchange[r].token)
  /\ page' = [page EXCEPT ![tabOf[r]] = "in"]
  /\ exchange' = [exchange EXCEPT ![r] = Idle]
  /\ UNCHANGED <<serverVars, timeVars, left, upset>>

\* The popup that connects GitHub: tokens are issued, and the page it ends on
\* drops them.
ConnectGithub(r) ==
  /\ IsNext(r) /\ page[tabOf[r]] = "in"
  /\ Finish(r)
  /\ Issue
  /\ UNCHANGED <<cookieVars, page, exchange, timeVars, left, upset>>

-----------------------------------------------------------------------------
Answer(r) ==
  \/ Succeed(r) \/ Unauthorized(r) \/ Break(r) \/ SignIn(r)
  \/ LoggedOut(r) \/ SignedIn(r) \/ Arrive(r)

Exchange(x) == RefreshReads(x) \/ RefreshWrites(x) \/ RefreshBreaks(x)

Settle(t) == RefreshDone(t) \/ RefreshRefused(t)

SessionNext ==
  \/ \E r \in Call : \/ \E k \in RequestKind \ {"navigate"} : Ask(r, k)
                     \/ Navigate(r) \/ ConnectGithub(r) \/ Answer(r)
  \/ \E x \in Client : Exchange(x)
  \/ \E t \in Tab : Settle(t)
  \/ Expire \/ RefreshExpires

SessionSpec == SessionInit /\ [][SessionNext]_sessionVars

-----------------------------------------------------------------------------
(* Properties. *)

\* As long as nobody logs out and neither a refresh, a retry nor the question
\* who the user is fails, the session goes on in every tab until a refresh
\* token is left to expire, however often access tokens do, whoever refreshes
\* at the same time, and whichever other requests fail (fetch-client.ts:76-103,
\* proxy.ts:31-82).
StaysSignedIn ==
  ~left /\ ~upset /\ expired = NoToken =>
    refresh # NoToken /\ hash # NoToken /\ \A t \in Tab : page[t] = "in"

\* A logout revokes the session for good: without another sign-in the user
\* has no hash, unless a refresh had been compared before the logout and
\* wrote its new hash after it (auth.service.ts:84-113).
LogoutIsFinal == revoked => hash = NoToken \/ overlap

\* A request waits for nothing but a refresh of its own tab that is under
\* way, whose end goes on with all that wait, also when they came while it was
\* being answered (fetch-client.ts:121-150): none is forgotten, and each
\* refresh has somebody who waits for it.
WaitersAreServed ==
  \A t \in Tab : WaitingIn(t) # {} <=> exchange[t] # Idle
=============================================================================

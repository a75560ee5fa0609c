------------------------------ MODULE Browser -------------------------------
(***************************************************************************)
(* One browser tab of the web front end: who is logged in, with which      *)
(* tokens, on which page.                                                  *)
(*   fe-itts-community/feature/auth/context.tsx     AuthProvider            *)
(*   fe-itts-community/feature/auth/hooks.ts        useLogin, useLogout,    *)
(*                                                  useMe, useUpdateProfile *)
(*   fe-itts-community/feature/auth/components.tsx  RequireAuth and         *)
(*                                                  ProtectedRoute          *)
(*   fe-itts-community/app/login, app/auth/callback, app/user/profile       *)
(*   fe-itts-community/components/navigation/Navbar.tsx  logout             *)
(*                                                                         *)
(* A session is the pair of tokens one login was given: the two are stored, *)
(* kept in the state and dropped together. The server's part is what the   *)
(* tab can tell of it: whose session it is and how old its access token    *)
(* is. A second tab shares the local storage and nothing else.             *)
(*                                                                         *)
(* Every answer may come late, fail, or be lost; the queries retry.        *)
(*                                                                         *)
(* Bounds: the size of Sessions bounds the logins. One login and one       *)
(* logout of the tab are in flight at a time (their buttons are disabled   *)
(* meanwhile); profile saves sent with one access token count as one.      *)
(* useRefreshToken and updateTokens have no caller: no token is refreshed. *)
(***************************************************************************)
EXTENDS Access, Naturals

CONSTANTS Sessions, Users, NoSession, NoUser,
          AdminPages,   \* the admin pages considered
          Retries,      \* how often a failed useMe request is sent again: 2
          profileOf     \* what the checks read of each user's record

VARIABLES
  owner,    \* [Sessions -> Users \cup {NoUser}]: NoUser: not issued yet
  age,      \* [Sessions -> Ages]: the access token
  store,    \* localStorage: the session whose tokens it holds
  user,     \* AuthState: user, access and refresh token, isAuthenticated, isLoading
  access,
  refresh,
  authed,
  loading,
  me,       \* the query of useMe: its state, the token it was sent with, failed attempts
  late,     \* sessions with a request in flight whose answer calls updateUser
  login,    \* the user whose login is in flight
  logout,   \* the session whose logout is in flight
  page,
  ticket,   \* the session whose tokens the address of the callback page carries
  timer,    \* the callback page's redirect is due
  strayed,  \* a profile came in for other tokens than the tab holds
  foreign   \* the other tab has changed the storage since this one last read or wrote it

server == <<owner, age>>
auth   == <<user, access, refresh, authed, loading>>
calls  == <<late, login, logout>>
where  == <<page, ticket, timer>>
seen   == <<strayed, foreign>>
vars   == <<server, store, auth, me, calls, where, seen>>

\* fresh; within 30 seconds of its end: the tab takes it for expired, the server does not;
\* expired.
Ages == {"fresh", "ending", "dead"}

PublicPages == {"home", "login", "callback", "profile"}
Pages       == PublicPages \cup AdminPages

AnySession == Sessions \cup {NoSession}
AnyUser    == Users \cup {NoUser}

\* useMe's query: "asked" while a request is in flight, "waiting" for the next attempt,
\* "paused" by React Query until the tab is on screen and on line again.
NoMe == [state |-> "idle", by |-> NoSession, fails |-> 0]
MeBy(s) == [state |-> "asked", by |-> s, fails |-> 0]
MePaused == [state |-> "paused", by |-> NoSession, fails |-> 0]

ASSUME BrowserAssumption ==
  /\ NoSession \notin Sessions
  /\ NoUser \notin Users
  /\ AdminPages \subseteq AdminPage
  /\ "event" \in AdminPages
  /\ Retries \in Nat
  /\ profileOf \in [Users -> Profile]
  \* The server leaves an empty list of permissions out of the answer, and the checks
  \* then throw: users without any permission are not modelled.
  /\ \A u \in Users : profileOf[u].super \/ profileOf[u].permissions # {}

Init ==
  /\ owner = [s \in Sessions |-> NoUser]
  /\ age = [s \in Sessions |-> "fresh"]
  /\ store = NoSession
  /\ user = NoUser /\ access = NoSession /\ refresh = NoSession
  /\ authed = FALSE /\ loading = TRUE
  /\ me = NoMe
  /\ late = {} /\ login = NoUser /\ logout = NoSession
  /\ page = "home" /\ ticket = NoSession /\ timer = FALSE
  /\ strayed = FALSE /\ foreign = FALSE
-----------------------------------------------------------------------------
(***************************************************************************)
(* Helpers                                                                 *)
(***************************************************************************)

\* The server opens session s for user u.
Issue(s, u) ==
  /\ owner[s] = NoUser
  /\ owner' = [owner EXCEPT ![s] = u]
  /\ UNCHANGED age

\* Slips: logout drops the tokens only; login keeps them in the state only.
ForgetTokens ==
  /\ store' = NoSession
  /\ access' = NoSession /\ refresh' = NoSession
  /\ loading' = FALSE
  /\ me' = NoMe
  /\ foreign' = FALSE
  /\ UNCHANGED <<user, authed, late>>

TakeLoginUnstored(s, u) ==
  /\ user' = u /\ access' = s /\ refresh' = s /\ authed' = TRUE /\ loading' = FALSE
  /\ foreign' = FALSE
  /\ UNCHANGED store

\* AuthProvider.login: tokens into the storage and the state, with the user.
TakeLogin(s, u) ==
  /\ store' = s
  /\ user' = u /\ access' = s /\ refresh' = s /\ authed' = TRUE /\ loading' = FALSE
  /\ foreign' = FALSE

\* AuthProvider.logout, then queryClient.clear(): a request of useMe that is in flight is
\* no longer the cache's, but its function still runs to its end and calls updateUser.
Forget ==
  /\ store' = NoSession
  /\ user' = NoUser /\ access' = NoSession /\ refresh' = NoSession
  /\ authed' = FALSE /\ loading' = FALSE
  /\ late' = late \cup (IF me.state = "asked" THEN {me.by} ELSE {})
  /\ me' = NoMe
  /\ foreign' = FALSE

\* AuthProvider.updateUser: the tokens stay as they are.
updateUser(s) ==
  /\ user' = owner[s] /\ authed' = TRUE
  /\ strayed' = (strayed \/ access # s)

\* useMe is enabled: there is a token and no user.
MeEnabled == access # NoSession /\ user = NoUser

\* A query that begins while the browser is off line is paused at once.
AskBy(s) == me' \in {MeBy(s), MePaused}

\* Coming to page p within the application. The gate of the admin layout mounts useMe
\* once more, and a failed query that is enabled is asked again.
GoTo(p) ==
  /\ page' = p
  /\ IF p \in AdminPages /\ page \notin AdminPages /\ MeEnabled /\ me.state = "failed"
     THEN AskBy(access) ELSE UNCHANGED me
-----------------------------------------------------------------------------
(***************************************************************************)
(* Loading the application                                                 *)
(***************************************************************************)

\* A full load of the page at p, with the tokens of session s in its address on the
\* callback page. What was in flight is abandoned.
Load(p, s) ==
  /\ page' = p /\ ticket' = s /\ timer' = FALSE
  /\ user' = NoUser /\ access' = NoSession /\ refresh' = NoSession
  /\ authed' = FALSE /\ loading' = TRUE
  /\ me' = NoMe
  /\ late' = {} /\ login' = NoUser /\ logout' = NoSession
  /\ strayed' = FALSE /\ foreign' = FALSE
  /\ UNCHANGED store

Reload(p) ==
  /\ p # "callback"
  /\ Load(p, NoSession)
  /\ UNCHANGED server

\* The server answers a GitHub login with a redirect to the callback page.
OAuthReturn(s, u) ==
  /\ Issue(s, u)
  /\ Load("callback", s)

\* Slip: useMe is not mounted at once.
MountAsksNobody ==
  /\ loading
  /\ loading' = FALSE
  /\ IF store = NoSession \/ age[store] # "fresh"
     THEN /\ user' = NoUser /\ access' = NoSession /\ refresh' = store /\ authed' = FALSE
     ELSE /\ access' = store /\ refresh' = store
          /\ UNCHANGED <<user, authed>>
  /\ UNCHANGED <<server, store, me, calls, where, seen>>

\* The effect of AuthProvider: tokens that are not about to expire are taken from the
\* storage, without a user; useMe, mounted by the Navbar on every page, then asks for him.
Mount ==
  /\ loading
  /\ loading' = FALSE
  /\ IF store = NoSession \/ age[store] # "fresh"
     THEN /\ user' = NoUser /\ access' = NoSession /\ refresh' = store /\ authed' = FALSE
          /\ UNCHANGED me
     ELSE /\ access' = store /\ refresh' = store
          /\ AskBy(store)
          /\ UNCHANGED <<user, authed>>
  /\ UNCHANGED <<server, store, calls, where, seen>>
-----------------------------------------------------------------------------
(***************************************************************************)
(* Login                                                                   *)
(***************************************************************************)
LoginSubmit(u) ==
  /\ page = "login" /\ ~loading /\ login = NoUser
  /\ login' = u
  /\ UNCHANGED <<server, store, auth, me, late, logout, where, seen>>

\* useLogin.onSuccess, and the page's own if it is still there. invalidateQueries runs
\* while useMe still has the old token and no user: it sends a failed query again.
LoginAnswered(s) ==
  /\ login # NoUser
  /\ Issue(s, login)
  /\ TakeLogin(s, login)
  /\ IF MeEnabled /\ me.state = "failed" THEN AskBy(access) ELSE UNCHANGED me
  /\ page' = IF page = "login" THEN "event" ELSE page
  /\ login' = NoUser
  /\ UNCHANGED <<late, logout, ticket, timer, strayed>>

LoginFails ==
  /\ login # NoUser
  /\ login' = NoUser
  /\ UNCHANGED <<server, store, auth, me, late, logout, where, seen>>

\* The effect of the login page.
LoginLeadsOn ==
  /\ page = "login" /\ authed
  /\ GoTo("event")
  /\ UNCHANGED <<server, store, auth, calls, ticket, timer, seen>>

\* The effect of the callback page. It runs before the effect of AuthProvider, which then
\* finds the new tokens in the storage, or after it.
CallbackRuns ==
  /\ page = "callback" /\ ticket # NoSession
  /\ TakeLogin(ticket, owner[ticket])
  /\ ticket' = NoSession /\ timer' = TRUE
  /\ UNCHANGED <<server, me, calls, page, strayed>>

\* An error in the address, or tokens that cannot be read.
CallbackFails ==
  /\ page = "callback" /\ ticket # NoSession
  /\ ticket' = NoSession
  /\ UNCHANGED <<server, store, auth, me, calls, page, timer, seen>>

\* Half a second later, wherever the tab is by then.
CallbackRedirects ==
  /\ timer
  /\ timer' = FALSE
  /\ GoTo("event")
  /\ UNCHANGED <<server, store, auth, calls, ticket, seen>>
-----------------------------------------------------------------------------
(***************************************************************************)
(* Logout                                                                  *)
(***************************************************************************)
LogoutClick ==
  /\ authed /\ user # NoUser /\ logout = NoSession
  /\ \/ /\ refresh # NoSession
        /\ logout' = refresh
        /\ UNCHANGED <<store, auth, me, late, foreign>>
     \/ \* "No refresh token": onError at once
        /\ refresh = NoSession
        /\ Forget
        /\ UNCHANGED logout
  /\ UNCHANGED <<server, login, where, strayed>>

\* The Navbar goes home; on an admin page the gate, which sees the state change, may have
\* the last word. The server refuses an access token that has expired before it looks at
\* the refresh token.
LogoutAnswered ==
  /\ logout # NoSession /\ age[logout] # "dead"
  /\ Forget
  /\ logout' = NoSession
  /\ \/ page' = "home"
     \/ page \in AdminPages /\ page' = "login"
  /\ UNCHANGED <<server, login, ticket, timer, strayed>>

\* Refused, or lost: the tokens are forgotten all the same.
LogoutFails ==
  /\ logout # NoSession
  /\ Forget
  /\ logout' = NoSession
  /\ UNCHANGED <<server, login, where, strayed>>
-----------------------------------------------------------------------------
(***************************************************************************)
(* The user's profile                                                      *)
(***************************************************************************)
MeAnswered ==
  /\ me.state = "asked"
  /\ updateUser(me.by)
  /\ me' = [me EXCEPT !.state = "done"]
  /\ UNCHANGED <<server, store, access, refresh, loading, calls, where, foreign>>

\* Slips: one attempt too many; the attempts are never used up.
MeFailsOnceMore ==
  /\ me.state = "asked"
  /\ me' = IF me.fails <= Retries THEN [me EXCEPT !.state = "waiting", !.fails = @ + 1]
           ELSE [me EXCEPT !.state = "failed"]
  /\ UNCHANGED <<server, store, auth, calls, where, seen>>

MeFailsForever ==
  /\ me.state = "asked"
  /\ me' = [me EXCEPT !.state = "waiting", !.fails = (@ + 1) % (Retries + 1)]
  /\ UNCHANGED <<server, store, auth, calls, where, seen>>

\* The retry option logs out on a message that includes "401": no message of the server does.
MeFails ==
  /\ me.state = "asked"
  /\ me' = IF me.fails < Retries THEN [me EXCEPT !.state = "waiting", !.fails = @ + 1]
           ELSE [me EXCEPT !.state = "failed"]
  /\ UNCHANGED <<server, store, auth, calls, where, seen>>

\* The next attempt is due: with the token there is now, or, while the tab is hidden or off
\* line, not before it is back.
MeRetries ==
  /\ me.state = "waiting"
  /\ me' \in {[me EXCEPT !.state = "asked", !.by = access], [me EXCEPT !.state = "paused"]}
  /\ UNCHANGED <<server, store, auth, calls, where, seen>>

MeResumes ==
  /\ me.state = "paused"
  /\ me' = [me EXCEPT !.state = "asked", !.by = access]
  /\ UNCHANGED <<server, store, auth, calls, where, seen>>

\* EditProfileSection. Without a token the mutation fails on the spot.
ProfileSave ==
  /\ page = "profile" /\ user # NoUser /\ access # NoSession
  /\ late' = late \cup {access}
  /\ UNCHANGED <<server, store, auth, me, login, logout, where, seen>>

\* useUpdateProfile.onSuccess, or the end of a useMe request that the cache has dropped.
LateAnswer(s) ==
  /\ s \in late
  /\ updateUser(s)
  /\ late' = late \ {s}
  /\ UNCHANGED <<server, store, access, refresh, loading, me, login, logout, where, foreign>>

LateLost(s) ==
  /\ s \in late
  /\ late' = late \ {s}
  /\ UNCHANGED <<server, store, auth, me, login, logout, where, seen>>
-----------------------------------------------------------------------------
(***************************************************************************)
(* Pages and gates                                                         *)
(***************************************************************************)
\* A link outside the admin pages.
Visit(p) ==
  /\ ~loading
  /\ p \notin {page, "callback"}
  /\ GoTo(p)
  /\ ticket' = NoSession
  /\ UNCHANGED <<server, store, auth, calls, timer, seen>>

\* isLoading of useMe: a paused query is pending, but it is not fetching.
MeLoading == me.state \in {"asked", "waiting"}

\* The gates show a spinner while the tokens are read and while useMe asks, then nothing.
Spinning == loading \/ MeLoading
LoggedIn == authed /\ user # NoUser

Gated == page \in AdminPages /\ ~Spinning

GateToLogin ==
  /\ Gated /\ ~LoggedIn
  /\ page' = "login"
  /\ UNCHANGED <<server, store, auth, me, calls, ticket, timer, seen>>

GateToHome ==
  /\ Gated /\ LoggedIn /\ ~Admits(profileOf[user], page)
  /\ page' = "home"
  /\ UNCHANGED <<server, store, auth, me, calls, ticket, timer, seen>>

\* An entry of the sidebar, which the layout shows to whoever is logged in.
MenuClick(p) ==
  /\ Gated /\ LoggedIn
  /\ p \in visibleItems(profileOf[user]) \ {page}
  /\ page' = p
  /\ UNCHANGED <<server, store, auth, me, calls, ticket, timer, seen>>
-----------------------------------------------------------------------------
(***************************************************************************)
(* Time and the other tab                                                  *)
(***************************************************************************)
\* The tab counts from when it stores a token; a callback page loads in no time.
TokenAges(s) ==
  /\ owner[s] # NoUser /\ age[s] # "dead" /\ s # ticket
  /\ age' = [age EXCEPT ![s] = IF @ = "fresh" THEN "ending" ELSE "dead"]
  /\ UNCHANGED <<owner, store, auth, me, calls, where, seen>>

OtherTabLogsIn(s, u) ==
  /\ Issue(s, u)
  /\ store' = s
  /\ foreign' = TRUE
  /\ UNCHANGED <<auth, me, calls, where, strayed>>

OtherTabLogsOut ==
  /\ store # NoSession
  /\ store' = NoSession
  /\ foreign' = TRUE
  /\ UNCHANGED <<server, auth, me, calls, where, strayed>>
-----------------------------------------------------------------------------
Next ==
  \/ \E p \in Pages : Reload(p) \/ Visit(p)
  \/ \E p \in AdminPages : MenuClick(p)
  \/ \E s \in Sessions, u \in Users : OAuthReturn(s, u) \/ OtherTabLogsIn(s, u)
  \/ \E u \in Users : LoginSubmit(u)
  \/ \E s \in Sessions : LoginAnswered(s) \/ LateAnswer(s) \/ LateLost(s) \/ TokenAges(s)
  \/ Mount \/ LoginFails \/ LoginLeadsOn
  \/ CallbackRuns \/ CallbackFails \/ CallbackRedirects
  \/ LogoutClick \/ LogoutAnswered \/ LogoutFails
  \/ MeAnswered \/ MeFails \/ MeRetries \/ MeResumes \/ ProfileSave
  \/ GateToLogin \/ GateToHome \/ OtherTabLogsOut

\* Effects run after the render that asks for them, every request ends (the browser gives
\* up on one that does not), and so does the delay before the next. A tab need never come
\* back on screen or on line.
Fairness ==
  /\ WF_vars(Mount)
  /\ WF_vars(MeAnswered \/ MeFails)
  /\ WF_vars(MeRetries)
  /\ WF_vars(GateToLogin)
  /\ WF_vars(GateToHome)

Spec == Init /\ [][Next]_vars /\ Fairness
=============================================================================

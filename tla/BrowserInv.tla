----------------------------- MODULE BrowserInv -----------------------------
(***************************************************************************)
(* What a tab of the front end keeps to.                                   *)
(***************************************************************************)
EXTENDS Browser

Query == [state : {"idle", "asked", "waiting", "paused", "done", "failed"},
          by : AnySession, fails : 0 .. Retries]

\* Every variable has its type.
TypeOK ==
  /\ owner \in [Sessions -> AnyUser]
  /\ age \in [Sessions -> Ages]
  /\ store \in AnySession
  /\ user \in AnyUser /\ access \in AnySession /\ refresh \in AnySession
  /\ authed \in BOOLEAN /\ loading \in BOOLEAN
  /\ me \in Query
  /\ late \subseteq Sessions /\ login \in AnyUser /\ logout \in AnySession
  /\ page \in Pages /\ ticket \in AnySession /\ timer \in BOOLEAN
  /\ strayed \in BOOLEAN /\ foreign \in BOOLEAN

\* The user on the screen is the owner of the tokens the tab sends, unless a profile that
\* was asked for with other tokens has come in since the page was loaded.
ProfileMatchesTokens ==
  ~strayed /\ user # NoUser => access # NoSession /\ user = owner[access]

\* A page load finds the session the tab is in: the storage holds the tokens of the state,
\* unless the other tab has touched it.
StoreFollowsTab == ~foreign /\ access # NoSession => store = access

\* Nobody with a token is sent to the login page while his profile is being asked for, be it
\* between two attempts: the gates redirect without a token, when the attempts are used up,
\* and while React Query has paused them, which the gates cannot tell from the end.
GateWaits == [][GateToLogin => access = NoSession \/ me.state \in {"failed", "paused"}]_vars

\* The spinner of an admin page ends, unless the page is loaded again and again.
Loads == (\E p \in Pages : Reload(p)) \/ (\E s \in Sessions, u \in Users : OAuthReturn(s, u))

SpinnerEnds == (page \in AdminPages /\ Spinning ~> ~Spinning) \/ []<><<Loads>>_vars

\* After a logout, or without a session, nobody is logged in.
OutIsOut == access = NoSession => user = NoUser /\ ~authed
-----------------------------------------------------------------------------
(***************************************************************************)
(* The inductive invariant                                                 *)
(***************************************************************************)
\* Every token anybody holds or has sent was issued to somebody.
Issued == {s \in Sessions : owner[s] # NoUser}

TokensAreIssued ==
  /\ {store, access, ticket} \subseteq Issued \cup {NoSession}
  /\ late \subseteq Issued
  /\ me.state = "asked" => me.by \in Issued

\* isAuthenticated says whether there is a user.
AuthedMeansUser == authed = (user # NoUser)

\* Until the tokens are read there is nothing; then whoever has a token and no user is
\* being asked for, will be, or could not be found out.
ProfileIsSought ==
  /\ loading => user = NoUser /\ access = NoSession /\ me = NoMe /\ late = {}
  /\ MeEnabled => me.state \in {"asked", "waiting", "paused", "failed"}
  /\ me.state \in {"asked", "waiting", "paused"} => access # NoSession

IInv ==
  /\ TypeOK
  /\ TokensAreIssued
  /\ AuthedMeansUser
  /\ ProfileIsSought
  /\ ProfileMatchesTokens
  /\ StoreFollowsTab
=============================================================================

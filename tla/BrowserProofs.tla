--------------------------- MODULE BrowserProofs ----------------------------
(***************************************************************************)
(* What a tab keeps to, for any number of logins, users and admin pages.   *)
(***************************************************************************)
EXTENDS BrowserInv, TLAPS

USE BrowserAssumption

\* What useMe's query may become.
LEMMA QueryTypes ==
  /\ NoMe \in Query /\ MePaused \in Query
  /\ \A s \in AnySession : MeBy(s) \in Query
  BY DEF Query, NoMe, MePaused, MeBy, AnySession

LEMMA InitInvariant == Init => IInv
  <1> SUFFICES ASSUME Init PROVE IInv
    OBVIOUS
  <1> USE DEF Init
  <1>1. TypeOK
    BY QueryTypes DEF TypeOK, AnySession, AnyUser, Ages, Pages, PublicPages
  <1>2. TokensAreIssued
    BY DEF TokensAreIssued, NoMe
  <1>3. AuthedMeansUser /\ ProfileIsSought /\ ProfileMatchesTokens /\ StoreFollowsTab
    BY DEF AuthedMeansUser, ProfileIsSought, ProfileMatchesTokens, StoreFollowsTab, MeEnabled,
           NoMe
  <1> QED
    BY <1>1, <1>2, <1>3 DEF IInv

\* Every step keeps the types.
LEMMA StepTypes == TypeOK /\ TokensAreIssued /\ [Next]_vars => TypeOK'
  <1> SUFFICES ASSUME TypeOK /\ TokensAreIssued, [Next]_vars PROVE TypeOK'
    OBVIOUS
  <1> USE DEF TypeOK, TokensAreIssued, Issued, AnySession, AnyUser, Ages, Pages, PublicPages,
              server, auth, calls, where, seen
  <1>1. ASSUME NEW p \in Pages, Reload(p) PROVE TypeOK'
    BY <1>1, QueryTypes DEF Reload, Load
  <1>2. ASSUME NEW p \in Pages, Visit(p) PROVE TypeOK'
    BY <1>2, QueryTypes DEF Visit, GoTo, AskBy
  <1>3. ASSUME NEW p \in AdminPages, MenuClick(p) PROVE TypeOK'
    BY <1>3, QueryTypes DEF MenuClick
  <1>4. ASSUME NEW s \in Sessions, NEW u \in Users, OAuthReturn(s, u) PROVE TypeOK'
    BY <1>4, QueryTypes DEF OAuthReturn, Issue, Load
  <1>5. ASSUME NEW s \in Sessions, NEW u \in Users, OtherTabLogsIn(s, u) PROVE TypeOK'
    BY <1>5, QueryTypes DEF OtherTabLogsIn, Issue
  <1>6. ASSUME NEW u \in Users, LoginSubmit(u) PROVE TypeOK'
    BY <1>6, QueryTypes DEF LoginSubmit
  <1>7. ASSUME NEW s \in Sessions, LoginAnswered(s) PROVE TypeOK'
    BY <1>7, QueryTypes DEF LoginAnswered, Issue, TakeLogin, AskBy
  <1>8. ASSUME NEW s \in Sessions, LateAnswer(s) PROVE TypeOK'
    BY <1>8, QueryTypes DEF LateAnswer, updateUser
  <1>9. ASSUME NEW s \in Sessions, LateLost(s) PROVE TypeOK'
    BY <1>9, QueryTypes DEF LateLost
  <1>10. ASSUME NEW s \in Sessions, TokenAges(s) PROVE TypeOK'
    BY <1>10, QueryTypes DEF TokenAges
  <1>11. CASE Mount
    BY <1>11, QueryTypes DEF Mount, AskBy
  <1>12. CASE LoginFails
    BY <1>12, QueryTypes DEF LoginFails
  <1>13. CASE LoginLeadsOn
    BY <1>13, QueryTypes DEF LoginLeadsOn, GoTo, AskBy
  <1>14. CASE CallbackRuns
    BY <1>14, QueryTypes DEF CallbackRuns, TakeLogin
  <1>15. CASE CallbackFails
    BY <1>15, QueryTypes DEF CallbackFails
  <1>16. CASE CallbackRedirects
    BY <1>16, QueryTypes DEF CallbackRedirects, GoTo, AskBy
  <1>17. CASE LogoutClick
    <2>1. CASE refresh # NoSession
      BY <1>17, <2>1 DEF LogoutClick
    <2>2. CASE refresh = NoSession
      BY <1>17, <2>2, QueryTypes DEF LogoutClick, Forget
    <2> QED
      BY <2>1, <2>2
  <1>18. CASE LogoutAnswered
    BY <1>18, QueryTypes DEF LogoutAnswered, Forget
  <1>19. CASE LogoutFails
    BY <1>19, QueryTypes DEF LogoutFails, Forget
  <1>20. CASE MeAnswered
    <2>1. me' \in Query
      BY <1>20 DEF MeAnswered, Query
    <2>2. user' \in AnyUser /\ authed' \in BOOLEAN /\ strayed' \in BOOLEAN
      BY <1>20 DEF MeAnswered, updateUser
    <2> QED
      BY <1>20, <2>1, <2>2 DEF MeAnswered
  <1>21. CASE MeFails
    <2>1. CASE me.fails < Retries
      <3>1. me' = [me EXCEPT !.state = "waiting", !.fails = @ + 1]
        BY <1>21, <2>1 DEF MeFails
      <3>2. me \in Query /\ me.fails + 1 \in 0 .. Retries
        BY <2>1 DEF Query
      <3>3. me' \in Query
        BY <3>1, <3>2 DEF Query
      <3> QED
        BY <1>21, <3>3 DEF MeFails
    <2>2. CASE ~(me.fails < Retries)
      <3>1. me' = [me EXCEPT !.state = "failed"]
        BY <1>21, <2>2 DEF MeFails
      <3>2. me' \in Query
        BY <3>1 DEF Query
      <3> QED
        BY <1>21, <3>2 DEF MeFails
    <2> QED
      BY <2>1, <2>2
  <1>22. CASE ProfileSave
    BY <1>22, QueryTypes DEF ProfileSave
  <1>23. CASE GateToLogin
    BY <1>23, QueryTypes DEF GateToLogin
  <1>24. CASE GateToHome
    BY <1>24, QueryTypes DEF GateToHome
  <1>25. CASE OtherTabLogsOut
    BY <1>25, QueryTypes DEF OtherTabLogsOut
  <1>26. CASE UNCHANGED vars
    BY <1>26 DEF vars
  <1>27. CASE MeRetries
    <2>1. me' \in Query
      BY <1>27 DEF MeRetries, Query
    <2> QED
      BY <1>27, <2>1 DEF MeRetries
  <1>28. CASE MeResumes
    <2>1. me' \in Query
      BY <1>28 DEF MeResumes, Query
    <2> QED
      BY <1>28, <2>1 DEF MeResumes
  <1> QED
    BY <1>1, <1>2, <1>3, <1>4, <1>5, <1>6, <1>7, <1>8, <1>9, <1>10, <1>11, <1>12, <1>13, <1>14,
       <1>15, <1>16, <1>17, <1>18, <1>19, <1>20, <1>21, <1>22, <1>23, <1>24, <1>25, <1>26,
       <1>27, <1>28
       DEF Next

\* Every step keeps tokens among those issued: a session is never given to a second user.
LEMMA StepTokens ==
  TypeOK /\ TokensAreIssued /\ ProfileIsSought /\ [Next]_vars => TokensAreIssued'
  <1> SUFFICES ASSUME TypeOK /\ TokensAreIssued /\ ProfileIsSought, [Next]_vars PROVE TokensAreIssued'
    OBVIOUS
  <1> USE DEF TypeOK, TokensAreIssued, Issued, AnySession, AnyUser, NoMe, MePaused, MeBy, MeEnabled,
              server, auth, calls, where, seen
  <1>1. ASSUME NEW p \in Pages, Reload(p) PROVE TokensAreIssued'
    BY <1>1 DEF Reload, Load
  <1>2. ASSUME NEW p \in Pages, Visit(p) PROVE TokensAreIssued'
    BY <1>2 DEF Visit, GoTo, AskBy
  <1>3. ASSUME NEW p \in AdminPages, MenuClick(p) PROVE TokensAreIssued'
    BY <1>3 DEF MenuClick
  <1>4. ASSUME NEW s \in Sessions, NEW u \in Users, OAuthReturn(s, u) PROVE TokensAreIssued'
    BY <1>4 DEF OAuthReturn, Issue, Load
  <1>5. ASSUME NEW s \in Sessions, NEW u \in Users, OtherTabLogsIn(s, u) PROVE TokensAreIssued'
    BY <1>5 DEF OtherTabLogsIn, Issue
  <1>6. ASSUME NEW u \in Users, LoginSubmit(u) PROVE TokensAreIssued'
    BY <1>6 DEF LoginSubmit
  <1>7. ASSUME NEW s \in Sessions, LoginAnswered(s) PROVE TokensAreIssued'
    BY <1>7 DEF LoginAnswered, Issue, TakeLogin, AskBy
  <1>8. ASSUME NEW s \in Sessions, LateAnswer(s) PROVE TokensAreIssued'
    BY <1>8 DEF LateAnswer, updateUser
  <1>9. ASSUME NEW s \in Sessions, LateLost(s) PROVE TokensAreIssued'
    BY <1>9 DEF LateLost
  <1>10. ASSUME NEW s \in Sessions, TokenAges(s) PROVE TokensAreIssued'
    BY <1>10 DEF TokenAges
  <1>11. CASE Mount
    BY <1>11 DEF Mount, AskBy
  <1>12. CASE LoginFails
    BY <1>12 DEF LoginFails
  <1>13. CASE LoginLeadsOn
    BY <1>13 DEF LoginLeadsOn, GoTo, AskBy
  <1>14. CASE CallbackRuns
    BY <1>14 DEF CallbackRuns, TakeLogin
  <1>15. CASE CallbackFails
    BY <1>15 DEF CallbackFails
  <1>16. CASE CallbackRedirects
    BY <1>16 DEF CallbackRedirects, GoTo, AskBy
  <1>17. CASE LogoutClick
    <2>1. CASE refresh # NoSession
      BY <1>17, <2>1 DEF LogoutClick
    <2>2. CASE refresh = NoSession
      BY <1>17, <2>2 DEF LogoutClick, Forget
    <2> QED
      BY <2>1, <2>2
  <1>18. CASE LogoutAnswered
    BY <1>18 DEF LogoutAnswered, Forget
  <1>19. CASE LogoutFails
    BY <1>19 DEF LogoutFails, Forget
  <1>20. CASE MeAnswered
    BY <1>20 DEF MeAnswered, updateUser
  <1>21. CASE MeFails
    <2>1. me \in Query /\ UNCHANGED <<server, store, auth, calls, where, seen>>
      BY <1>21 DEF MeFails
    <2>2. me'.state # "asked"
      BY <1>21, <2>1 DEF MeFails, Query
    <2> QED
      BY <2>1, <2>2
  <1>22. CASE ProfileSave
    BY <1>22 DEF ProfileSave
  <1>23. CASE GateToLogin
    BY <1>23 DEF GateToLogin
  <1>24. CASE GateToHome
    BY <1>24 DEF GateToHome
  <1>25. CASE OtherTabLogsOut
    BY <1>25 DEF OtherTabLogsOut
  <1>26. CASE UNCHANGED vars
    BY <1>26 DEF vars
  <1>27. CASE MeRetries
    <2>1. me.state = "waiting" /\ access # NoSession
      BY <1>27 DEF MeRetries, ProfileIsSought
    <2>2. me \in Query /\ UNCHANGED <<server, store, auth, calls, where, seen>>
      BY <1>27 DEF MeRetries
    <2>3. CASE me' = [me EXCEPT !.state = "asked", !.by = access]
      <3>1. me'.by = access
        BY <2>2, <2>3 DEF Query
      <3> QED
        BY <2>1, <2>2, <3>1
    <2>4. CASE me' = [me EXCEPT !.state = "paused"]
      <3>1. me'.state = "paused"
        BY <2>2, <2>4 DEF Query
      <3> QED
        BY <2>2, <3>1
    <2> QED
      BY <1>27, <2>3, <2>4 DEF MeRetries
  <1>28. CASE MeResumes
    <2>1. access # NoSession
      BY <1>28 DEF MeResumes, ProfileIsSought
    <2>2. me \in Query /\ UNCHANGED <<server, store, auth, calls, where, seen>>
      BY <1>28 DEF MeResumes
    <2>3. me'.by = access
      BY <1>28, <2>2 DEF MeResumes, Query
    <2> QED
      BY <2>1, <2>2, <2>3
  <1> QED
    BY <1>1, <1>2, <1>3, <1>4, <1>5, <1>6, <1>7, <1>8, <1>9, <1>10, <1>11, <1>12, <1>13, <1>14,
       <1>15, <1>16, <1>17, <1>18, <1>19, <1>20, <1>21, <1>22, <1>23, <1>24, <1>25, <1>26,
       <1>27, <1>28
       DEF Next

\* The invariant besides types and tokens.
Rest == AuthedMeansUser /\ ProfileIsSought /\ ProfileMatchesTokens /\ StoreFollowsTab

\* Every step keeps the rest of the invariant.
LEMMA StepRest == IInv /\ [Next]_vars => Rest'
  <1> SUFFICES ASSUME IInv, [Next]_vars PROVE Rest'
    OBVIOUS
  <1> USE DEF IInv, TypeOK, TokensAreIssued, AuthedMeansUser, ProfileIsSought,
              ProfileMatchesTokens, StoreFollowsTab, Rest, Issued, AnySession, AnyUser, NoMe,
              MePaused, MeBy, MeEnabled, server, auth, calls, where, seen
  <1>1. ASSUME NEW p \in Pages, Reload(p) PROVE Rest'
    BY <1>1 DEF Reload, Load
  <1>2. ASSUME NEW p \in Pages, Visit(p) PROVE Rest'
    BY <1>2 DEF Visit, GoTo, AskBy
  <1>3. ASSUME NEW p \in AdminPages, MenuClick(p) PROVE Rest'
    BY <1>3 DEF MenuClick
  <1>4. ASSUME NEW s \in Sessions, NEW u \in Users, OAuthReturn(s, u) PROVE Rest'
    BY <1>4 DEF OAuthReturn, Issue, Load
  <1>5. ASSUME NEW s \in Sessions, NEW u \in Users, OtherTabLogsIn(s, u) PROVE Rest'
    BY <1>5 DEF OtherTabLogsIn, Issue
  <1>6. ASSUME NEW u \in Users, LoginSubmit(u) PROVE Rest'
    BY <1>6 DEF LoginSubmit
  <1>7. ASSUME NEW s \in Sessions, LoginAnswered(s) PROVE Rest'
    BY <1>7 DEF LoginAnswered, Issue, TakeLogin, AskBy
  <1>8. ASSUME NEW s \in Sessions, LateAnswer(s) PROVE Rest'
    BY <1>8 DEF LateAnswer, updateUser
  <1>9. ASSUME NEW s \in Sessions, LateLost(s) PROVE Rest'
    BY <1>9 DEF LateLost
  <1>10. ASSUME NEW s \in Sessions, TokenAges(s) PROVE Rest'
    BY <1>10 DEF TokenAges
  <1>11. CASE Mount
    <2>1. CASE store = NoSession \/ age[store] # "fresh"
      BY <1>11, <2>1 DEF Mount, AskBy
    <2>2. CASE ~(store = NoSession \/ age[store] # "fresh")
      BY <1>11, <2>2 DEF Mount, AskBy
    <2> QED
      BY <2>1, <2>2
  <1>12. CASE LoginFails
    BY <1>12 DEF LoginFails
  <1>13. CASE LoginLeadsOn
    BY <1>13 DEF LoginLeadsOn, GoTo, AskBy
  <1>14. CASE CallbackRuns
    BY <1>14 DEF CallbackRuns, TakeLogin
  <1>15. CASE CallbackFails
    BY <1>15 DEF CallbackFails
  <1>16. CASE CallbackRedirects
    BY <1>16 DEF CallbackRedirects, GoTo, AskBy
  <1>17. CASE LogoutClick
    <2>1. CASE refresh # NoSession
      BY <1>17, <2>1 DEF LogoutClick
    <2>2. CASE refresh = NoSession
      <3>1. user' = NoUser /\ access' = NoSession /\ authed' = FALSE /\ loading' = FALSE
        BY <1>17, <2>2 DEF LogoutClick, Forget
      <3>2. store' = NoSession /\ me'.state = "idle" /\ UNCHANGED owner
        BY <1>17, <2>2 DEF LogoutClick, Forget
      <3> QED
        BY <3>1, <3>2
    <2> QED
      BY <2>1, <2>2
  <1>18. CASE LogoutAnswered
    BY <1>18 DEF LogoutAnswered, Forget
  <1>19. CASE LogoutFails
    BY <1>19 DEF LogoutFails, Forget
  <1>20. CASE MeAnswered
    <2>1. /\ me.by \in Sessions /\ user' = owner[me.by] /\ user' # NoUser /\ authed' = TRUE
          /\ strayed' = (strayed \/ access # me.by)
      BY <1>20 DEF MeAnswered, updateUser
    <2>2. UNCHANGED <<owner, store, access, loading, foreign, late>>
      BY <1>20 DEF MeAnswered
    <2>3. ~loading
      BY <1>20 DEF MeAnswered
    <2>4. me \in Query /\ me'.state = "done"
      BY <1>20 DEF MeAnswered, Query
    <2> QED
      BY <2>1, <2>2, <2>3, <2>4
  <1>21. CASE MeFails
    <2>1. /\ me \in Query /\ me.state = "asked"
          /\ UNCHANGED <<server, store, auth, calls, where, seen>>
      BY <1>21 DEF MeFails
    <2>2. me'.state \in {"waiting", "failed"}
      BY <1>21, <2>1 DEF MeFails, Query
    <2> QED
      BY <2>1, <2>2
  <1>22. CASE ProfileSave
    BY <1>22 DEF ProfileSave
  <1>23. CASE GateToLogin
    BY <1>23 DEF GateToLogin
  <1>24. CASE GateToHome
    BY <1>24 DEF GateToHome
  <1>25. CASE OtherTabLogsOut
    BY <1>25 DEF OtherTabLogsOut
  <1>26. CASE UNCHANGED vars
    BY <1>26 DEF vars
  <1>27. CASE MeRetries
    <2>1. me \in Query /\ me.state = "waiting"
      BY <1>27 DEF MeRetries
    <2>2. me'.state \in {"asked", "paused"}
      BY <1>27, <2>1 DEF MeRetries, Query
    <2>3. UNCHANGED <<server, store, auth, calls, where, seen>>
      BY <1>27 DEF MeRetries
    <2> QED
      BY <2>1, <2>2, <2>3
  <1>28. CASE MeResumes
    <2>1. me \in Query /\ me.state = "paused"
      BY <1>28 DEF MeResumes
    <2>2. me'.state = "asked"
      BY <1>28, <2>1 DEF MeResumes, Query
    <2>3. UNCHANGED <<server, store, auth, calls, where, seen>>
      BY <1>28 DEF MeResumes
    <2> QED
      BY <2>1, <2>2, <2>3
  <1> QED
    BY <1>1, <1>2, <1>3, <1>4, <1>5, <1>6, <1>7, <1>8, <1>9, <1>10, <1>11, <1>12, <1>13, <1>14,
       <1>15, <1>16, <1>17, <1>18, <1>19, <1>20, <1>21, <1>22, <1>23, <1>24, <1>25, <1>26,
       <1>27, <1>28
       DEF Next

\* The invariant is inductive.
LEMMA StepInvariant == IInv /\ [Next]_vars => IInv'
  BY StepTypes, StepTokens, StepRest DEF IInv, Rest

\* It holds at every moment.
LEMMA Invariant == Spec => []IInv
  BY InitInvariant, StepInvariant, PTL DEF Spec

\* Every variable of a tab has its type (context.tsx, hooks.ts: the state of the provider and
\* of the queries).
THEOREM TypeCorrect == Spec => []TypeOK
  <1>1. IInv => TypeOK
    BY DEF IInv
  <1> QED
    BY <1>1, Invariant, PTL

\* With any number of logins, logouts and answers in any order, the user a tab shows owns the
\* tokens it sends, unless a profile asked for with other tokens has come in (updateUser).
THEOREM ProfileOwnsTokens == Spec => []ProfileMatchesTokens
  <1>1. IInv => ProfileMatchesTokens
    BY DEF IInv
  <1> QED
    BY <1>1, Invariant, PTL

\* The storage and the state of a tab that is alone hold the same tokens (storeTokens,
\* clearTokens and the setState beside them).
THEOREM StorageIsTheTabs == Spec => []StoreFollowsTab
  <1>1. IInv => StoreFollowsTab
    BY DEF IInv
  <1> QED
    BY <1>1, Invariant, PTL

\* The gates send nobody with a token to the login page while useMe is asking or about to:
\* only when its attempts are used up or React Query has paused them.
THEOREM NobodyIsSentAwayEarly == Spec => GateWaits
  <1>1. IInv => (GateToLogin => access = NoSession \/ me.state \in {"failed", "paused"})
    BY DEF IInv, ProfileIsSought, AuthedMeansUser, GateToLogin, Gated, Spinning, MeLoading,
           LoggedIn, MeEnabled
  <1>2. IInv /\ [Next]_vars => 
        [GateToLogin => access = NoSession \/ me.state \in {"failed", "paused"}]_vars
    BY <1>1
  <1> QED
    BY <1>2, Invariant, PTL DEF Spec, GateWaits

\* An entry of the sidebar leads into its page, whoever sees it (NAV_ITEMS against the gates
\* of the pages); the entry of the roles page alone asks for something else.
THEOREM MenuLeadsIn ==
  ASSUME NEW who \in Profile, NEW p \in visibleItems(who), p # "roles"
  PROVE  Admits(who, p)
  <1>1. Meets(who, NoDemand)
    BY DEF Meets, NoDemand
  <1>2. ASSUME NEW ps, hasAnyPermission(who, ps) PROVE Meets(who, AskAny(ps))
    BY <1>2 DEF Meets, AskAny, NoDemand
  <1>3. /\ p \in {"dashboard", "event", "users", "registrations", "roadmaps"}
        /\ who.super \/ NAV_ITEMS[p] = {} \/ hasAnyPermission(who, NAV_ITEMS[p])
    BY DEF visibleItems, NAV_ITEMS
  <1>4. CASE p \in {"dashboard", "roadmaps"}
    BY <1>1, <1>4 DEF Admits, Demand
  <1>5. CASE p \in {"event", "users", "registrations"}
    <2>1. Demand(p) = AskAny(NAV_ITEMS[p]) /\ NAV_ITEMS[p] # {}
      BY <1>5 DEF Demand, NAV_ITEMS, ListOrRead
    <2>2. hasAnyPermission(who, NAV_ITEMS[p])
      BY <1>3, <2>1 DEF hasAnyPermission
    <2> QED
      BY <1>2, <2>1, <2>2 DEF Admits
  <1> QED
    BY <1>3, <1>4, <1>5

\* Every page is open to a super admin.
THEOREM SuperAdminGoesAnywhere ==
  ASSUME NEW who \in Profile, who.super, NEW p \in AdminPage
  PROVE  Admits(who, p)
  BY DEF Admits, Demand, Meets, AskAny, NoDemand, hasAnyPermission

=============================================================================

CONSTANTS
  s1 = s1
  s2 = s2
  admin = admin
  editor = editor
  NoSession = NoSession
  NoUser = NoUser
  Sessions <- TwoSessions
  Users <- TwoUsers
  Retries = 1
  AdminPages <- TwoPages
  profileOf <- TwoProfiles
SPECIFICATION Spec
INVARIANT TypeOK
INVARIANT ProfileMatchesTokens
INVARIANT StoreFollowsTab
PROPERTY GateWaits
PROPERTY SpinnerEnds

CONSTANTS
  s1 = s1
  s2 = s2
  u1 = u1
  u2 = u2
  t1 = t1
  t2 = t2
  p1 = p1
  e1 = e1
  e2 = e2
  NoSlot = NoSlot
  NoUser = NoUser
  NoToken = NoToken
  NoEmail = NoEmail
  NoPassword = NoPassword
  Slots <- TwoSlots
  Users <- TwoUsers
  Tokens <- TwoTokens
  Passwords <- OnePassword
  Emails <- TwoEmails
  ActiveFlags <- OnlyTrue
  SuperFlags <- OnlyFalse
  Faulty = TRUE
SPECIFICATION Spec
SYMMETRY Symmetric
INVARIANT TypeOK
INVARIANT NoTokenWithoutUser
INVARIANT PasswordChangeEndsSessions
INVARIANT CirclesChangeAKey
PROPERTY SessionEndsForAReason

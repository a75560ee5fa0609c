CONSTANTS
  s1 = s1
  s2 = s2
  u1 = u1
  u2 = u2
  t1 = t1
  t2 = t2
  p1 = p1
  e1 = e1
  e2 = e2
  NoSlot = NoSlot
  NoUser = NoUser
  NoToken = NoToken
  NoEmail = NoEmail
  NoPassword = NoPassword
  Slots <- TwoSlots
  Users <- OneUser
  Tokens <- TwoTokens
  Passwords <- OnePassword
  Emails <- OneEmail
  ActiveFlags <- OnlyFalse
  SuperFlags <- OnlyTrue
  Faulty = FALSE
SPECIFICATION FairSpec
PROPERTY EveryRequestAnswered
PROPERTY ImplementsStore

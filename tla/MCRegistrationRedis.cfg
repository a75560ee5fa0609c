CONSTANTS
  s1 = s1
  s2 = s2
  s3 = s3
  r1 = r1
  r2 = r2
  e1 = e1
  e2 = e2
  NoSlot = NoSlot
  NoReg = NoReg
  NoEmail = NoEmail
  Nobody = Nobody
  Orphan = Orphan
  NoKey = NoKey
  Slots <- ThreeSlots
  Regs <- OneReg
  Emails <- OneEmail
  Mode = "redis"
  SlowDecisions = FALSE
  Faulty = TRUE
  HasMailer = TRUE
SYMMETRY Symmetric
SPECIFICATION Spec
INVARIANT TypeOK
INVARIANT ApprovalMailIsTrue
INVARIANT CirclesAreBroken

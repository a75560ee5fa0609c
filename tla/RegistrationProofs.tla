------------------------- MODULE RegistrationProofs -------------------------
(***************************************************************************)
(* Theorems about Registration for any number of slots, registrations and  *)
(* addresses, with the Redis or the no-op locker, with or without faults.  *)
(***************************************************************************)
EXTENDS RegistrationInv, TLAPS

USE RegistrationAssumption

TypeInv == TypeOK /\ StagesFit

\* The rows that operations build are rows.
LEMMA NullRows == FreeRow \in Row /\ DeletedRow \in Row
BY DEF Row, FreeRow, DeletedRow, Statuses

LEMMA NewRow ==
  ASSUME NEW e \in Emails
  PROVE  /\ [email |-> e, status |-> "pending", verified |-> FALSE] \in Row
         /\ [email |-> e, status |-> "pending", verified |-> FALSE].email = e
BY DEF Row, Statuses

LEMMA RowVerified ==
  ASSUME NEW r \in Row
  PROVE  [r EXCEPT !.verified = TRUE] \in Row
BY DEF Row

LEMMA RowDecided ==
  ASSUME NEW r \in Row, NEW st \in Statuses
  PROVE  [r EXCEPT !.status = st] \in Row
BY DEF Row

\* The locker's steps keep the locker's type.
LEMMA LockKeyType ==
  ASSUME RequestsTyped, StagesFit, NEW s \in Slots, pc[s] = "lock"
  PROVE  LockKey(s) \in LockKeys
BY DEF RequestsTyped, StagesFit, Fits, LockKey, LockKeys

LEMMA LockActionsType ==
  ASSUME Lock!TypeOK, NEW s \in Slots
  PROVE  /\ \A k \in LockKeys : Lock!Acquire(s, k) \/ Lock!Expire(k) => Lock!TypeOK'
         /\ \A k \in LockKeys : Lock!Refuse(s, k) => Lock!TypeOK'
         /\ Lock!Release(s) => Lock!TypeOK'
         /\ Lock!Abandon(s) => Lock!TypeOK'
         /\ UNCHANGED locker => Lock!TypeOK'
BY DEF Lock!TypeOK, Lock!Acquire, Lock!Refuse, Lock!Release, Lock!Abandon, Lock!Expire,
       Lock!lockVars, locker

\* A request that arrives in an idle slot.
LEMMA Arrives ==
  ASSUME RequestsTyped, StagesFit, NEW s \in Slots, NEW t \in Regs,
         NEW o \in Ops, NEW r \in Row,
         NEW p \in {"lock", "delete", "done"}, NEW a \in Answers,
         pc' = [pc EXCEPT ![s] = p], op' = [op EXCEPT ![s] = o],
         target' = [target EXCEPT ![s] = t], snap' = [snap EXCEPT ![s] = r],
         answer' = [answer EXCEPT ![s] = a],
         Fits(p, o), o = "register" => r.email \in Emails
  PROVE  RequestsTyped' /\ StagesFit'
<1>1. RequestsTyped'
  BY DEF RequestsTyped, Stages
<1>2. StagesFit'
  BY DEF RequestsTyped, StagesFit
<1> QED
  BY <1>1, <1>2

\* A request that moves on to another stage.
LEMMA Moves ==
  ASSUME RequestsTyped, StagesFit, NEW s \in Slots, pc[s] # "idle",
         NEW p \in Stages \ {"idle"}, NEW a \in Answers, NEW r \in Row,
         pc' = [pc EXCEPT ![s] = p], Fits(p, op[s]),
         answer' = [answer EXCEPT ![s] = a],
         snap' = [snap EXCEPT ![s] = r], r = snap[s] \/ op[s] # "register",
         UNCHANGED <<op, target>>
  PROVE  RequestsTyped' /\ StagesFit'
<1>1. RequestsTyped'
  BY DEF RequestsTyped
<1>2. StagesFit'
  BY DEF RequestsTyped, StagesFit
<1> QED
  BY <1>1, <1>2

\* The same, when the request only moves and its answer is settled or kept.
LEMMA Goes ==
  ASSUME RequestsTyped, StagesFit, NEW s \in Slots, pc[s] # "idle",
         NEW p \in Stages \ {"idle"}, NEW a \in Answers,
         Goto(s, p), Fits(p, op[s]),
         UNCHANGED answer \/ answer' = [answer EXCEPT ![s] = a],
         UNCHANGED <<op, target, snap>>
  PROVE  RequestsTyped' /\ StagesFit'
<1>1. RequestsTyped'
  BY DEF RequestsTyped, Goto
<1>2. StagesFit'
  BY DEF RequestsTyped, StagesFit, Goto
<1> QED
  BY <1>1, <1>2

LEMMA ReleaseRowsType ==
  ASSUME TablesTyped, NEW s \in Slots, ReleaseRows(s)
  PROVE  /\ rowLock' \in [Regs -> Slots \cup {NoSlot}]
         /\ tokenLock' \in [Regs -> Slots \cup {NoSlot}]
BY DEF TablesTyped, ReleaseRows

LEMMA RollbackType ==
  ASSUME TypeInv, NEW s \in Slots, pc[s] \in {"begin", "load", "save", "commit"},
         NEW a \in Answers, Rollback(s, a)
  PROVE  TypeInv'
<1>1. RequestsTyped' /\ StagesFit'
  BY Goes DEF TypeInv, TypeOK, Rollback, Reply, Fits, Stages
<1>2. TablesTyped'
  BY ReleaseRowsType DEF TypeInv, TypeOK, TablesTyped, Rollback
<1>3. MailsTyped' /\ Lock!TypeOK'
  BY LockActionsType DEF TypeInv, TypeOK, MailsTyped, Rollback
<1> QED
  BY <1>1, <1>2, <1>3 DEF TypeInv, TypeOK

\* What a step leaves alone keeps its type.
LEMMA Untouched ==
  ASSUME TypeInv
  PROVE  /\ UNCHANGED <<tables, dblocks>> => TablesTyped'
         /\ UNCHANGED request => RequestsTyped' /\ StagesFit'
         /\ UNCHANGED mails => MailsTyped'
         /\ UNCHANGED locker => Lock!TypeOK'
<1>1. UNCHANGED <<tables, dblocks>> => TablesTyped'
  BY DEF TypeInv, TypeOK, TablesTyped, tables, dblocks
<1>2. UNCHANGED request => RequestsTyped' /\ StagesFit'
  BY DEF TypeInv, TypeOK, RequestsTyped, StagesFit, request
<1>3. UNCHANGED mails => MailsTyped'
  BY DEF TypeInv, TypeOK, MailsTyped
<1>4. UNCHANGED locker => Lock!TypeOK'
  BY DEF TypeInv, TypeOK, Lock!TypeOK, locker
<1> QED
  BY <1>1, <1>2, <1>3, <1>4

\* The steps of requests that have arrived keep the types.
LEMMA ArrivalType ==
  ASSUME TypeInv, NEW s \in Slots, Arrival(s)
  PROVE  TypeInv'
<1> USE DEF TypeInv, TypeOK
<1>1. ASSUME NEW t \in Regs, NEW e \in Emails, Register(s, e, t)  PROVE TypeInv'
  <2> DEFINE row == [email |-> e, status |-> "pending", verified |-> FALSE]
  <2>1. row \in Row /\ row.email \in Emails
    BY NewRow
  <2> HIDE DEF row
  <2>2. /\ Arrive(s, "register", t, row)
        /\ \/ Goto(s, "lock") /\ answer' = answer
           \/ Reply(s, "done", "conflict")
        /\ UNCHANGED <<tables, dblocks, mails, locker>>
    BY <1>1 DEF Register, row
  <2>3. answer[s] \in Answers /\ answer = [answer EXCEPT ![s] = answer[s]]
    BY DEF RequestsTyped
  <2>4. RequestsTyped' /\ StagesFit'
    <3>1. CASE Goto(s, "lock") /\ answer' = answer
      BY <2>1, <2>2, <2>3, <3>1, Arrives DEF Arrive, Goto, Ops, Fits
    <3>2. CASE Reply(s, "done", "conflict")
      BY <2>1, <2>2, <2>3, <3>2, Arrives DEF Arrive, Goto, Reply, Ops, Fits, Answers
    <3> QED
      BY <2>2, <3>1, <3>2
  <2> QED
    BY <2>2, <2>4, Untouched
<1>2. ASSUME NEW t \in Regs, VerifyEmail(s, t)  PROVE TypeInv'
  <2>2. /\ Arrive(s, "verify", t, FreeRow)
        /\ \/ Goto(s, "lock") /\ answer' = answer
           \/ Reply(s, "done", "bad request")
        /\ UNCHANGED <<tables, dblocks, mails, locker>>
    BY <1>2 DEF VerifyEmail
  <2>3. answer[s] \in Answers /\ answer = [answer EXCEPT ![s] = answer[s]]
    BY DEF RequestsTyped
  <2>4. RequestsTyped' /\ StagesFit'
    <3>1. CASE Goto(s, "lock") /\ answer' = answer
      BY <2>2, <2>3, <3>1, NullRows, Arrives DEF Arrive, Goto, Ops, Fits
    <3>2. CASE Reply(s, "done", "bad request")
      BY <2>2, <2>3, <3>2, NullRows, Arrives DEF Arrive, Goto, Reply, Ops, Fits, Answers
    <3> QED
      BY <2>2, <3>1, <3>2
  <2> QED
    BY <2>2, <2>4, Untouched
<1>3. ASSUME NEW t \in Regs, NEW o \in {"approve", "reject"}, Decide(s, o, t)  PROVE TypeInv'
  <2>2. /\ Arrive(s, o, t, FreeRow) /\ Goto(s, "lock")
        /\ UNCHANGED <<tables, dblocks, mails, answer, locker>>
    BY <1>3 DEF Decide
  <2>3. answer[s] \in Answers /\ answer = [answer EXCEPT ![s] = answer[s]]
    BY DEF RequestsTyped
  <2>4. RequestsTyped' /\ StagesFit'
    BY <2>2, <2>3, NullRows, Arrives DEF Arrive, Goto, Ops, Fits
  <2> QED
    BY <2>2, <2>4, Untouched
<1>4. ASSUME NEW t \in Regs, AdminDelete(s, t)  PROVE TypeInv'
  <2>2. /\ Arrive(s, "delete", t, FreeRow) /\ Goto(s, "delete")
        /\ UNCHANGED <<tables, dblocks, mails, answer, locker>>
    BY <1>4 DEF AdminDelete
  <2>3. answer[s] \in Answers /\ answer = [answer EXCEPT ![s] = answer[s]]
    BY DEF RequestsTyped
  <2>4. RequestsTyped' /\ StagesFit'
    BY <2>2, <2>3, NullRows, Arrives DEF Arrive, Goto, Ops, Fits
  <2> QED
    BY <2>2, <2>4, Untouched
<1> QED
  BY <1>1, <1>2, <1>3, <1>4 DEF Arrival, AdminApprove, AdminReject

LEMMA StepType ==
  ASSUME TypeInv, NEW s \in Slots, Step(s)
  PROVE  TypeInv'
<1> USE DEF TypeInv, TypeOK
<1> DEFINE t == target[s]
<1>t. pc[s] # "idle" => t \in Regs
  BY DEF RequestsTyped, StagesFit
<1>l. /\ UNCHANGED rowLock => rowLock' \in [Regs -> Slots \cup {NoSlot}]
      /\ UNCHANGED tokenLock => tokenLock' \in [Regs -> Slots \cup {NoSlot}]
      /\ rowLock' = [rowLock EXCEPT ![t] = s] => rowLock' \in [Regs -> Slots \cup {NoSlot}]
      /\ tokenLock' = [tokenLock EXCEPT ![t] = s] => tokenLock' \in [Regs -> Slots \cup {NoSlot}]
  BY DEF TablesTyped
<1>1. CASE Enter(s)
  <2>1. RequestsTyped' /\ StagesFit'
    <3>1. PICK p \in {"begin", "load"} : Goto(s, p) /\ Fits(p, op[s])
      BY <1>1 DEF Enter, StagesFit, Fits
    <3> QED
      BY <1>1, <3>1, Goes DEF Enter, Stages, Answers
  <2>2. Lock!TypeOK'
    BY <1>1, LockKeyType, LockActionsType DEF Enter
  <2> QED
    BY <1>1, <2>1, <2>2, Untouched DEF Enter
<1>2. CASE LockRefused(s)
  <2>1. RequestsTyped' /\ StagesFit'
    BY <1>2, Goes DEF LockRefused, Reply, Stages, StagesFit, Fits, Answers
  <2>2. Lock!TypeOK'
    BY <1>2, LockKeyType, LockActionsType DEF LockRefused
  <2> QED
    BY <1>2, <2>1, <2>2, Untouched DEF LockRefused
<1>3. CASE CreateRegistration(s)
  <2>1. CASE Rollback(s, "error")
    BY <1>3, <2>1, RollbackType DEF CreateRegistration, Answers
  <2>2. CASE ~Rollback(s, "error")
    <3>1. RequestsTyped' /\ StagesFit'
      BY <1>3, <2>2, Goes DEF CreateRegistration, Stages, StagesFit, Fits, Answers
    <3>2. TablesTyped'
      BY <1>3, <2>2, <1>l DEF CreateRegistration, TablesTyped, tables
    <3> QED
      BY <1>3, <2>2, <3>1, <3>2, Untouched DEF CreateRegistration
  <2> QED
    BY <2>1, <2>2
<1>4. CASE CommitRegister(s)
  <2>1. RequestsTyped' /\ StagesFit'
    BY <1>4, Goes DEF CommitRegister, Reply, Stages, StagesFit, Fits, Answers
  <2>2. TablesTyped'
    BY <1>4, ReleaseRowsType DEF CommitRegister, TablesTyped, RequestsTyped
  <2> QED
    BY <1>4, <2>1, <2>2, Untouched DEF CommitRegister
<1>5. CASE SendVerification(s)
  <2>1. RequestsTyped' /\ StagesFit'
    BY <1>5, Goes DEF SendVerification, Reply, Stages, StagesFit, Fits, Answers
  <2>2. t \in Regs /\ (mails' = mails \/ mails' = mails \cup {<<"verify", t>>})
    BY <1>5, <1>t DEF SendVerification
  <2>3. MailsTyped'
    BY <2>2 DEF MailsTyped
  <2> QED
    BY <1>5, <2>1, <2>3, Untouched DEF SendVerification
<1>6. CASE MarkUsed(s)
  <2>1. RequestsTyped' /\ StagesFit'
    BY <1>6, Goes DEF MarkUsed, Stages, StagesFit, Fits, Answers
  <2>2. TablesTyped'
    BY <1>6, <1>l DEF MarkUsed, TablesTyped, tables
  <2> QED
    BY <1>6, <2>1, <2>2, Untouched DEF MarkUsed
<1>7. CASE LoadForVerify(s)
  <2>1. CASE Rollback(s, "error")
    BY <1>7, <2>1, RollbackType DEF LoadForVerify, Answers
  <2>2. CASE ~Rollback(s, "error")
    <3> DEFINE row == [regs[t] EXCEPT !.verified = TRUE]
    <3>1. row \in Row
      BY <1>7, <1>t, RowVerified DEF LoadForVerify, TablesTyped
    <3>2. PICK p \in {"commit", "save"} : Goto(s, p)
      BY <1>7, <2>2 DEF LoadForVerify
    <3>3. /\ pc[s] = "load" /\ op[s] = "verify" /\ snap' = [snap EXCEPT ![s] = row]
          /\ UNCHANGED <<tables, dblocks, mails, op, target, answer, locker>>
      BY <1>7, <2>2 DEF LoadForVerify
    <3> HIDE DEF row
    <3>4. answer[s] \in Answers /\ answer = [answer EXCEPT ![s] = answer[s]]
      BY DEF RequestsTyped
    <3>5. RequestsTyped' /\ StagesFit'
      BY <3>1, <3>2, <3>3, <3>4, Moves DEF Goto, Stages, Fits
    <3> QED
      BY <3>3, <3>5, Untouched
  <2> QED
    BY <2>1, <2>2
<1>8. CASE LoadForApprove(s)
  <2>1. CASE \E a \in Answers : Rollback(s, a)
    BY <1>8, <2>1, RollbackType DEF LoadForApprove
  <2>2. CASE ~ \E a \in Answers : Rollback(s, a)
    <3> DEFINE row == [regs[t] EXCEPT !.status = "approved"]
    <3>1. row \in Row
      BY <1>8, <1>t, RowDecided DEF LoadForApprove, TablesTyped, Statuses
    <3>2. /\ pc[s] = "load" /\ op[s] = "approve" /\ snap' = [snap EXCEPT ![s] = row]
          /\ Goto(s, "save")
          /\ UNCHANGED <<tables, dblocks, mails, op, target, answer, locker>>
      BY <1>8, <2>2 DEF LoadForApprove, Answers
    <3> HIDE DEF row
    <3>3. answer[s] \in Answers /\ answer = [answer EXCEPT ![s] = answer[s]]
      BY DEF RequestsTyped
    <3>4. RequestsTyped' /\ StagesFit'
      BY <3>1, <3>2, <3>3, Moves DEF Goto, Stages, Fits
    <3> QED
      BY <3>2, <3>4, Untouched
  <2> QED
    BY <2>1, <2>2
<1>9. CASE LoadForReject(s)
  <2>1. CASE \E a \in Answers : Rollback(s, a)
    BY <1>9, <2>1, RollbackType DEF LoadForReject
  <2>2. CASE ~ \E a \in Answers : Rollback(s, a)
    <3> DEFINE row == [regs[t] EXCEPT !.status = "rejected"]
    <3>1. row \in Row
      BY <1>9, <1>t, RowDecided DEF LoadForReject, TablesTyped, Statuses
    <3>2. /\ pc[s] = "load" /\ op[s] = "reject" /\ snap' = [snap EXCEPT ![s] = row]
          /\ Goto(s, "save")
          /\ UNCHANGED <<tables, dblocks, mails, op, target, answer, locker>>
      BY <1>9, <2>2 DEF LoadForReject, Answers
    <3> HIDE DEF row
    <3>3. answer[s] \in Answers /\ answer = [answer EXCEPT ![s] = answer[s]]
      BY DEF RequestsTyped
    <3>4. RequestsTyped' /\ StagesFit'
      BY <3>1, <3>2, <3>3, Moves DEF Goto, Stages, Fits
    <3> QED
      BY <3>2, <3>4, Untouched
  <2> QED
    BY <2>1, <2>2
<1>10. CASE Save(s)
  <2>1. CASE Rollback(s, "error")
    BY <1>10, <2>1, RollbackType DEF Save, Answers
  <2>2. CASE ~Rollback(s, "error")
    <3>1. RequestsTyped' /\ StagesFit'
      BY <1>10, <2>2, Goes DEF Save, Stages, StagesFit, Fits, Answers
    <3>2. TablesTyped'
      BY <1>10, <2>2, <1>l DEF Save, TablesTyped, tables
    <3> QED
      BY <1>10, <2>2, <3>1, <3>2, Untouched DEF Save
  <2> QED
    BY <2>1, <2>2
<1>11. CASE CommitUpdate(s)
  <2>1. RequestsTyped' /\ StagesFit'
    BY <1>11, Goes DEF CommitUpdate, Reply, Stages, StagesFit, Fits, Answers
  <2>2. TablesTyped'
    BY <1>11, ReleaseRowsType DEF CommitUpdate, TablesTyped, RequestsTyped
  <2> QED
    BY <1>11, <2>1, <2>2, Untouched DEF CommitUpdate
<1>12. CASE Unlock(s)
  <2>1. RequestsTyped' /\ StagesFit'
    <3>1. PICK p \in {"mail", "done"} : Goto(s, p) /\ Fits(p, op[s])
      BY <1>12 DEF Unlock, StagesFit, Fits
    <3> QED
      BY <1>12, <3>1, Goes DEF Unlock, Stages, Answers
  <2>2. t \in Regs /\ (mails' = mails \/ mails' = mails \cup {<<"approved", t>>})
    BY <1>12, <1>t DEF Unlock
  <2>3. MailsTyped'
    BY <2>2 DEF MailsTyped
  <2>4. Lock!TypeOK'
    BY <1>12, LockActionsType DEF Unlock
  <2> QED
    BY <1>12, <2>1, <2>3, <2>4, Untouched DEF Unlock
<1>13. CASE DeleteRow(s)
  <2>1. RequestsTyped' /\ StagesFit'
    BY <1>13, Goes DEF DeleteRow, Reply, Stages, StagesFit, Fits, Answers
  <2>2. TablesTyped'
    BY <1>13, <1>l DEF DeleteRow, TablesTyped, tables
  <2> QED
    BY <1>13, <2>1, <2>2, Untouched DEF DeleteRow
<1>14. CASE DeleteCascade(s)
  <2>1. RequestsTyped' /\ StagesFit'
    BY <1>14, Goes DEF DeleteCascade, Reply, Stages, StagesFit, Fits, Answers
  <2>2. TablesTyped'
    BY <1>14, ReleaseRowsType, NullRows DEF DeleteCascade, TablesTyped
  <2> QED
    BY <1>14, <2>1, <2>2, Untouched DEF DeleteCascade
<1>15. CASE DeadlockVictim(s)
  <2> PICK q \in Slots : \/ Deadlocked(q, s) /\ Rollback(s, "error")
                         \/ /\ Deadlocked(s, q) /\ ReleaseRows(s)
                            /\ Reply(s, "done", "error")
                            /\ UNCHANGED <<tables, mails, op, target, snap, locker>>
    BY <1>15 DEF DeadlockVictim
  <2>1. CASE Deadlocked(q, s) /\ Rollback(s, "error")
    BY <2>1, RollbackType DEF Deadlocked, Answers
  <2>2. CASE /\ Deadlocked(s, q) /\ ReleaseRows(s)
             /\ Reply(s, "done", "error")
             /\ UNCHANGED <<tables, mails, op, target, snap, locker>>
    <3>1. RequestsTyped' /\ StagesFit'
      BY <2>2, Goes DEF Deadlocked, Reply, Stages, Fits, Answers
    <3>2. TablesTyped'
      BY <2>2, ReleaseRowsType DEF TablesTyped, tables
    <3> QED
      BY <2>2, <3>1, <3>2, Untouched
  <2> QED
    BY <2>1, <2>2
<1>16. CASE Return(s)
  <2>1. RequestsTyped'
    BY <1>16, NullRows DEF Return, Reply, Goto, RequestsTyped, Stages, Ops, Answers
  <2>2. StagesFit'
    BY <1>16, <2>1 DEF Return, Reply, Goto, RequestsTyped, StagesFit, Fits
  <2> QED
    BY <1>16, <2>1, <2>2, Untouched DEF Return
<1> QED
  BY <1>1, <1>2, <1>3, <1>4, <1>5, <1>6, <1>7, <1>8, <1>9, <1>10, <1>11, <1>12,
     <1>13, <1>14, <1>15, <1>16 DEF Step

LEMMA FaultType ==
  ASSUME TypeInv, NEW s \in Slots, Fault(s)
  PROVE  TypeInv'
<1> USE DEF TypeInv, TypeOK
<1>1. CASE DatabaseError(s)
  BY <1>1, RollbackType DEF DatabaseError, Answers
<1>2. CASE Cancelled(s)
  <2>1. RequestsTyped' /\ StagesFit'
    BY <1>2, Goes DEF Cancelled, Reply, Stages, Fits, Answers
  <2>2. TablesTyped'
    BY <1>2, ReleaseRowsType DEF Cancelled, TablesTyped, tables
  <2>3. Lock!TypeOK'
    BY <1>2, LockActionsType DEF Cancelled
  <2> QED
    BY <1>2, <2>1, <2>2, <2>3, Untouched DEF Cancelled
<1> QED
  BY <1>1, <1>2 DEF Fault

LEMMA TypeInvInductive == TypeInv /\ [Next]_vars => TypeInv'
<1> SUFFICES ASSUME TypeInv, [Next]_vars  PROVE TypeInv'
  OBVIOUS
<1> USE DEF TypeInv, TypeOK
<1>1. ASSUME NEW t \in Regs, TokenExpires(t)  PROVE TypeInv'
  <2>1. TablesTyped'
    BY <1>1 DEF TokenExpires, TablesTyped, dblocks
  <2> QED
    BY <1>1, <2>1, Untouched DEF TokenExpires
<1>2. ASSUME NEW k \in LockKeys, LockExpires(k)  PROVE TypeInv'
  <2>1. Lock!TypeOK'
    BY <1>2 DEF LockExpires, Lock!TypeOK, Lock!Expire
  <2> QED
    BY <1>2, <2>1, Untouched DEF LockExpires
<1>3. CASE UNCHANGED vars
  BY <1>3, Untouched DEF vars, tables, dblocks, request, locker
<1> QED
  BY <1>1, <1>2, <1>3, ArrivalType, StepType, FaultType DEF Next

LEMMA TypeInvInitially == Init => TypeInv
<1> SUFFICES ASSUME Init  PROVE TypeInv
  OBVIOUS
<1>1. TablesTyped
  BY NullRows DEF Init, TablesTyped
<1>2. RequestsTyped
  BY NullRows DEF Init, RequestsTyped, Stages, Ops, Answers
<1>3. StagesFit /\ MailsTyped
  BY DEF Init, StagesFit, MailsTyped, Fits
<1>4. Lock!TypeOK
  BY DEF Init, Lock!Init, Lock!TypeOK
<1> QED
  BY <1>1, <1>2, <1>3, <1>4 DEF TypeInv, TypeOK

\* Every state of every behaviour is well typed, and no request reaches a
\* stage that its operation does not have: the stages shared by register,
\* verify, approve and reject never mix the operations up.
THEOREM TypeCorrect == Spec => [](TypeOK /\ StagesFit)
<1>1. Spec => []TypeInv
  BY TypeInvInitially, TypeInvInductive, PTL DEF Spec
<1> QED
  BY <1>1, PTL DEF TypeInv
=============================================================================

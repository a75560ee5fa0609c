------------------------- MODULE RegistrationEmails -------------------------
(***************************************************************************)
(* The unique index on registrations.email, for all constants: EmailInv is *)
(* preserved by every step of a system in IInv, and OneActivePerEmail      *)
(* follows with the Redis locker, with the no-op locker and with faults.   *)
(***************************************************************************)
EXTENDS RegistrationSafety

USE RegistrationAssumption

\* A request in progress has a registration.
LEMMA Targets ==
  ASSUME TypeInv, NEW s \in Slots, pc[s] # "idle"
  PROVE  target[s] \in Regs
BY DEF TypeInv, TypeOK, RequestsTyped, StagesFit

\* s is outside its transaction when the step ends, or its transaction has only
\* taken a row; it takes and releases no row for another request.
LEMMA OutsideWrites ==
  ASSUME TypeInv, EmailInv, NEW s \in Slots, pc'[s] \notin {"save", "commit"},
         \A q \in Slots \ {s} : /\ pc'[q] = pc[q] /\ op'[q] = op[q]
                                /\ target'[q] = target[q] /\ snap'[q] = snap[q],
         \A t \in Regs : \A q \in Slots \ {s} : rowLock'[t] = q <=> rowLock[t] = q,
         UNCHANGED regs
  PROVE  EmailInv'
<1> USE DEF EmailInv
<1>t. \A q \in Slots : pc[q] # "idle" => target[q] \in Regs
  BY Targets
<1>h. /\ ~Holding(s)'
      /\ \A q \in Slots \ {s} : Holding(q)' <=> Holding(q)
  BY <1>t DEF Holding
<1>1. InsertHoldsRow'
  BY <1>h DEF InsertHoldsRow
<1>2. AddressKept'
  BY DEF AddressKept, Present
<1>3. NoRival'
  BY <1>h, <1>t DEF NoRival, Present, Holding
<1>4. OneRowPerEmail'
  BY DEF OneRowPerEmail, Present
<1> QED
  BY <1>1, <1>2, <1>3, <1>4

\* A verification or decision copies the row it has read, address included.
LEMMA ReadsAddress ==
  ASSUME TypeInv, EmailInv, NEW s \in Slots, pc[s] = "load",
         Present(target[s]), NEW r \in Row, r.email = regs[target[s]].email,
         NEW p \in {"save", "commit"}, p = "commit" => op[s] = "verify",
         rowLock[target[s]] # s,
         pc' = [pc EXCEPT ![s] = p], snap' = [snap EXCEPT ![s] = r],
         UNCHANGED <<regs, dblocks, op, target>>
  PROVE  EmailInv'
<1> USE DEF EmailInv, dblocks
<1>t. \A q \in Slots : pc[q] # "idle" => target[q] \in Regs
  BY Targets
<1>y. pc \in [Slots -> Stages] /\ snap \in [Slots -> Row]
  BY DEF TypeInv, TypeOK, RequestsTyped
<1>h. /\ ~Holding(s)'
      /\ \A q \in Slots \ {s} : Holding(q)' <=> Holding(q)
  BY <1>y DEF Holding
<1>1. InsertHoldsRow'
  BY <1>h, <1>y DEF InsertHoldsRow
<1>2. AddressKept'
  BY <1>y DEF AddressKept, Present
<1>3. NoRival'
  BY <1>h, <1>t, <1>y DEF NoRival, Present, Holding
<1>4. OneRowPerEmail'
  BY DEF OneRowPerEmail, Present
<1> QED
  BY <1>1, <1>2, <1>3, <1>4

\* INSERT or UPDATE of the registration's row: an insert has waited for the
\* transactions on its address and found no row with it; an update keeps the
\* address that its row has.
LEMMA TakesAddress ==
  ASSUME TypeInv, SafeInv, EmailInv, NEW s \in Slots,
         \/ pc[s] = "begin" /\ op[s] = "register"
         \/ pc[s] = "save" /\ rowLock[target[s]] = NoSlot,
         ~Present(target[s]) => ~EmailBusy(s) /\ ~EmailTaken(s),
         rowLock' = [rowLock EXCEPT ![target[s]] = s],
         pc' = [pc EXCEPT ![s] = "commit"],
         UNCHANGED <<regs, op, target, snap>>
  PROVE  EmailInv'
<1> DEFINE t == target[s]
<1> USE DEF EmailInv
<1>t. t \in Regs /\ \A q \in Slots : pc[q] # "idle" => target[q] \in Regs
  BY Targets
<1>y. /\ pc \in [Slots -> Stages] /\ rowLock \in [Regs -> Slots \cup {NoSlot}]
      /\ op \in [Slots -> Ops]
  BY DEF TypeInv, TypeOK, TablesTyped, RequestsTyped
<1>r. op[s] = "register" /\ pc[s] = "begin"
        => /\ regs[t].status = "free"
           /\ \A q \in Slots : target[q] = t /\ pc[q] # "idle" => q = s
  BY <1>t DEF SafeInv, FreeIds, Registering, TypeInv, StagesFit, Fits
<1>f. \A q \in Slots \ {s} : ~(Holding(q) /\ target[q] = t)
  BY <1>t, <1>r, <1>y DEF Holding
<1>h. /\ Holding(s)'
      /\ \A q \in Slots \ {s} : Holding(q)' <=> Holding(q)
  BY <1>t, <1>y, <1>f DEF Holding
<1>1. InsertHoldsRow'
  BY <1>h, <1>y DEF InsertHoldsRow
<1>2. AddressKept'
  BY <1>r, <1>t, <1>y DEF AddressKept, Present, Statuses
<1>3. NoRival'
  <2>1. \A u \in Regs \ {t} : Present(u) => regs[u].email # snap[s].email
    <3>1. CASE Present(t)
      <4>1. regs[t].email = snap[s].email
        BY <3>1, <1>r DEF AddressKept, Present, Statuses
      <4> QED
        BY <3>1, <4>1, <1>t DEF OneRowPerEmail
    <3>2. CASE ~Present(t)
      BY <3>2 DEF EmailTaken
    <3> QED
      BY <3>1, <3>2
  <2>2. \A q \in Slots \ {s} : Holding(q) => snap[q].email # snap[s].email
    <3>1. CASE Present(t)
      <4>1. regs[t].email = snap[s].email
        BY <3>1, <1>r DEF AddressKept, Present, Statuses
      <4> QED
        BY <3>1, <4>1, <1>t, <1>f DEF NoRival
    <3>2. CASE ~Present(t)
      BY <3>2, <1>t DEF EmailBusy, Holding
    <3> QED
      BY <3>1, <3>2
  <2>3. \A q \in Slots : q # s /\ Holding(q) =>
          \A u \in Regs \ {target[q]} : Present(u) => regs[u].email # snap[q].email
    BY DEF NoRival
  <2>4. \A q \in Slots : q # s /\ Holding(q) =>
          \A x \in Slots \ {s, q} : Holding(x) => snap[x].email # snap[q].email
    BY DEF NoRival
  <2> QED
    BY <1>h, <2>1, <2>2, <2>3, <2>4 DEF NoRival, Present
<1>4. OneRowPerEmail'
  BY DEF OneRowPerEmail, Present
<1> QED
  BY <1>1, <1>2, <1>3, <1>4

\* COMMIT of the row that s holds.
LEMMA WritesAddress ==
  ASSUME TypeInv, SafeInv, EmailInv, NEW s \in Slots, Holding(s),
         regs' = [regs EXCEPT ![target[s]] = snap[s]],
         ReleaseRows(s), pc' = [pc EXCEPT ![s] = "unlock"],
         UNCHANGED <<op, target, snap>>
  PROVE  EmailInv'
<1> DEFINE t == target[s]
<1> USE DEF EmailInv
<1>t. t \in Regs /\ \A q \in Slots : pc[q] # "idle" => target[q] \in Regs
  BY Targets DEF Holding
<1>y. pc \in [Slots -> Stages] /\ regs \in [Regs -> Row]
  BY DEF TypeInv, TypeOK, TablesTyped, RequestsTyped
<1>a. /\ pc[s] = "commit" /\ regs'[t] = snap[s]
      /\ \A u \in Regs \ {t} : regs'[u] = regs[u]
      /\ pc'[s] = "unlock" /\ \A q \in Slots \ {s} : pc'[q] = pc[q]
  BY <1>t, <1>y DEF Holding
<1>h. /\ ~Holding(s)'
      /\ \A q \in Slots \ {s} : Holding(q)' <=> Holding(q)
  BY <1>a, <1>t DEF Holding, ReleaseRows
<1>f. \A q \in Slots \ {s} : ~(Holding(q) /\ target[q] = t)
  BY DEF Holding
<1>1. InsertHoldsRow'
  BY <1>h, <1>a DEF InsertHoldsRow
<1>2. AddressKept'
  BY <1>a, <1>t DEF AddressKept, Present
<1>3. NoRival'
  BY <1>h, <1>a, <1>t, <1>f DEF NoRival, Present
<1>4. OneRowPerEmail'
  BY <1>a, <1>t DEF OneRowPerEmail, NoRival, Present
<1> QED
  BY <1>1, <1>2, <1>3, <1>4

\* The end of a DELETE.
LEMMA RemovesAddress ==
  ASSUME TypeInv, EmailInv, NEW s \in Slots, DeleteCascade(s)
  PROVE  EmailInv'
<1> DEFINE t == target[s]
<1> USE DEF EmailInv
<1>t. t \in Regs /\ \A q \in Slots : pc[q] # "idle" => target[q] \in Regs
  BY Targets DEF DeleteCascade
<1>y. pc \in [Slots -> Stages] /\ regs \in [Regs -> Row]
  BY DEF TypeInv, TypeOK, TablesTyped, RequestsTyped
<1>a. /\ ~Present(t)'
      /\ \A u \in Regs \ {t} : regs'[u] = regs[u]
      /\ pc'[s] = "done" /\ \A q \in Slots \ {s} : pc'[q] = pc[q]
      /\ UNCHANGED <<op, target, snap>>
  BY <1>t, <1>y DEF DeleteCascade, Reply, Goto, Present, DeletedRow, Statuses
<1>h. /\ ~Holding(s)'
      /\ \A q \in Slots \ {s} : Holding(q)' <=> Holding(q)
  BY <1>a, <1>t DEF Holding, DeleteCascade, ReleaseRows
<1>1. InsertHoldsRow'
  BY <1>h, <1>a DEF InsertHoldsRow
<1>2. AddressKept'
  BY <1>a, <1>t DEF AddressKept, Present
<1>3. NoRival'
  BY <1>h, <1>a DEF NoRival, Present
<1>4. OneRowPerEmail'
  BY <1>a DEF OneRowPerEmail, Present
<1> QED
  BY <1>1, <1>2, <1>3, <1>4

\* A transaction ends without writing its registration.
LEMMA LeavesAddress ==
  ASSUME TypeInv, EmailInv, NEW s \in Slots, NEW p \in {"unlock", "done"},
         ReleaseRows(s), Goto(s, p), UNCHANGED <<regs, op, target, snap>>
  PROVE  EmailInv'
<1>1. pc'[s] = p /\ \A q \in Slots \ {s} : pc'[q] = pc[q]
  BY DEF Goto, TypeInv, TypeOK, RequestsTyped
<1>2. \A t \in Regs : \A q \in Slots \ {s} : rowLock'[t] = q <=> rowLock[t] = q
  BY DEF ReleaseRows
<1> QED
  BY <1>1, <1>2, OutsideWrites

LEMMA RollbackKeepsEmails ==
  ASSUME TypeInv, EmailInv, NEW s \in Slots, NEW a, Rollback(s, a)
  PROVE  EmailInv'
BY LeavesAddress DEF Rollback, Reply, tables

\* A request moves between stages outside its writes.
LEMMA MovesOutside ==
  ASSUME TypeInv, EmailInv, NEW s \in Slots, NEW p \in Stages \ {"save", "commit"},
         Goto(s, p), UNCHANGED <<regs, rowLock, op, target, snap>>
  PROVE  EmailInv'
<1>1. pc'[s] = p /\ \A q \in Slots \ {s} : pc'[q] = pc[q]
  BY DEF Goto, TypeInv, TypeOK, RequestsTyped
<1> QED
  BY <1>1, OutsideWrites

\* A request arrives in an idle slot, or returns.
LEMMA ComesOrGoes ==
  ASSUME TypeInv, EmailInv, NEW s \in Slots, NEW p \in {"idle", "lock", "delete", "done"},
         NEW o, NEW t, NEW r,
         Goto(s, p), op' = [op EXCEPT ![s] = o], target' = [target EXCEPT ![s] = t],
         snap' = [snap EXCEPT ![s] = r], UNCHANGED <<regs, rowLock>>
  PROVE  EmailInv'
<1>1. /\ pc'[s] = p
      /\ \A q \in Slots \ {s} : /\ pc'[q] = pc[q] /\ op'[q] = op[q]
                                /\ target'[q] = target[q] /\ snap'[q] = snap[q]
  BY DEF Goto, TypeInv, TypeOK, RequestsTyped
<1> QED
  BY <1>1, OutsideWrites

LEMMA ArrivalKeepsEmails ==
  ASSUME TypeInv, EmailInv, NEW s \in Slots, Arrival(s)
  PROVE  EmailInv'
<1>1. ASSUME NEW t \in Regs, NEW e \in Emails, Register(s, e, t)  PROVE EmailInv'
  BY <1>1, ComesOrGoes DEF Register, Arrive, Reply, tables, dblocks
<1>2. ASSUME NEW t \in Regs, VerifyEmail(s, t)  PROVE EmailInv'
  BY <1>2, ComesOrGoes DEF VerifyEmail, Arrive, Reply, tables, dblocks
<1>3. ASSUME NEW t \in Regs, AdminApprove(s, t) \/ AdminReject(s, t)  PROVE EmailInv'
  BY <1>3, ComesOrGoes DEF AdminApprove, AdminReject, Decide, Arrive, tables, dblocks
<1>4. ASSUME NEW t \in Regs, AdminDelete(s, t)  PROVE EmailInv'
  BY <1>4, ComesOrGoes DEF AdminDelete, Arrive, tables, dblocks
<1> QED
  BY <1>1, <1>2, <1>3, <1>4 DEF Arrival

\* The three reads of a registration by a verification or decision.
LEMMA LoadKeepsEmails ==
  ASSUME TypeInv, SafeInv, EmailInv, NEW s \in Slots,
         LoadForVerify(s) \/ LoadForApprove(s) \/ LoadForReject(s)
  PROVE  EmailInv'
<1> DEFINE row == regs[target[s]]
<1>1. CASE \E a \in Answers : Rollback(s, a)
  BY <1>1, RollbackKeepsEmails
<1>2. CASE ~\E a \in Answers : Rollback(s, a)
  <2>1. /\ pc[s] = "load" /\ Present(target[s])
        /\ UNCHANGED <<regs, dblocks, op, target>>
    BY <1>2 DEF LoadForVerify, LoadForApprove, LoadForReject, Answers, tables, Present, Statuses
  <2>2. row \in Row
    BY <2>1, Targets DEF TypeInv, TypeOK, TablesTyped
  <2>3. rowLock[target[s]] # s
    BY <2>1, Targets DEF SafeInv, RowLocksHeld, TypeInv, TypeOK, TablesTyped
  <2>4. CASE LoadForVerify(s)
    <3>1. PICK p \in {"save", "commit"} :
            /\ op[s] = "verify" /\ pc' = [pc EXCEPT ![s] = p]
            /\ snap' = [snap EXCEPT ![s] = [row EXCEPT !.verified = TRUE]]
      BY <2>4, <1>2 DEF LoadForVerify, Goto, Answers
    <3>2. /\ [row EXCEPT !.verified = TRUE] \in Row
          /\ [row EXCEPT !.verified = TRUE].email = row.email
      BY <2>2 DEF Row
    <3> QED
      BY <2>1, <2>3, <3>1, <3>2, ReadsAddress
  <2>5. CASE LoadForApprove(s) \/ LoadForReject(s)
    <3>1. PICK st \in Statuses :
            /\ pc' = [pc EXCEPT ![s] = "save"]
            /\ snap' = [snap EXCEPT ![s] = [row EXCEPT !.status = st]]
      BY <2>5, <1>2 DEF LoadForApprove, LoadForReject, Goto, Answers, Statuses
    <3>2. /\ [row EXCEPT !.status = st] \in Row
          /\ [row EXCEPT !.status = st].email = row.email
      BY <2>2, RowDecided DEF Row
    <3> QED
      BY <2>1, <2>3, <3>1, <3>2, ReadsAddress
  <2> QED
    BY <2>4, <2>5
<1> QED
  BY <1>1, <1>2

\* COMMIT of a registration, a verification or a decision.
LEMMA CommitKeepsEmails ==
  ASSUME TypeInv, SafeInv, EmailInv, NEW s \in Slots,
         CommitRegister(s) \/ CommitUpdate(s)
  PROVE  EmailInv'
<1>1. /\ pc[s] = "commit" /\ ReleaseRows(s) /\ Goto(s, "unlock")
      /\ UNCHANGED <<op, target, snap>>
  BY DEF CommitRegister, CommitUpdate, Reply
<1>2. CASE Holding(s)
  <2>1. regs' = [regs EXCEPT ![target[s]] = snap[s]]
    BY <1>2 DEF CommitRegister, CommitUpdate, Holding
  <2> QED
    BY <1>1, <1>2, <2>1, WritesAddress DEF Goto
<1>3. CASE ~Holding(s)
  <2>1. UNCHANGED regs
    BY <1>1, <1>3 DEF CommitRegister, CommitUpdate, Holding, EmailInv, InsertHoldsRow
  <2> QED
    BY <1>1, <2>1, LeavesAddress
<1> QED
  BY <1>2, <1>3

LEMMA StepKeepsEmails ==
  ASSUME TypeInv, SafeInv, EmailInv, NEW s \in Slots, Step(s)
  PROVE  EmailInv'
<1>1. CASE Enter(s) \/ LockRefused(s)
  BY <1>1, MovesOutside DEF Enter, LockRefused, Reply, Stages, tables, dblocks
<1>2. CASE CreateRegistration(s)
  <2>1. CASE EmailTaken(s) /\ Rollback(s, "error")
    BY <2>1, RollbackKeepsEmails
  <2>2. CASE ~(EmailTaken(s) /\ Rollback(s, "error"))
    BY <1>2, <2>2, TakesAddress DEF CreateRegistration, Goto, tables
  <2> QED
    BY <2>1, <2>2
<1>3. CASE CommitRegister(s) \/ CommitUpdate(s)
  BY <1>3, CommitKeepsEmails
<1>4. CASE SendVerification(s)
  BY <1>4, MovesOutside DEF SendVerification, Reply, Stages, tables, dblocks
<1>5. CASE MarkUsed(s)
  BY <1>5, MovesOutside DEF MarkUsed, Stages, tables
<1>6. CASE LoadForVerify(s) \/ LoadForApprove(s) \/ LoadForReject(s)
  BY <1>6, LoadKeepsEmails
<1>7. CASE Save(s)
  <2>1. CASE Rollback(s, "error")
    BY <2>1, RollbackKeepsEmails
  <2>2. CASE ~Rollback(s, "error")
    BY <1>7, <2>2, TakesAddress DEF Save, Goto, tables
  <2> QED
    BY <2>1, <2>2
<1>8. CASE Unlock(s)
  BY <1>8, MovesOutside DEF Unlock, Stages, tables, dblocks
<1>9. CASE DeleteRow(s)
  <2>1. CASE ~Present(target[s])
    BY <1>9, <2>1, MovesOutside DEF DeleteRow, Reply, Stages, tables
  <2>2. CASE Present(target[s])
    <3>1. /\ pc'[s] = "cascade" /\ \A q \in Slots \ {s} : pc'[q] = pc[q]
          /\ target[s] \in Regs
      BY <1>9, <2>2, Targets DEF DeleteRow, Goto, TypeInv, TypeOK, RequestsTyped
    <3>2. \A t \in Regs : \A q \in Slots \ {s} : rowLock'[t] = q <=> rowLock[t] = q
      BY <1>9, <2>2, <3>1 DEF DeleteRow, TypeInv, TypeOK, TablesTyped
    <3> QED
      BY <1>9, <3>1, <3>2, OutsideWrites DEF DeleteRow, tables
  <2> QED
    BY <2>1, <2>2
<1>10. CASE DeleteCascade(s)
  BY <1>10, RemovesAddress
<1>11. CASE DeadlockVictim(s)
  BY <1>11, RollbackKeepsEmails, LeavesAddress DEF DeadlockVictim, Reply, tables
<1>12. CASE Return(s)
  BY <1>12, ComesOrGoes DEF Return, Reply, tables, dblocks
<1> QED
  BY <1>1, <1>2, <1>3, <1>4, <1>5, <1>6, <1>7, <1>8, <1>9, <1>10, <1>11, <1>12 DEF Step

LEMMA FaultKeepsEmails ==
  ASSUME TypeInv, EmailInv, NEW s \in Slots, Fault(s)
  PROVE  EmailInv'
<1>1. CASE DatabaseError(s)
  BY <1>1, RollbackKeepsEmails DEF DatabaseError
<1>2. CASE Cancelled(s)
  BY <1>2, LeavesAddress DEF Cancelled, Reply, tables
<1> QED
  BY <1>1, <1>2 DEF Fault

\* Nothing EmailInv reads has changed.
LEMMA EmailsUnchanged ==
  ASSUME EmailInv, UNCHANGED <<regs, rowLock, pc, op, target, snap>>
  PROVE  EmailInv'
BY DEF EmailInv, InsertHoldsRow, AddressKept, NoRival, OneRowPerEmail, Holding, Present

LEMMA EmailsInductive == TypeInv /\ SafeInv /\ EmailInv /\ [Next]_vars => EmailInv'
<1> SUFFICES ASSUME TypeInv, SafeInv, EmailInv, [Next]_vars  PROVE EmailInv'
  OBVIOUS
<1>1. ASSUME NEW k \in LockKeys, LockExpires(k)  PROVE EmailInv'
  BY <1>1, EmailsUnchanged DEF LockExpires, tables, dblocks, request
<1>2. ASSUME NEW t \in Regs, TokenExpires(t)  PROVE EmailInv'
  BY <1>2, EmailsUnchanged DEF TokenExpires, dblocks, request
<1>3. CASE UNCHANGED vars
  BY <1>3, EmailsUnchanged DEF vars
<1> QED
  BY <1>1, <1>2, <1>3, ArrivalKeepsEmails, StepKeepsEmails, FaultKeepsEmails DEF Next

LEMMA EmailsInitially == Init => EmailInv
BY DEF Init, FreeRow, EmailInv, InsertHoldsRow, AddressKept, NoRival, OneRowPerEmail,
       Holding, Present, Statuses

\* Two active registrations never share an address: the check before the lock, the
\* unique index and the row locks keep them apart through every interleaving of
\* registrations, deletes and Saves that bring a deleted row back.
THEOREM AddressesAreUnique == Spec => []OneActivePerEmail
<1>1. Init => TypeInv /\ SafeInv /\ EmailInv
  BY TypeInvInitially, SafeInitially, EmailsInitially
<1>2. TypeInv /\ SafeInv /\ EmailInv /\ [Next]_vars => (TypeInv /\ SafeInv /\ EmailInv)'
  BY TypeInvInductive, SafeInductive, EmailsInductive
<1>3. EmailInv => OneActivePerEmail
  BY DEF EmailInv, OneRowPerEmail, OneActivePerEmail, Active, Present, Statuses
<1> QED
  BY <1>1, <1>2, <1>3, PTL DEF Spec
=============================================================================

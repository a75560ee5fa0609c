----------------------- MODULE RegistrationApprovals -----------------------
(***************************************************************************)
(* What the distributed lock is for, for all constants: with Redis, and    *)
(* decisions that finish within the TTL of their key, an approval whose    *)
(* mail is sent is never followed by a rejection.  Then the whole service: *)
(* with and without the lock every request takes effect in one step        *)
(* (RegistrationBook), and the service uses the locker as Locker allows.   *)
(***************************************************************************)
EXTENDS RegistrationEmails

USE RegistrationAssumption

InSection == {"load", "save", "commit", "unlock"}

-----------------------------------------------------------------------------
(* The key of a decision.                                                  *)

\* Whoever decides after the step decided before it, and kept the key.
LEMMA KeyKept ==
  ASSUME DecisionHoldsKey,
         \A s \in Slots : op'[s] \in {"approve", "reject"} /\ pc'[s] \in InSection =>
           /\ op[s] = op'[s] /\ target[s] = target'[s] /\ pc[s] \in InSection
           /\ section'[s] = section[s]
           /\ LET k == <<"id", target[s]>> IN holder[k] = s => holder'[k] = s
  PROVE  DecisionHoldsKey'
BY DEF DecisionHoldsKey, InSection

\* The steps that leave the locker alone and grant no key.
LEMMA KeyUntouched ==
  ASSUME DecisionHoldsKey, UNCHANGED locker,
         \A s \in Slots : op'[s] \in {"approve", "reject"} /\ pc'[s] \in InSection =>
           op[s] = op'[s] /\ target[s] = target'[s] /\ pc[s] \in InSection
  PROVE  DecisionHoldsKey'
BY KeyKept DEF locker

\* A key that s holds is lost by no other request's step.
LEMMA KeySafe ==
  ASSUME Mode = "redis", TypeInv, NEW s \in Slots, NEW k \in LockKeys, holder[k] = s
  PROVE  /\ \A q \in Slots : \A l \in LockKeys : Lock!Acquire(q, l) => holder'[k] = s
         /\ \A q \in Slots : \A l \in LockKeys : Lock!Refuse(q, l) => holder'[k] = s
         /\ \A q \in Slots \ {s} : Lock!Release(q) \/ Lock!Abandon(q) => holder'[k] = s
         /\ ~SlowDecisions => \A l \in LockKeys : Lock!Expire(l) => holder'[k] = s
<1> USE DEF TypeInv, TypeOK, Lock!TypeOK
<1>1. \A q \in Slots : \A l \in LockKeys :
        Lock!Acquire(q, l) \/ Lock!Refuse(q, l) => holder'[k] = s
  BY DEF Lock!Acquire, Lock!Refuse
<1>2. \A q \in Slots \ {s} : Lock!Release(q) \/ Lock!Abandon(q) => holder'[k] = s
  BY DEF Lock!Release, Lock!Abandon
<1>3. ~SlowDecisions => \A l \in LockKeys : Lock!Expire(l) => holder'[k] = s
  BY DEF Lock!Expire, SlowKeys
<1> QED
  BY <1>1, <1>2, <1>3

LEMMA SectionsOnly ==
  ASSUME TypeInv, NEW s \in Slots
  PROVE  /\ \A k \in LockKeys : Lock!Acquire(s, k) =>
              section' = [section EXCEPT ![s] = k] /\ (Mode = "redis" => holder'[k] = s)
         /\ \A k \in LockKeys : Lock!Refuse(s, k) => UNCHANGED section
         /\ Lock!Release(s) \/ Lock!Abandon(s) => section' = [section EXCEPT ![s] = NoKey]
BY DEF TypeInv, TypeOK, Lock!TypeOK, Lock!Acquire, Lock!Refuse, Lock!Release, Lock!Abandon

\* WithLock grants the key of s.
LEMMA EntersWithKey ==
  ASSUME Mode = "redis", TypeInv, DecisionHoldsKey, NEW s \in Slots, Enter(s)
  PROVE  DecisionHoldsKey'
<1> USE DEF TypeInv, TypeOK, RequestsTyped
<1>1. LockKey(s) \in LockKeys
  BY LockKeyType DEF Enter
<1>2. /\ section' = [section EXCEPT ![s] = LockKey(s)] /\ holder'[LockKey(s)] = s
      /\ UNCHANGED <<op, target>>
      /\ \A q \in Slots \ {s} : pc'[q] = pc[q] /\ section'[q] = section[q]
  BY <1>1, SectionsOnly DEF Enter, Goto, Lock!TypeOK
<1>3. section'[s] = LockKey(s)
  BY <1>2 DEF Lock!TypeOK
<1>4. op[s] \in {"approve", "reject"} => LockKey(s) = <<"id", target[s]>>
  BY DEF LockKey
<1>5. \A q \in Slots \ {s} : \A k \in LockKeys : holder[k] = q => holder'[k] = q
  BY <1>1, KeySafe DEF Enter
<1>6. \A q \in Slots : target[q] \in Regs => <<"id", target[q]>> \in LockKeys
  BY DEF LockKeys
<1>7. \A q \in Slots : pc[q] # "idle" => target[q] \in Regs
  BY DEF StagesFit
<1> QED
  BY <1>2, <1>3, <1>4, <1>5, <1>6, <1>7 DEF DecisionHoldsKey

\* A request is refused, unlocks, or goes away.
LEMMA LeavesKey ==
  ASSUME Mode = "redis", TypeInv, DecisionHoldsKey, NEW s \in Slots,
         NEW p \in {"mail", "done"}, pc' = [pc EXCEPT ![s] = p], UNCHANGED <<op, target>>,
         \/ \E k \in LockKeys : Lock!Refuse(s, k)
         \/ Lock!Release(s) \/ Lock!Abandon(s) \/ UNCHANGED locker
  PROVE  DecisionHoldsKey'
<1> USE DEF TypeInv, TypeOK, RequestsTyped
<1>1. \A q \in Slots \ {s} : pc'[q] = pc[q] /\ section'[q] = section[q]
  BY SectionsOnly DEF Lock!TypeOK, locker
<1>2. \A q \in Slots \ {s} : \A k \in LockKeys : holder[k] = q => holder'[k] = q
  BY KeySafe DEF locker
<1>3. \A q \in Slots : pc[q] # "idle" => target[q] \in Regs
  BY DEF StagesFit
<1>4. \A q \in Slots : target[q] \in Regs => <<"id", target[q]>> \in LockKeys
  BY DEF LockKeys
<1> QED
  BY <1>1, <1>2, <1>3, <1>4 DEF DecisionHoldsKey

\* An arrival moves its slot to the first stage of its operation and touches
\* neither the registrations nor the locker.
LEMMA ArrivalMoves ==
  ASSUME TypeInv, NEW s \in Slots, Arrival(s)
  PROVE  /\ \E p \in {"lock", "delete", "done"} : Goto(s, p)
         /\ UNCHANGED <<regs, mails, locker>>
         /\ \A q \in Slots \ {s} : /\ op'[q] = op[q] /\ answer'[q] = answer[q]
                                   /\ target'[q] = target[q] /\ snap'[q] = snap[q]
<1> USE DEF TypeInv, TypeOK, RequestsTyped, Arrive, tables, locker
<1>1. ASSUME NEW t \in Regs, NEW e \in Emails, Register(s, e, t)
      PROVE  /\ \E p \in {"lock", "done"} : Goto(s, p)
             /\ UNCHANGED <<regs, mails, locker>>
             /\ \A q \in Slots \ {s} : /\ op'[q] = op[q] /\ answer'[q] = answer[q]
                                       /\ target'[q] = target[q] /\ snap'[q] = snap[q]
  BY <1>1 DEF Register, Reply
<1>2. ASSUME NEW t \in Regs, VerifyEmail(s, t)
      PROVE  /\ \E p \in {"lock", "done"} : Goto(s, p)
             /\ UNCHANGED <<regs, mails, locker>>
             /\ \A q \in Slots \ {s} : /\ op'[q] = op[q] /\ answer'[q] = answer[q]
                                       /\ target'[q] = target[q] /\ snap'[q] = snap[q]
  BY <1>2 DEF VerifyEmail, Reply
<1>3. ASSUME NEW t \in Regs, AdminApprove(s, t) \/ AdminReject(s, t) \/ AdminDelete(s, t)
      PROVE  /\ \E p \in {"lock", "delete"} : Goto(s, p)
             /\ UNCHANGED <<regs, mails, locker>>
             /\ \A q \in Slots \ {s} : /\ op'[q] = op[q] /\ answer'[q] = answer[q]
                                       /\ target'[q] = target[q] /\ snap'[q] = snap[q]
  BY <1>3 DEF AdminApprove, AdminReject, AdminDelete, Decide
<1> QED
  BY <1>1, <1>2, <1>3 DEF Arrival

LEMMA KeyStep ==
  ASSUME Mode = "redis", TypeInv, DecisionHoldsKey, NEW s \in Slots,
         Arrival(s) \/ Step(s) \/ Fault(s)
  PROVE  DecisionHoldsKey'
<1> USE DEF TypeInv, TypeOK, RequestsTyped, InSection
<1>1. CASE Enter(s)
  BY <1>1, EntersWithKey
<1>2. CASE LockRefused(s)
  <2>1. LockKey(s) \in LockKeys
    BY <1>2, LockKeyType DEF LockRefused
  <2> QED
    BY <1>2, <2>1, LeavesKey DEF LockRefused, Reply, Goto
<1>3. CASE Unlock(s)
  BY <1>3, LeavesKey DEF Unlock, Goto
<1>4. CASE Cancelled(s)
  BY <1>4, LeavesKey DEF Cancelled, Reply, Goto
<1>5. CASE Arrival(s)
  <2>1. PICK p \in {"lock", "delete", "done"} : Goto(s, p)
    BY <1>5, ArrivalMoves
  <2>2. pc'[s] = p /\ \A q \in Slots \ {s} : pc'[q] = pc[q]
    BY <2>1 DEF Goto
  <2>3. UNCHANGED locker /\ \A q \in Slots \ {s} : op'[q] = op[q] /\ target'[q] = target[q]
    BY <1>5, ArrivalMoves
  <2> QED
    BY <2>2, <2>3, KeyUntouched
<1>6. CASE Return(s)
  <2>1. UNCHANGED locker /\ \A q \in Slots \ {s} : pc'[q] = pc[q] /\ op'[q] = op[q]
                                                  /\ target'[q] = target[q]
    BY <1>6 DEF Return, Reply, Goto
  <2>2. pc'[s] = "idle"
    BY <1>6 DEF Return, Reply, Goto
  <2> QED
    BY <2>1, <2>2, KeyUntouched
<1>7. ASSUME NEW p \in Stages, Goto(s, p), p \in InSection => pc[s] \in InSection \cup {"begin"},
             UNCHANGED <<op, target, locker>>
      PROVE  DecisionHoldsKey'
  <2>1. op[s] \in {"approve", "reject"} => pc[s] # "begin"
    BY DEF StagesFit, Fits
  <2> QED
    BY <1>7, <2>1, KeyUntouched DEF Goto
<1>8. ASSUME NEW a, Rollback(s, a), pc[s] \in {"begin", "load", "save", "commit"}
      PROVE  DecisionHoldsKey'
  BY <1>8, <1>7 DEF Rollback, Reply, Stages
<1>9. CASE CreateRegistration(s) \/ MarkUsed(s) \/ LoadForVerify(s) \/ LoadForApprove(s)
           \/ LoadForReject(s) \/ Save(s) \/ DatabaseError(s)
  <2>1. PICK p \in Stages : Goto(s, p)
    BY <1>9 DEF CreateRegistration, MarkUsed, LoadForVerify, LoadForApprove, LoadForReject,
                Save, DatabaseError, Rollback, Reply, Stages
  <2>2. pc[s] \in {"begin", "load", "save", "commit"} /\ UNCHANGED <<op, target, locker>>
    BY <1>9 DEF CreateRegistration, MarkUsed, LoadForVerify, LoadForApprove, LoadForReject,
                Save, DatabaseError, Rollback
  <2> QED
    BY <2>1, <2>2, <1>7
<1>10. CASE CommitRegister(s) \/ CommitUpdate(s)
  BY <1>10, <1>7 DEF CommitRegister, CommitUpdate, Reply, Stages
<1>11. CASE SendVerification(s) \/ DeleteRow(s) \/ DeleteCascade(s)
  <2>1. PICK p \in {"done", "cascade"} : Goto(s, p)
    BY <1>11 DEF SendVerification, DeleteRow, DeleteCascade, Reply
  <2>2. UNCHANGED <<op, target, locker>>
    BY <1>11 DEF SendVerification, DeleteRow, DeleteCascade
  <2> QED
    BY <2>1, <2>2, <1>7 DEF Stages
<1>12. CASE DeadlockVictim(s)
  BY <1>12, <1>7, <1>8 DEF DeadlockVictim, Deadlocked, Reply, Stages
<1> QED
  BY <1>1, <1>2, <1>3, <1>4, <1>5, <1>6, <1>9, <1>10, <1>11, <1>12 DEF Step, Fault

LEMMA KeyInductive ==
  ASSUME Mode = "redis", ~SlowDecisions, TypeInv, DecisionHoldsKey, [Next]_vars
  PROVE  DecisionHoldsKey'
<1>1. ASSUME NEW k \in LockKeys, LockExpires(k)  PROVE DecisionHoldsKey'
  <2>1. \A q \in Slots : pc[q] # "idle" => target[q] \in Regs
    BY DEF TypeInv, TypeOK, RequestsTyped, StagesFit
  <2>2. \A q \in Slots : target[q] \in Regs => <<"id", target[q]>> \in LockKeys
    BY DEF LockKeys
  <2>3. UNCHANGED <<op, target, pc, section>>
    BY <1>1 DEF LockExpires, request, Lock!Expire
  <2>4. \A q \in Slots : \A l \in LockKeys : holder[l] = q => holder'[l] = q
    BY <1>1, KeySafe DEF LockExpires
  <2> QED
    BY <2>1, <2>2, <2>3, <2>4 DEF DecisionHoldsKey
<1>2. ASSUME NEW t \in Regs, TokenExpires(t)  PROVE DecisionHoldsKey'
  BY <1>2 DEF TokenExpires, request, locker, DecisionHoldsKey
<1>3. CASE UNCHANGED vars
  BY <1>3 DEF vars, DecisionHoldsKey
<1> QED
  BY <1>1, <1>2, <1>3, KeyStep DEF Next

\* Two decisions are never inside their functions for one registration.
LEMMA OneDecision ==
  ASSUME DecisionHoldsKey, NEW s \in Slots, NEW q \in Slots, target[s] = target[q],
         op[s] \in {"approve", "reject"}, op[q] \in {"approve", "reject"},
         pc[s] \in InSection, pc[q] \in InSection
  PROVE  s = q
BY DEF DecisionHoldsKey, InSection
-----------------------------------------------------------------------------
(* The promise of an approval mail.                                        *)

\* The step ends outside the writes of s, commits no approval and mails only
\* what has been promised.
LEMMA PromisesUntouched ==
  ASSUME PromiseInv, NEW s \in Slots, pc'[s] \notin {"save", "commit"},
         ~(pc'[s] = "unlock" /\ answer'[s] = "ok"),
         \A q \in Slots \ {s} : /\ pc'[q] = pc[q] /\ op'[q] = op[q] /\ answer'[q] = answer[q]
                                /\ target'[q] = target[q] /\ snap'[q] = snap[q],
         \A t \in Regs : <<"approved", t>> \in mails' => Promised(t),
         UNCHANGED regs
  PROVE  PromiseInv'
<1>1. \A t \in Regs : Promised(t)' => Promised(t)
  BY DEF Promised
<1>2. \A t \in Regs : Approving(t)' => Approving(t)
  BY <1>1 DEF Approving
<1>3. PromiseKept'
  BY <1>1 DEF PromiseInv, PromiseKept
<1>4. NoRejectionBehind'
  BY <1>2 DEF PromiseInv, NoRejectionBehind
<1>5. RejectionSeen'
  BY DEF PromiseInv, RejectionSeen
<1> QED
  BY <1>3, <1>4, <1>5 DEF PromiseInv

\* INSERT or UPDATE of the registration's row, before COMMIT.
LEMMA TakingRowKeepsPromises ==
  ASSUME TypeInv, SafeInv, PromiseInv, NEW s \in Slots,
         pc[s] = "save" \/ (pc[s] = "begin" /\ op[s] = "register"),
         pc' = [pc EXCEPT ![s] = "commit"],
         UNCHANGED <<regs, mails, op, target, snap, answer>>
  PROVE  PromiseInv'
<1> USE DEF TypeInv, TypeOK, RequestsTyped
<1>r. pc[s] = "begin" => snap[s].status = "pending"
  BY DEF SafeInv, Snapshots, Registering
<1>1. \A t \in Regs : Promised(t)' => Promised(t)
  BY DEF Promised
<1>2. \A t \in Regs : Approving(t)' => Approving(t)
  BY <1>1 DEF Approving
<1>3. PromiseKept'
  BY <1>1 DEF PromiseInv, PromiseKept
<1>4. NoRejectionBehind'
  BY <1>2, <1>r DEF PromiseInv, NoRejectionBehind
<1>5. RejectionSeen'
  BY DEF PromiseInv, RejectionSeen
<1> QED
  BY <1>3, <1>4, <1>5 DEF PromiseInv

\* GetByID of a verification: "rejected" is copied only from a rejected row.
LEMMA VerificationKeepsPromises ==
  ASSUME TypeInv, PromiseInv, NEW s \in Slots, NEW p \in {"save", "commit"},
         op[s] = "verify", NEW r \in Row, r.status = regs[target[s]].status,
         pc' = [pc EXCEPT ![s] = p], snap' = [snap EXCEPT ![s] = r],
         target[s] \in Regs, UNCHANGED <<regs, mails, op, target, answer>>
  PROVE  PromiseInv'
<1> USE DEF TypeInv, TypeOK, RequestsTyped
<1>1. \A t \in Regs : Promised(t)' => Promised(t)
  BY DEF Promised
<1>2. \A t \in Regs : Approving(t)' => Approving(t)
  BY <1>1 DEF Approving
<1>3. PromiseKept'
  BY <1>1 DEF PromiseInv, PromiseKept
<1>4. NoRejectionBehind'
  BY <1>2 DEF PromiseInv, NoRejectionBehind
<1>5. RejectionSeen'
  BY DEF PromiseInv, RejectionSeen
<1> QED
  BY <1>3, <1>4, <1>5 DEF PromiseInv

\* GetByID and the checks of a decision: an approval sees no rejection, neither
\* in the row nor in a verification that has read one, and a rejection finds no
\* approval under way, because both hold the key of the registration.
LEMMA DecisionKeepsPromises ==
  ASSUME TypeInv, SafeInv, DecisionHoldsKey, PromiseInv, NEW s \in Slots, pc[s] = "load",
         NEW st \in {"approved", "rejected"},
         op[s] = IF st = "approved" THEN "approve" ELSE "reject",
         Present(target[s]), regs[target[s]].status # "rejected" \/ st = "rejected",
         regs[target[s]].status # "approved" \/ st = "approved",
         pc' = [pc EXCEPT ![s] = "save"],
         NEW r \in Row, r.status = st, snap' = [snap EXCEPT ![s] = r],
         UNCHANGED <<regs, mails, op, target, answer>>
  PROVE  PromiseInv'
<1> DEFINE t == target[s]
<1> USE DEF TypeInv, TypeOK, RequestsTyped
<1>t. t \in Regs
  BY DEF StagesFit
<1>1. \A u \in Regs : Promised(u)' => Promised(u)
  BY DEF Promised
<1>2. \A u \in Regs : Approving(u)' => Approving(u) \/ (u = t /\ st = "approved")
  BY <1>1 DEF Approving
<1>o. \A q \in Slots \ {s} : target[q] = t /\ pc[q] \in InSection
        => op[q] \notin {"approve", "reject"}
  BY OneDecision DEF InSection
<1>3. PromiseKept'
  BY <1>1 DEF PromiseInv, PromiseKept
<1>4. NoRejectionBehind'
  <2>1. CASE st = "approved"
    <3>1. \A q \in Slots \ {s} : target[q] = t /\ pc[q] \in {"save", "commit"}
            => snap[q].status # "rejected"
      <4> SUFFICES ASSUME NEW q \in Slots \ {s}, target[q] = t, pc[q] \in {"save", "commit"},
                          snap[q].status = "rejected"
                   PROVE  FALSE
        OBVIOUS
      <4>1. op[q] \in {"verify", "register"}
        BY <1>o DEF InSection, StagesFit, Fits
      <4>2. CASE op[q] = "verify"
        BY <2>1, <4>2 DEF PromiseInv, RejectionSeen, Present, Statuses
      <4>3. CASE op[q] = "register"
        BY <4>3 DEF SafeInv, Snapshots, Registering, StagesFit, Fits
      <4> QED
        BY <4>1, <4>2, <4>3
    <3> QED
      BY <1>2, <2>1, <3>1, <1>t DEF PromiseInv, NoRejectionBehind
  <2>2. CASE st = "rejected"
    <3>1. ~Promised(t)
      BY <1>t, <2>2 DEF PromiseInv, PromiseKept, Present, Statuses
    <3>2. ~Approving(t)
      BY <3>1, <1>o, <2>2 DEF Approving, InSection
    <3> QED
      BY <1>2, <2>2, <3>2 DEF PromiseInv, NoRejectionBehind
  <2> QED
    BY <2>1, <2>2
<1>5. RejectionSeen'
  BY DEF PromiseInv, RejectionSeen
<1> QED
  BY <1>3, <1>4, <1>5 DEF PromiseInv

\* COMMIT of a registration, under an id that was free.
LEMMA RegistrationKeepsPromises ==
  ASSUME TypeInv, SafeInv, PromiseInv, NEW s \in Slots, CommitRegister(s)
  PROVE  PromiseInv'
<1> DEFINE t == target[s]
<1> USE DEF TypeInv, TypeOK, TablesTyped, RequestsTyped
<1>a. /\ pc[s] = "commit" /\ op[s] = "register" /\ t \in Regs
      /\ regs' = [regs EXCEPT ![t] = snap[s]]
      /\ pc' = [pc EXCEPT ![s] = "unlock"]
      /\ \A q \in Slots \ {s} : answer'[q] = answer[q]
      /\ UNCHANGED <<mails, op, target, snap>>
  BY DEF CommitRegister, Reply, Goto, StagesFit
<1>n. snap[s].status = "pending" /\ regs[t].status = "free"
  BY <1>a DEF SafeInv, Snapshots, FreeIds, Registering
<1>o. \A q \in Slots : pc[q] # "idle" /\ target[q] = t => op[q] = "register"
  BY <1>n DEF SafeInv, FreeIds
<1>1. \A u \in Regs : Promised(u)' => Promised(u) /\ u # t
  <2>1. \A u \in Regs : Promised(u)' => Promised(u)
    BY <1>a DEF Promised
  <2> QED
    BY <2>1, <1>n DEF PromiseInv, PromiseKept
<1>2. \A u \in Regs : Approving(u)' => Approving(u) /\ u # t
  BY <1>1, <1>a, <1>o DEF Approving
<1>3. PromiseKept'
  BY <1>1, <1>a DEF PromiseInv, PromiseKept
<1>4. NoRejectionBehind'
  BY <1>2, <1>a DEF PromiseInv, NoRejectionBehind
<1>5. RejectionSeen'
  BY <1>a, <1>o DEF PromiseInv, RejectionSeen
<1> QED
  BY <1>3, <1>4, <1>5 DEF PromiseInv

\* COMMIT of a verification or decision: what it writes over a promised
\* approval is an approval.
LEMMA UpdateKeepsPromises ==
  ASSUME TypeInv, SafeInv, PromiseInv, NEW s \in Slots, CommitUpdate(s),
         op[s] = "approve" => rowLock[target[s]] = s
  PROVE  PromiseInv'
<1> DEFINE t == target[s]
           wrote == rowLock[t] = s
<1> USE DEF TypeInv, TypeOK, TablesTyped, RequestsTyped
<1>a. /\ pc[s] = "commit" /\ op[s] # "register" /\ t \in Regs
      /\ regs' = IF wrote THEN [regs EXCEPT ![t] = snap[s]] ELSE regs
      /\ pc' = [pc EXCEPT ![s] = "unlock"]
      /\ \A q \in Slots \ {s} : answer'[q] = answer[q]
      /\ UNCHANGED <<mails, op, target, snap>>
  BY DEF CommitUpdate, Reply, Goto, StagesFit
<1>w. wrote => /\ snap[s].status \in Statuses
               /\ snap[s].status = "pending"
                    => op[s] = "verify" /\ tokens[t] \in {"fresh", "expired"}
  BY <1>a, Written
<1>m. snap[s].status = "approved" /\ wrote => op[s] = "approve"
  BY <1>a DEF SafeInv, Snapshots, Writing, StagesFit, Fits
<1>c. op[s] = "approve" => wrote /\ snap[s].status = "approved"
  BY <1>a DEF SafeInv, Snapshots
<1>1. \A u \in Regs : Promised(u)' => Promised(u) \/ (u = t /\ op[s] = "approve")
  BY <1>a DEF Promised
<1>2. \A u \in Regs : Approving(u)' => Approving(u)
  <2>1. op[s] = "approve" => Approving(t)
    BY <1>a DEF Approving
  <2> QED
    BY <1>1, <2>1, <1>a DEF Approving
<1>3. PromiseKept'
  <2>1. op[s] = "approve" => regs'[t].status = "approved"
    BY <1>a, <1>c
  <2>2. Promised(t) /\ wrote => snap[s].status = "approved"
    <3>1. Promised(t) => snap[s].status # "rejected" /\ regs[t].status \in {"approved", "deleted"}
      BY <1>a DEF PromiseInv, PromiseKept, NoRejectionBehind, Approving
    <3>2. tokens[t] \in {"fresh", "expired"} => regs[t].status \notin {"approved", "deleted"}
      BY <1>a DEF SafeInv, UnusedMeansUnverified, ApprovedIsVerified, KnownIds, Present, Statuses
    <3> QED
      BY <3>1, <3>2, <1>w DEF Statuses
  <2> QED
    BY <1>1, <1>a, <2>1, <2>2 DEF PromiseInv, PromiseKept
<1>4. NoRejectionBehind'
  BY <1>2, <1>a DEF PromiseInv, NoRejectionBehind
<1>5. RejectionSeen'
  <2> SUFFICES ASSUME NEW q \in Slots \ {s}, op[q] = "verify", pc[q] \in {"save", "commit"},
                      snap[q].status = "rejected", target[q] = t, wrote
               PROVE  snap[s].status = "rejected"
    BY <1>a DEF PromiseInv, RejectionSeen
  <2>1. snap[s].status # "approved"
    BY <1>a, <1>m DEF PromiseInv, NoRejectionBehind, Approving
  <2>2. snap[s].status # "pending"
    <3>1. tokens[t] \in {"fresh", "expired"} => tokenLock[t] = q
      BY <1>a DEF SafeInv, VerifierHoldsToken, Verifying
    <3>2. op[s] = "verify" /\ tokens[t] \in {"fresh", "expired"} => tokenLock[t] = s
      BY <1>a DEF SafeInv, VerifierHoldsToken, Verifying
    <3> QED
      BY <3>1, <3>2, <1>w
  <2> QED
    BY <2>1, <2>2, <1>w DEF Statuses
<1> QED
  BY <1>3, <1>4, <1>5 DEF PromiseInv

\* The end of a DELETE.
LEMMA DeleteKeepsPromises ==
  ASSUME TypeInv, PromiseInv, NEW s \in Slots, DeleteCascade(s)
  PROVE  PromiseInv'
<1> DEFINE t == target[s]
<1> USE DEF TypeInv, TypeOK, TablesTyped, RequestsTyped
<1>a. /\ t \in Regs /\ regs'[t].status = "deleted"
      /\ \A u \in Regs \ {t} : regs'[u] = regs[u]
      /\ pc' = [pc EXCEPT ![s] = "done"]
      /\ \A q \in Slots \ {s} : answer'[q] = answer[q]
      /\ UNCHANGED <<mails, op, target, snap>>
  BY DEF DeleteCascade, Reply, Goto, StagesFit, DeletedRow
<1>1. \A u \in Regs : Promised(u)' => Promised(u)
  BY <1>a DEF Promised
<1>2. \A u \in Regs : Approving(u)' => Approving(u)
  BY <1>1, <1>a DEF Approving
<1>3. PromiseKept'
  BY <1>1, <1>a DEF PromiseInv, PromiseKept
<1>4. NoRejectionBehind'
  BY <1>2, <1>a DEF PromiseInv, NoRejectionBehind
<1>5. RejectionSeen'
  BY <1>a, Targets DEF PromiseInv, RejectionSeen
<1> QED
  BY <1>3, <1>4, <1>5 DEF PromiseInv

\* A transaction ends without a commit.
LEMMA AbortKeepsPromises ==
  ASSUME TypeInv, PromiseInv, NEW s \in Slots, NEW p \in {"unlock", "done"},
         NEW a \in Answers \ {"ok"}, Reply(s, p, a),
         UNCHANGED <<regs, mails, op, target, snap>>
  PROVE  PromiseInv'
<1>1. /\ pc'[s] = p /\ answer'[s] = a
      /\ \A q \in Slots \ {s} : pc'[q] = pc[q] /\ answer'[q] = answer[q]
  BY DEF Reply, Goto, TypeInv, TypeOK, RequestsTyped
<1> QED
  BY <1>1, PromisesUntouched DEF Promised

LEMMA RollbackKeepsPromises ==
  ASSUME TypeInv, PromiseInv, NEW s \in Slots, NEW a \in Answers \ {"ok"}, Rollback(s, a)
  PROVE  PromiseInv'
BY AbortKeepsPromises DEF Rollback, tables

\* A request moves between stages outside its writes and short of its unlock.
LEMMA MovesKeepPromises ==
  ASSUME TypeInv, PromiseInv, NEW s \in Slots,
         NEW p \in Stages \ {"save", "commit", "unlock"}, Goto(s, p),
         \A q \in Slots \ {s} : /\ op'[q] = op[q] /\ answer'[q] = answer[q]
                                /\ target'[q] = target[q] /\ snap'[q] = snap[q],
         \A t \in Regs : <<"approved", t>> \in mails' => Promised(t),
         UNCHANGED regs
  PROVE  PromiseInv'
<1>1. pc'[s] = p /\ \A q \in Slots \ {s} : pc'[q] = pc[q]
  BY DEF Goto, TypeInv, TypeOK, RequestsTyped
<1> QED
  BY <1>1, PromisesUntouched

LEMMA ArrivalKeepsPromises ==
  ASSUME TypeInv, PromiseInv, NEW s \in Slots, Arrival(s)
  PROVE  PromiseInv'
<1>1. PICK p \in {"lock", "delete", "done"} : Goto(s, p)
  BY ArrivalMoves
<1> QED
  BY <1>1, ArrivalMoves, MovesKeepPromises DEF Stages, Promised

\* The three reads of a registration by a verification or decision.
LEMMA LoadKeepsPromises ==
  ASSUME TypeInv, SafeInv, DecisionHoldsKey, PromiseInv, NEW s \in Slots,
         LoadForVerify(s) \/ LoadForApprove(s) \/ LoadForReject(s)
  PROVE  PromiseInv'
<1> DEFINE row == regs[target[s]]
<1>1. CASE \E a \in Answers \ {"ok"} : Rollback(s, a)
  BY <1>1, RollbackKeepsPromises
<1>2. CASE ~\E a \in Answers \ {"ok"} : Rollback(s, a)
  <2>1. /\ pc[s] = "load" /\ Present(target[s])
        /\ UNCHANGED <<regs, mails, op, target, answer>>
    BY <1>2 DEF LoadForVerify, LoadForApprove, LoadForReject, Answers, tables, Present, Statuses
  <2>2. target[s] \in Regs /\ row \in Row
    BY <2>1, Targets DEF TypeInv, TypeOK, TablesTyped
  <2>3. CASE LoadForVerify(s)
    <3>1. PICK p \in {"save", "commit"} :
            /\ op[s] = "verify" /\ pc' = [pc EXCEPT ![s] = p]
            /\ snap' = [snap EXCEPT ![s] = [row EXCEPT !.verified = TRUE]]
      BY <2>3, <1>2 DEF LoadForVerify, Goto, Answers
    <3>2. /\ [row EXCEPT !.verified = TRUE] \in Row
          /\ [row EXCEPT !.verified = TRUE].status = row.status
      BY <2>2 DEF Row
    <3> QED
      BY <2>1, <2>2, <3>1, <3>2, VerificationKeepsPromises
  <2>4. CASE LoadForApprove(s) \/ LoadForReject(s)
    <3>1. PICK st \in {"approved", "rejected"} :
            /\ op[s] = IF st = "approved" THEN "approve" ELSE "reject"
            /\ row.status # "rejected" \/ st = "rejected"
            /\ row.status # "approved" \/ st = "approved"
            /\ pc' = [pc EXCEPT ![s] = "save"]
            /\ snap' = [snap EXCEPT ![s] = [row EXCEPT !.status = st]]
      BY <2>4, <1>2 DEF LoadForApprove, LoadForReject, Goto, Answers
    <3>2. /\ [row EXCEPT !.status = st] \in Row
          /\ [row EXCEPT !.status = st].status = st
      BY <2>2, RowDecided DEF Row, Statuses
    <3> QED
      BY <2>1, <3>1, <3>2, DecisionKeepsPromises
  <2> QED
    BY <2>3, <2>4
<1> QED
  BY <1>1, <1>2

LEMMA StepKeepsPromises ==
  ASSUME TypeInv, SafeInv, EmailInv, DecisionHoldsKey, PromiseInv, NEW s \in Slots, Step(s)
  PROVE  PromiseInv'
<1>1. CASE Enter(s)
  BY <1>1, MovesKeepPromises DEF Enter, Stages, Promised, tables
<1>2. CASE LockRefused(s)
  BY <1>2, AbortKeepsPromises DEF LockRefused, Answers, tables
<1>3. CASE CreateRegistration(s)
  <2>1. CASE Rollback(s, "error")
    BY <2>1, RollbackKeepsPromises DEF Answers
  <2>2. CASE ~Rollback(s, "error")
    BY <1>3, <2>2, TakingRowKeepsPromises DEF CreateRegistration, Goto, tables
  <2> QED
    BY <2>1, <2>2
<1>4. CASE CommitRegister(s)
  BY <1>4, RegistrationKeepsPromises
<1>5. CASE SendVerification(s)
  <2>1. Goto(s, "done") /\ \A q \in Slots \ {s} : answer'[q] = answer[q]
    BY <1>5 DEF SendVerification, Reply, TypeInv, TypeOK, RequestsTyped
  <2>2. \A t \in Regs : <<"approved", t>> \in mails' => <<"approved", t>> \in mails
    BY <1>5 DEF SendVerification
  <2>3. UNCHANGED <<regs, op, target, snap>>
    BY <1>5 DEF SendVerification, tables
  <2> QED
    BY <2>1, <2>2, <2>3, MovesKeepPromises DEF Stages, Promised
<1>6. CASE MarkUsed(s)
  BY <1>6, MovesKeepPromises DEF MarkUsed, Stages, Promised, tables
<1>7. CASE LoadForVerify(s) \/ LoadForApprove(s) \/ LoadForReject(s)
  BY <1>7, LoadKeepsPromises
<1>8. CASE Save(s)
  <2>1. CASE Rollback(s, "error")
    BY <2>1, RollbackKeepsPromises DEF Answers
  <2>2. CASE ~Rollback(s, "error")
    BY <1>8, <2>2, TakingRowKeepsPromises DEF Save, Goto, tables
  <2> QED
    BY <2>1, <2>2
<1>9. CASE CommitUpdate(s)
  <2>1. op[s] = "approve" => rowLock[target[s]] = s
    BY <1>9 DEF CommitUpdate, EmailInv, InsertHoldsRow, Holding
  <2> QED
    BY <1>9, <2>1, UpdateKeepsPromises
<1>10. CASE Unlock(s)
  <2>1. PICK p \in {"mail", "done"} : Goto(s, p)
    BY <1>10 DEF Unlock
  <2>2. /\ pc[s] = "unlock" /\ UNCHANGED <<regs, op, target, snap, answer>>
        /\ \/ UNCHANGED mails
           \/ /\ answer[s] = "ok" /\ op[s] = "approve"
              /\ mails' = mails \cup {<<"approved", target[s]>>}
    BY <1>10 DEF Unlock, tables
  <2>3. \A t \in Regs : <<"approved", t>> \in mails' => Promised(t)
    BY <2>2 DEF Promised
  <2> QED
    BY <2>1, <2>2, <2>3, MovesKeepPromises DEF Stages
<1>11. CASE DeleteRow(s)
  <2>1. PICK p \in {"done", "cascade"} : Goto(s, p)
    BY <1>11 DEF DeleteRow, Reply
  <2>2. UNCHANGED <<regs, mails, op, target, snap>>
        /\ \A q \in Slots \ {s} : answer'[q] = answer[q]
    BY <1>11 DEF DeleteRow, Reply, tables, TypeInv, TypeOK, RequestsTyped
  <2> QED
    BY <2>1, <2>2, MovesKeepPromises DEF Stages, Promised
<1>12. CASE DeleteCascade(s)
  BY <1>12, DeleteKeepsPromises
<1>13. CASE DeadlockVictim(s)
  BY <1>13, RollbackKeepsPromises, AbortKeepsPromises DEF DeadlockVictim, Answers, tables
<1>14. CASE Return(s)
  <2>1. Goto(s, "idle") /\ UNCHANGED <<regs, mails>>
        /\ \A q \in Slots \ {s} : /\ op'[q] = op[q] /\ answer'[q] = answer[q]
                                  /\ target'[q] = target[q] /\ snap'[q] = snap[q]
    BY <1>14 DEF Return, Reply, tables
  <2> QED
    BY <2>1, MovesKeepPromises DEF Stages, Promised
<1> QED
  BY <1>1, <1>2, <1>3, <1>4, <1>5, <1>6, <1>7, <1>8, <1>9, <1>10, <1>11, <1>12,
     <1>13, <1>14 DEF Step

LEMMA FaultKeepsPromises ==
  ASSUME TypeInv, PromiseInv, NEW s \in Slots, Fault(s)
  PROVE  PromiseInv'
<1>1. CASE DatabaseError(s)
  BY <1>1, RollbackKeepsPromises DEF DatabaseError, Answers
<1>2. CASE Cancelled(s)
  BY <1>2, AbortKeepsPromises DEF Cancelled, Answers, tables
<1> QED
  BY <1>1, <1>2 DEF Fault

\* Nothing PromiseInv reads has changed.
LEMMA PromisesUnchanged ==
  ASSUME PromiseInv, UNCHANGED <<regs, mails, pc, op, target, snap, answer>>
  PROVE  PromiseInv'
BY DEF PromiseInv, PromiseKept, NoRejectionBehind, RejectionSeen, Approving, Promised

LEMMA PromisesInductive ==
  ASSUME TypeInv, SafeInv, EmailInv, DecisionHoldsKey, PromiseInv, [Next]_vars
  PROVE  PromiseInv'
<1>1. ASSUME NEW k \in LockKeys, LockExpires(k)  PROVE PromiseInv'
  BY <1>1, PromisesUnchanged DEF LockExpires, tables, request
<1>2. ASSUME NEW t \in Regs, TokenExpires(t)  PROVE PromiseInv'
  BY <1>2, PromisesUnchanged DEF TokenExpires, request
<1>3. CASE UNCHANGED vars
  BY <1>3, PromisesUnchanged DEF vars
<1> QED
  BY <1>1, <1>2, <1>3, ArrivalKeepsPromises, StepKeepsPromises, FaultKeepsPromises DEF Next

LEMMA ApprovalsInitially == Init => DecisionHoldsKey /\ PromiseInv
BY DEF Init, DecisionHoldsKey, PromiseInv, PromiseKept, NoRejectionBehind, RejectionSeen,
       Approving, Promised

\* Under Redis, and with decisions that finish within the TTL of their key, an
\* approval that a member has been told of is never taken back: no rejection
\* and no verification in flight overwrites it, whatever fails.
THEOREM ApprovalMailsAreTrue ==
  ASSUME Mode = "redis", ~SlowDecisions
  PROVE  Spec => []ApprovalMailIsTrue
<1> DEFINE I == TypeInv /\ SafeInv /\ EmailInv /\ DecisionHoldsKey /\ PromiseInv
<1>1. Init => I
  BY TypeInvInitially, SafeInitially, EmailsInitially, ApprovalsInitially
<1>2. I /\ [Next]_vars => I'
  BY TypeInvInductive, SafeInductive, EmailsInductive, KeyInductive, PromisesInductive
<1>3. I => ApprovalMailIsTrue
  BY DEF PromiseInv, PromiseKept, Promised, ApprovalMailIsTrue
<1> QED
  BY <1>1, <1>2, <1>3, PTL DEF Spec
-----------------------------------------------------------------------------
(* What the refinement of RegistrationBook rests on.                       *)

\* A step of one request leaves the fields of the others alone.
LEMMA OthersStay ==
  ASSUME TypeInv, NEW s \in Slots, Arrival(s) \/ Step(s) \/ Fault(s)
  PROVE  \A q \in Slots : q # s => /\ pc'[q] = pc[q] /\ op'[q] = op[q] /\ answer'[q] = answer[q]
                                   /\ target'[q] = target[q] /\ snap'[q] = snap[q]
<1> DEFINE Kept == \A q \in Slots : q # s =>
                     /\ pc'[q] = pc[q] /\ op'[q] = op[q] /\ answer'[q] = answer[q]
                     /\ target'[q] = target[q] /\ snap'[q] = snap[q]
<1> SUFFICES Kept OBVIOUS
<1> USE DEF TypeInv, TypeOK, RequestsTyped, Reply, Goto
<1>1. CASE Arrival(s)
  BY <1>1, ArrivalMoves
<1>2. ASSUME NEW a, Rollback(s, a) PROVE Kept
  BY <1>2 DEF Rollback
<1>3. CASE Enter(s) \/ LockRefused(s) \/ Unlock(s) \/ Cancelled(s)
  BY <1>3 DEF Enter, LockRefused, Unlock, Cancelled
<1>4. CASE CommitRegister(s) \/ SendVerification(s) \/ MarkUsed(s) \/ CommitUpdate(s)
           \/ DeleteRow(s) \/ DeleteCascade(s) \/ Return(s)
  BY <1>4 DEF CommitRegister, SendVerification, MarkUsed, CommitUpdate, DeleteRow,
              DeleteCascade, Return
<1>5. CASE LoadForVerify(s)
  BY <1>2, <1>5 DEF LoadForVerify
<1>6. CASE LoadForApprove(s) \/ LoadForReject(s)
  BY <1>2, <1>6 DEF LoadForApprove, LoadForReject
<1>7. CASE CreateRegistration(s) \/ Save(s)
  BY <1>2, <1>7 DEF CreateRegistration, Save
<1>8. CASE DeadlockVictim(s) \/ DatabaseError(s)
  BY <1>2, <1>8 DEF DeadlockVictim, DatabaseError
<1> HIDE DEF Kept
<1> QED
  BY <1>1, <1>3, <1>4, <1>5, <1>6, <1>7, <1>8 DEF Step, Fault

\* The row that a transaction holds is neither taken nor changed by others.
LEMMA HeldRowStays ==
  ASSUME TypeInv, SafeInv, NEW q \in Slots, BookPart(q), Arrival(q) \/ Step(q) \/ Fault(q),
         NEW s \in Slots, s # q, NEW t \in Regs, rowLock[t] = s, Present(t)
  PROVE  rowLock'[t] = s /\ regs'[t] = regs[t]
<1> DEFINE Kept == rowLock'[t] = s /\ regs'[t] = regs[t]
<1> SUFFICES Kept OBVIOUS
<1> USE DEF TypeInv, TypeOK, TablesTyped, RequestsTyped, StagesFit
<1>1. ASSUME UNCHANGED <<regs, rowLock>> PROVE Kept BY <1>1
<1>2. ASSUME UNCHANGED regs, ReleaseRows(q) PROVE Kept BY <1>2 DEF ReleaseRows
<1>f. Registering(q) => target[q] # t
  BY DEF SafeInv, FreeIds, Present, Statuses
<1>3. CASE CommitRegister(q)
  BY <1>f, <1>3 DEF CommitRegister, ReleaseRows, Registering
<1>4. CASE CommitUpdate(q)
  BY <1>4 DEF CommitUpdate, ReleaseRows
<1>5. CASE DeleteCascade(q)
  BY <1>5 DEF DeleteCascade, ReleaseRows, BookPart
<1>6. CASE CreateRegistration(q) /\ ~Rollback(q, "error")
  BY <1>f, <1>6 DEF CreateRegistration, Registering, tables
<1>7. CASE Save(q) /\ ~Rollback(q, "error")
  BY <1>7 DEF Save, tables
<1>8. CASE DeleteRow(q)
  BY <1>8 DEF DeleteRow, tables
<1> HIDE DEF Kept, TypeInv, TypeOK, TablesTyped, RequestsTyped, StagesFit
<1>9. ASSUME NEW a, Rollback(q, a) PROVE Kept
  BY <1>2, <1>9 DEF Rollback, tables
<1>10. CASE Arrival(q)
  BY <1>1, <1>10
  DEF Arrival, Register, VerifyEmail, AdminApprove, AdminReject, AdminDelete, Decide, tables,
      dblocks
<1>11. CASE Enter(q) \/ LockRefused(q) \/ SendVerification(q) \/ MarkUsed(q) \/ Unlock(q)
            \/ Return(q)
  BY <1>1, <1>11 DEF Enter, LockRefused, SendVerification, MarkUsed, Unlock, Return, tables, dblocks
<1>12. CASE LoadForVerify(q) \/ LoadForApprove(q) \/ LoadForReject(q)
  BY <1>1, <1>9, <1>12 DEF LoadForVerify, LoadForApprove, LoadForReject, tables, dblocks
<1>13. CASE DeadlockVictim(q) \/ DatabaseError(q) \/ Cancelled(q)
  BY <1>2, <1>9, <1>13 DEF DeadlockVictim, DatabaseError, Cancelled, tables
<1> QED
  BY <1>3, <1>4, <1>5, <1>6, <1>7, <1>8, <1>9, <1>10, <1>11, <1>12, <1>13
  DEF Step, Fault, CreateRegistration, Save

LEMMA BookKeptByOwner ==
  ASSUME TypeInv, NEW s \in Slots, BookPart(s), Arrival(s) \/ Step(s) \/ Fault(s)
  PROVE  BookPart(s)'
<1> DEFINE Kept == BookPart(s)'
<1> SUFFICES Kept OBVIOUS
<1> USE DEF TypeInv, TypeOK, TablesTyped, RequestsTyped, StagesFit, Fits, BookPart, Reply, Goto
<1>1. ASSUME NEW a \in Answers \ {"none"}, Rollback(s, a),
             pc[s] \in {"begin", "load", "save", "commit"}
      PROVE  Kept
  BY <1>1 DEF Rollback
<1>2. ASSUME NEW t \in Regs, NEW e \in Emails, Register(s, e, t) PROVE Kept
  BY <1>2 DEF Register, Arrive
<1>3. ASSUME NEW t \in Regs, VerifyEmail(s, t) PROVE Kept
  BY <1>3 DEF VerifyEmail, Arrive
<1>4. ASSUME NEW t \in Regs, AdminApprove(s, t) \/ AdminReject(s, t) \/ AdminDelete(s, t)
      PROVE  Kept
  BY <1>4 DEF AdminApprove, AdminReject, AdminDelete, Decide, Arrive
<1>5. CASE Enter(s) \/ LockRefused(s) \/ MarkUsed(s)
  BY <1>5 DEF Enter, LockRefused, MarkUsed
<1>6. CASE SendVerification(s) \/ Unlock(s) \/ Return(s) \/ Cancelled(s)
  BY <1>6 DEF SendVerification, Unlock, Return, Cancelled
<1>7. CASE CommitRegister(s) \/ CommitUpdate(s) \/ DeleteCascade(s)
  BY <1>7 DEF CommitRegister, CommitUpdate, DeleteCascade
<1>8. CASE DeleteRow(s)
  BY <1>8 DEF DeleteRow, tables, Present
<1>9. CASE CreateRegistration(s) \/ Save(s)
  BY <1>1, <1>9 DEF CreateRegistration, Save, Answers
<1>10. CASE LoadForVerify(s)
  BY <1>1, <1>10 DEF LoadForVerify, Answers
<1>11. CASE LoadForApprove(s) \/ LoadForReject(s)
  BY <1>1, <1>11 DEF LoadForApprove, LoadForReject, Answers
<1>12. CASE DeadlockVictim(s) \/ DatabaseError(s)
  BY <1>1, <1>12 DEF DeadlockVictim, Deadlocked, DatabaseError, Answers
<1> HIDE DEF Kept
<1> QED
  BY <1>2, <1>3, <1>4, <1>5, <1>6, <1>7, <1>8, <1>9, <1>10, <1>11, <1>12
  DEF Arrival, Step, Fault

\* What a step copies, and what it writes, has an address.
LEMMA AddressedInductive ==
  ASSUME TypeInv, Addressed, [Next]_vars
  PROVE  Addressed'
<1> USE DEF TypeInv, TypeOK, TablesTyped, RequestsTyped, StagesFit
<1>1. ASSUME NEW s \in Slots, UNCHANGED regs, pc'[s] \notin {"save", "commit"},
             \A q \in Slots : q # s => pc'[q] = pc[q] /\ snap'[q] = snap[q]
      PROVE  Addressed'
  BY <1>1 DEF Addressed, Present
<1>2. ASSUME NEW s \in Slots, Arrival(s) PROVE Addressed'
  <2>1. PICK p \in {"lock", "delete", "done"} : Goto(s, p) BY <1>2, ArrivalMoves
  <2>2. UNCHANGED regs /\ \A q \in Slots : q # s => snap'[q] = snap[q]
    BY <1>2, ArrivalMoves
  <2>3. pc'[s] = p /\ \A q \in Slots : q # s => pc'[q] = pc[q]
    BY <2>1 DEF Goto
  <2> QED BY <1>1, <2>2, <2>3
<1>3. ASSUME NEW s \in Slots, NEW a, Rollback(s, a) PROVE Addressed'
  BY <1>1, <1>3 DEF Rollback, Reply, Goto, tables
<1>4. ASSUME NEW s \in Slots, CommitRegister(s) PROVE Addressed'
  BY <1>4 DEF CommitRegister, Reply, Goto, Addressed, Present
<1>5. ASSUME NEW s \in Slots, CommitUpdate(s) PROVE Addressed'
  BY <1>5 DEF CommitUpdate, Reply, Goto, Addressed, Present
<1>6. ASSUME NEW s \in Slots, DeleteCascade(s) PROVE Addressed'
  BY <1>6 DEF DeleteCascade, Reply, Goto, Addressed, Present, DeletedRow, Statuses
<1>7. ASSUME NEW s \in Slots, CreateRegistration(s) \/ Save(s) PROVE Addressed'
  BY <1>3, <1>7 DEF CreateRegistration, Save, Goto, Addressed, Present, tables
<1>8. ASSUME NEW s \in Slots, Present(target[s]), target[s] \in Regs,
             NEW r, r.email = regs[target[s]].email, snap' = [snap EXCEPT ![s] = r],
             \A q \in Slots : q # s => pc'[q] = pc[q], UNCHANGED regs
      PROVE  Addressed'
  BY <1>8 DEF Addressed, Present
<1>9. ASSUME NEW s \in Slots, LoadForVerify(s) \/ LoadForApprove(s) \/ LoadForReject(s)
      PROVE  Addressed'
  <2>1. CASE \E a : Rollback(s, a) BY <1>3, <2>1
  <2>2. CASE ~\E a : Rollback(s, a)
    <3> DEFINE row == regs[target[s]]
    <3>1. /\ Present(target[s]) /\ target[s] \in Regs /\ UNCHANGED regs
          /\ \A q \in Slots : q # s => pc'[q] = pc[q]
          /\ \/ snap' = [snap EXCEPT ![s] = [row EXCEPT !.verified = TRUE]]
             \/ \E st \in Statuses : snap' = [snap EXCEPT ![s] = [row EXCEPT !.status = st]]
      BY <1>9, <2>2
      DEF LoadForVerify, LoadForApprove, LoadForReject, Goto, tables, Statuses, Present
    <3>2. /\ [row EXCEPT !.verified = TRUE].email = row.email
          /\ \A st \in Statuses : [row EXCEPT !.status = st].email = row.email
      BY <3>1 DEF Row
    <3> QED BY <1>8, <3>1, <3>2
  <2> QED BY <2>1, <2>2
<1>10. ASSUME NEW s \in Slots, NEW p \in Stages \ {"save", "commit"}, Goto(s, p), UNCHANGED regs,
              Step(s) \/ Fault(s)
       PROVE  Addressed'
  BY <1>1, <1>10, OthersStay DEF Goto
<1>11. ASSUME NEW s \in Slots, Enter(s) \/ LockRefused(s) \/ SendVerification(s) \/ MarkUsed(s)
                               \/ Unlock(s) \/ DeleteRow(s) \/ Return(s) \/ Cancelled(s)
       PROVE  Addressed'
  <2>1. PICK p \in Stages \ {"save", "commit"} : Goto(s, p)
    BY <1>11 DEF Enter, LockRefused, SendVerification, MarkUsed, Unlock, DeleteRow, Return,
                 Cancelled, Reply, Stages
  <2>2. UNCHANGED regs
    BY <1>11 DEF Enter, LockRefused, SendVerification, MarkUsed, Unlock, DeleteRow, Return,
                 Cancelled, tables
  <2> QED BY <1>10, <1>11, <2>1, <2>2 DEF Step, Fault
<1>12. ASSUME NEW s \in Slots, DeadlockVictim(s) \/ DatabaseError(s) PROVE Addressed'
  BY <1>3, <1>10, <1>12 DEF DeadlockVictim, DatabaseError, Reply, tables, Stages, Step
<1>13. CASE UNCHANGED <<regs, pc, snap>>
  BY <1>13 DEF Addressed, Present
<1> HIDE DEF TypeInv, TypeOK, TablesTyped, RequestsTyped, StagesFit
<1>14. ASSUME NEW s \in Slots, Step(s) \/ Fault(s) PROVE Addressed'
  BY <1>4, <1>5, <1>6, <1>7, <1>9, <1>11, <1>12, <1>14 DEF Step, Fault
<1> QED
  BY <1>2, <1>13, <1>14 DEF Next, TokenExpires, LockExpires, vars, tables, request

LEMMA BookInductive ==
  ASSUME TypeInv, SafeInv, BookInv, [Next]_vars
  PROVE  BookInv'
<1> SUFFICES ASSUME NEW s \in Slots PROVE BookPart(s)'
  BY AddressedInductive DEF BookInv
<1>1. \A q \in Slots : BookPart(q)
  BY DEF BookInv
<1>2. CASE Arrival(s) \/ Step(s) \/ Fault(s)
  BY <1>1, <1>2, BookKeptByOwner
<1>3. ASSUME NEW q \in Slots, q # s, Arrival(q) \/ Step(q) \/ Fault(q)
      PROVE  BookPart(s)'
  <2>1. pc[s] = "cascade" => target[s] \in Regs
    BY DEF TypeInv, TypeOK, RequestsTyped, StagesFit
  <2>2. pc[s] = "cascade" => rowLock'[target[s]] = s /\ regs'[target[s]] = regs[target[s]]
    BY <1>1, <1>3, <2>1, HeldRowStays DEF BookPart
  <2> QED
    BY <1>1, <1>3, <2>2, OthersStay DEF BookPart, Present
<1>4. CASE UNCHANGED <<regs, rowLock, request>>
  BY <1>1, <1>4 DEF BookPart, Present, request
<1> QED
  BY <1>2, <1>3, <1>4 DEF Next, TokenExpires, LockExpires, vars, tables, dblocks, request

LEMMA BookInitially == Init => BookInv
BY DEF Init, BookInv, BookPart, Addressed, Present, FreeRow, Statuses
\* What is written over the row of a decision under way comes from no other
\* decision, so the decision stays fresh.
LEMMA FreshAfterCommit ==
  ASSUME TypeInv, SafeInv, DecisionHoldsKey, DecisionsFresh, NEW q \in Slots, CommitUpdate(q)
  PROVE  DecisionsFresh'
<1> USE DEF TypeInv, TypeOK, TablesTyped, RequestsTyped, StagesFit
<1>1. /\ pc[q] = "commit" /\ op[q] \in {"verify", "approve", "reject"} /\ target[q] \in Regs
      /\ regs' = IF rowLock[target[q]] = q THEN [regs EXCEPT ![target[q]] = snap[q]] ELSE regs
      /\ pc' = [pc EXCEPT ![q] = "unlock"] /\ UNCHANGED <<op, target>>
  BY DEF CommitUpdate, Reply, Goto, Fits
<1>2. SUFFICES ASSUME NEW s \in Slots, s # q, pc[s] \in {"save", "commit"}
               PROVE  /\ op[s] = "reject" => regs'[target[s]].status # "approved"
                      /\ op[s] = "approve" /\ regs'[target[s]].status \in Statuses
                           => regs'[target[s]].verified
  BY <1>1 DEF DecisionsFresh, Present
<1>3. CASE regs'[target[s]] = regs[target[s]]
  BY <1>2, <1>3 DEF DecisionsFresh, Present
<1>4. CASE regs'[target[s]] # regs[target[s]]
  <2>1. target[s] = target[q] /\ rowLock[target[q]] = q /\ regs'[target[s]] = snap[q]
    BY <1>1, <1>2, <1>4
  <2>2. op[s] \in {"approve", "reject"} => op[q] = "verify"
    BY <1>1, <1>2, <2>1, OneDecision DEF InSection
  <2>3. op[q] = "verify" => snap[q].verified /\ snap[q].status \in {"pending", "rejected"}
    BY <1>1, <2>1 DEF SafeInv, Snapshots, Writing
  <2> QED BY <2>1, <2>2, <2>3
<1> QED BY <1>3, <1>4

\* A request reads a row, or leaves its writes behind.
LEMMA FreshAfterMove ==
  ASSUME DecisionsFresh, NEW s \in Slots, UNCHANGED regs,
         \A q \in Slots : q # s => pc'[q] = pc[q] /\ op'[q] = op[q] /\ target'[q] = target[q],
         pc'[s] \in {"save", "commit"} /\ pc[s] \notin {"save", "commit"} =>
           /\ op'[s] = "reject" => regs[target'[s]].status # "approved"
           /\ op'[s] = "approve" => regs[target'[s]].verified,
         pc'[s] \in {"save", "commit"} /\ pc[s] \in {"save", "commit"} =>
           op'[s] = op[s] /\ target'[s] = target[s]
  PROVE  DecisionsFresh'
BY DEF DecisionsFresh, Present

LEMMA FreshInductive ==
  ASSUME TypeInv, SafeInv, DecisionHoldsKey, DecisionsFresh, [Next]_vars
  PROVE  DecisionsFresh'
<1>0. /\ pc \in [Slots -> Stages] /\ op \in [Slots -> Ops] /\ regs \in [Regs -> Row]
      /\ target \in [Slots -> Regs \cup {NoReg}]
      /\ \A q \in Slots : pc[q] # "idle" => target[q] \in Regs
  BY DEF TypeInv, TypeOK, TablesTyped, RequestsTyped, StagesFit
<1>1. ASSUME NEW s \in Slots, Arrival(s) \/ Step(s) \/ Fault(s), UNCHANGED regs,
             NEW p \in Stages \ {"save", "commit"}, Goto(s, p)
      PROVE  DecisionsFresh'
  <2>1. pc'[s] = p BY <1>0, <1>1 DEF Goto
  <2> QED BY <1>1, <2>1, OthersStay, FreshAfterMove
<1>2. ASSUME NEW s \in Slots, Arrival(s) PROVE DecisionsFresh'
  <2>1. PICK p \in {"lock", "delete", "done"} : Goto(s, p) BY <1>2, ArrivalMoves
  <2>2. UNCHANGED regs BY <1>2, ArrivalMoves
  <2> QED BY <1>1, <1>2, <2>1, <2>2 DEF Stages
<1>3. ASSUME NEW s \in Slots, NEW a, Rollback(s, a), Step(s) \/ Fault(s) PROVE DecisionsFresh'
  BY <1>1, <1>3 DEF Rollback, Reply, tables, Stages
<1>4. ASSUME NEW s \in Slots, CommitRegister(s) PROVE DecisionsFresh'
  <2>1. /\ target[s] \in Regs /\ regs[target[s]].status = "free"
        /\ \A u \in Regs \ {target[s]} : regs'[u] = regs[u]
        /\ pc'[s] = "unlock" /\ \A q \in Slots : q # s => pc'[q] = pc[q]
        /\ UNCHANGED <<op, target>>
    BY <1>0, <1>4 DEF CommitRegister, Reply, Goto, SafeInv, FreeIds, Registering
  <2>2. \A q \in Slots : pc[q] # "idle" /\ target[q] = target[s] => op[q] = "register"
    BY <2>1 DEF SafeInv, FreeIds
  <2> QED BY <1>0, <2>1, <2>2 DEF DecisionsFresh, Present
<1>5. ASSUME NEW s \in Slots, DeleteCascade(s) PROVE DecisionsFresh'
  <2>1. /\ target[s] \in Regs /\ regs'[target[s]].status = "deleted"
        /\ \A u \in Regs \ {target[s]} : regs'[u] = regs[u]
        /\ pc'[s] = "done" /\ \A q \in Slots : q # s => pc'[q] = pc[q]
        /\ UNCHANGED <<op, target>>
    BY <1>0, <1>5 DEF DeleteCascade, Reply, Goto, DeletedRow
  <2> QED BY <1>0, <2>1 DEF DecisionsFresh, Present, Statuses
<1>6. ASSUME NEW s \in Slots, CreateRegistration(s) \/ Save(s) PROVE DecisionsFresh'
  <2>1. CASE Rollback(s, "error") BY <1>3, <1>6, <2>1 DEF Step
  <2>2. CASE ~Rollback(s, "error")
    <3>1. /\ (pc[s] = "begin" /\ op[s] = "register") \/ pc[s] = "save"
          /\ pc' = [pc EXCEPT ![s] = "commit"] /\ UNCHANGED <<regs, op, target>>
      BY <1>6, <2>2 DEF CreateRegistration, Save, Goto, tables
    <3> QED BY <1>0, <3>1, FreshAfterMove
  <2> QED BY <2>1, <2>2
<1>7. ASSUME NEW s \in Slots, LoadForVerify(s) \/ LoadForApprove(s) \/ LoadForReject(s)
      PROVE  DecisionsFresh'
  <2>1. CASE \E a : Rollback(s, a) BY <1>3, <1>7, <2>1 DEF Step
  <2>2. CASE ~\E a : Rollback(s, a)
    <3>1. /\ \E p \in Stages : pc' = [pc EXCEPT ![s] = p]
          /\ pc[s] = "load" /\ UNCHANGED <<regs, op, target>>
          /\ op[s] = "reject" => regs[target[s]].status # "approved"
          /\ op[s] = "approve" => regs[target[s]].verified
      BY <1>7, <2>2 DEF LoadForVerify, LoadForApprove, LoadForReject, Goto, tables, Stages
    <3> QED BY <1>0, <3>1, FreshAfterMove
  <2> QED BY <2>1, <2>2
<1>8. ASSUME NEW s \in Slots, Enter(s) \/ LockRefused(s) \/ SendVerification(s) \/ MarkUsed(s)
                              \/ Unlock(s) \/ DeleteRow(s) \/ Return(s) \/ Cancelled(s)
      PROVE  DecisionsFresh'
  <2>1. PICK p \in Stages \ {"save", "commit"} : Goto(s, p)
    BY <1>8 DEF Enter, LockRefused, SendVerification, MarkUsed, Unlock, DeleteRow, Return,
                Cancelled, Reply, Stages
  <2>2. UNCHANGED regs
    BY <1>8 DEF Enter, LockRefused, SendVerification, MarkUsed, Unlock, DeleteRow, Return,
                Cancelled, tables
  <2> QED BY <1>1, <1>8, <2>1, <2>2 DEF Step, Fault
<1>9. ASSUME NEW s \in Slots, DeadlockVictim(s) \/ DatabaseError(s) PROVE DecisionsFresh'
  BY <1>1, <1>3, <1>9 DEF DeadlockVictim, DatabaseError, Reply, tables, Stages, Step, Fault
<1>10. CASE UNCHANGED <<regs, pc, op, target>>
  BY <1>10 DEF DecisionsFresh, Present
<1>11. ASSUME NEW s \in Slots, Step(s) \/ Fault(s) PROVE DecisionsFresh'
  BY <1>4, <1>5, <1>6, <1>7, <1>8, <1>9, <1>11, FreshAfterCommit DEF Step, Fault
<1> QED
  BY <1>2, <1>10, <1>11 DEF Next, TokenExpires, LockExpires, vars, tables, request

LEMMA FreshInitially == Init => DecisionsFresh
BY DEF Init, DecisionsFresh
-----------------------------------------------------------------------------
(* Every request takes effect in one step.                                 *)

LEMMA BookStarts ==
  ASSUME Init
  PROVE  Book!Init
<1>1. Calls = [s \in Slots |-> Book!Idle]
  BY DEF Init, Calls, Outcome, Book!Idle
<1> QED
  BY <1>1 DEF Init, Book!Init, FreeRow

LEMMA CallFields ==
  ASSUME NEW s \in Slots
  PROVE  /\ Calls[s].op = op[s] /\ Calls[s].reg = target[s] /\ Calls[s].outcome = Outcome(s)
         /\ op[s] = "register" => Calls[s].email = snap[s].email
BY DEF Calls

\* The request of s gets an outcome; the others are where they were.
LEMMA Settles ==
  ASSUME NEW s \in Slots, NEW a, UNCHANGED <<op, target>>,
         op[s] = "register" => snap'[s] = snap[s],
         \A q \in Slots : q # s => pc'[q] = pc[q] /\ answer'[q] = answer[q] /\ snap'[q] = snap[q],
         Outcome(s)' = a
  PROVE  Book!Answer(s, a)
<1>1. \A q \in Slots : q # s => Outcome(q)' = Outcome(q)
  BY DEF Outcome
<1>2. Calls' = [q \in Slots |-> IF q = s THEN [Calls[s] EXCEPT !.outcome = a] ELSE Calls[q]]
  BY <1>1 DEF Calls
<1>3. Calls = [q \in Slots |-> Calls[q]]
  BY DEF Calls
<1> QED
  BY <1>2, <1>3 DEF Book!Answer

\* A request goes on without having taken effect, or after it has.
LEMMA GoesOn ==
  ASSUME NEW s \in Slots, UNCHANGED <<op, target>>,
         op[s] = "register" => snap'[s] = snap[s],
         \A q \in Slots : q # s => pc'[q] = pc[q] /\ answer'[q] = answer[q] /\ snap'[q] = snap[q],
         Outcome(s)' = Outcome(s)
  PROVE  UNCHANGED Calls
<1>1. \A q \in Slots : Outcome(q)' = Outcome(q)
  BY DEF Outcome
<1> QED
  BY <1>1 DEF Calls

\* A request begins in an idle slot.
LEMMA Begins ==
  ASSUME TypeInv, NEW s \in Slots, BookPart(s), NEW o, NEW t, NEW r, NEW e, NEW a,
         Arrive(s, o, t, r), e = IF o = "register" THEN r.email ELSE NoEmail,
         UNCHANGED <<regs, tokens, mails>>,
         \A q \in Slots : q # s => pc'[q] = pc[q] /\ answer'[q] = answer[q],
         Outcome(s)' = a
  PROVE  Book!Begin(s, o, t, e, a)
<1>1. \A q \in Slots : q # s => Outcome(q)' = Outcome(q)
  BY DEF Outcome
<1>2. Calls[s] = Book!Idle
  BY DEF Calls, Outcome, Book!Idle, BookPart, Arrive
<1>3. Calls' = [q \in Slots |-> IF q = s THEN [op |-> o, reg |-> t, email |-> e, outcome |-> a]
                                ELSE Calls[q]]
  BY <1>1 DEF Calls, Arrive, TypeInv, TypeOK, RequestsTyped
<1>4. Calls = [q \in Slots |-> Calls[q]]
  BY DEF Calls
<1> QED
  BY <1>2, <1>3, <1>4 DEF Book!Begin

LEMMA SubjectsAgree ==
  /\ \A t : Book!Present(t) <=> Present(t)
  /\ \A s \in Slots : Book!Subject(s) = target[s]
BY DEF Book!Present, Present, Statuses, Book!Subject, Calls

LEMMA ArrivalRefines ==
  ASSUME TypeInv, NEW s \in Slots, BookPart(s), Arrival(s)
  PROVE  Book!Serve(s)
<1> USE DEF Reply, Goto, tables
<1>0. pc \in [Slots -> Stages] /\ answer \in [Slots -> Answers]
  BY DEF TypeInv, TypeOK, RequestsTyped
<1>1. ASSUME NEW t \in Regs, NEW e \in Emails, Register(s, e, t) PROVE Book!Serve(s)
  <2> DEFINE r == [email |-> e, status |-> "pending", verified |-> FALSE]
             taken == \E u \in Regs : Present(u) /\ regs[u].email = e
  <2>1. \A q \in Slots : q # s => pc'[q] = pc[q] /\ answer'[q] = answer[q]
    BY <1>0, <1>1 DEF Register
  <2>2. Outcome(s)' = IF taken THEN "conflict" ELSE "pending"
    BY <1>0, <1>1 DEF Register, Outcome
  <2>3. Arrive(s, "register", t, r) /\ UNCHANGED <<regs, tokens, mails>> /\ r.email = e
    BY <1>1 DEF Register
  <2> HIDE DEF r
  <2>4. \A a : Outcome(s)' = a => Book!Begin(s, "register", t, e, a)
    BY <2>1, <2>3, Begins
  <2>5. taken => ~Book!Unused(e, t)
    BY <1>1, SubjectsAgree DEF Book!Unused, Register, Present, Statuses
  <2>6. Book!CallRegister(s, t, e)
    BY <1>1, <2>2, <2>4, <2>5, SubjectsAgree DEF Book!CallRegister, Register
  <2> QED
    BY <2>6 DEF Book!Serve
<1>2. ASSUME NEW t \in Regs, VerifyEmail(s, t) PROVE Book!Serve(s)
  <2>1. \A q \in Slots : q # s => pc'[q] = pc[q] /\ answer'[q] = answer[q]
    BY <1>0, <1>2 DEF VerifyEmail
  <2>2. Outcome(s)' = IF tokens[t] = "fresh" THEN "pending" ELSE "bad request"
    BY <1>0, <1>2 DEF VerifyEmail, Outcome
  <2>3. \A a : Outcome(s)' = a => Book!Begin(s, "verify", t, NoEmail, a)
    BY <1>2, <2>1, Begins DEF VerifyEmail
  <2>4. Book!CallVerify(s, t)
    BY <1>2, <2>2, <2>3 DEF Book!CallVerify, VerifyEmail
  <2> QED
    BY <2>4 DEF Book!Serve
<1>3. ASSUME NEW t \in Regs, NEW o \in {"approve", "reject", "delete"}, regs[t].status # "free",
             NEW p \in {"lock", "delete"}, Arrive(s, o, t, FreeRow), Goto(s, p),
             UNCHANGED <<tables, mails, answer>>
      PROVE  Book!Serve(s)
  <2>1. \A q \in Slots : q # s => pc'[q] = pc[q] /\ answer'[q] = answer[q]
    BY <1>0, <1>3
  <2>2. Outcome(s)' = "pending"
    BY <1>0, <1>3 DEF Outcome
  <2>3. Book!Begin(s, o, t, NoEmail, "pending")
    BY <1>3, <2>1, <2>2, Begins
  <2>4. Book!CallAdmin(s, o, t)
    BY <1>3, <2>3 DEF Book!CallAdmin
  <2> QED
    BY <1>3, <2>4 DEF Book!Serve
<1>4. ASSUME NEW t \in Regs, AdminApprove(s, t) \/ AdminReject(s, t) \/ AdminDelete(s, t)
      PROVE  Book!Serve(s)
  BY <1>3, <1>4 DEF AdminApprove, AdminReject, AdminDelete, Decide
<1> QED
  BY <1>1, <1>2, <1>4 DEF Arrival
\* What a rollback, a refusal or an abort looks like from outside.
LEMMA Refuses ==
  ASSUME TypeInv, NEW s \in Slots, pc[s] \notin {"idle", "unlock", "mail", "done"},
         NEW p \in {"unlock", "done"}, NEW a \in Answers \ {"none", "ok"}, Reply(s, p, a),
         UNCHANGED <<tables, mails, op, target, snap>>
  PROVE  Book!Serve(s)
<1> USE DEF Reply, Goto, TypeInv, TypeOK, RequestsTyped
<1>1. \A q \in Slots : q # s => pc'[q] = pc[q] /\ answer'[q] = answer[q]
  OBVIOUS
<1>2. Outcome(s) = "pending" /\ Outcome(s)' = a
  BY DEF Outcome
<1>3. Book!Answer(s, a)
  BY <1>1, <1>2, Settles
<1>4. Book!Refuse(s)
  BY <1>2, <1>3, CallFields DEF Book!Refuse, Book!Refusals, Answers, tables
<1> QED
  BY <1>4 DEF Book!Serve

\* A request goes on with nothing written.
LEMMA Stutters ==
  ASSUME TypeInv, NEW s \in Slots, NEW p \in Stages \ {"idle", "unlock", "mail", "done"},
         pc[s] \notin {"idle", "unlock", "mail", "done"}, Goto(s, p),
         op[s] = "register" => snap'[s] = snap[s],
         \A q \in Slots : q # s => snap'[q] = snap[q],
         UNCHANGED <<tables, mails, op, target, answer>>
  PROVE  UNCHANGED Book!bookVars
<1>1. \A q \in Slots : q # s => pc'[q] = pc[q] /\ answer'[q] = answer[q]
  BY DEF Goto, TypeInv, TypeOK, RequestsTyped
<1>2. Outcome(s)' = Outcome(s)
  BY DEF Outcome, Goto, TypeInv, TypeOK, RequestsTyped
<1>3. UNCHANGED Calls
  BY <1>1, <1>2, GoesOn
<1> QED
  BY <1>3 DEF Book!bookVars, tables

\* The step in which a request takes effect.
LEMMA Succeeds ==
  ASSUME TypeInv, NEW s \in Slots, pc[s] \notin {"idle", "unlock", "mail", "done"},
         NEW p \in {"unlock", "done"}, Reply(s, p, "ok"), UNCHANGED <<op, target, snap>>
  PROVE  Book!Pending(s, op[s]) /\ Book!Answer(s, "ok")
<1> USE DEF Reply, Goto, TypeInv, TypeOK, RequestsTyped
<1>1. \A q \in Slots : q # s => pc'[q] = pc[q] /\ answer'[q] = answer[q]
  OBVIOUS
<1>2. Outcome(s) = "pending" /\ Outcome(s)' = "ok"
  BY DEF Outcome
<1>3. Book!Answer(s, "ok")
  BY <1>1, <1>2, Settles
<1> QED
  BY <1>2, <1>3, CallFields DEF Book!Pending

LEMMA RegisterRefines ==
  ASSUME TypeInv, SafeInv, EmailInv, NEW s \in Slots, CommitRegister(s)
  PROVE  Book!Serve(s)
<1> DEFINE t == target[s]
<1>1. /\ pc[s] = "commit" /\ op[s] = "register" /\ t \in Regs /\ snap[s] \in Row
      /\ regs' = [regs EXCEPT ![t] = snap[s]]
      /\ tokens' = [tokens EXCEPT ![t] = "fresh"]
      /\ Reply(s, "unlock", "ok") /\ UNCHANGED <<mails, op, target, snap>>
  BY Targets DEF CommitRegister, TypeInv, TypeOK, RequestsTyped
<1>2. regs[t].status = "free" /\ snap[s].status = "pending" /\ snap[s].verified = FALSE
  BY <1>1 DEF SafeInv, FreeIds, Snapshots, Registering, Row
<1>3. snap[s] = [email |-> snap[s].email, status |-> "pending", verified |-> FALSE]
  BY <1>1, <1>2 DEF Row
<1>4. Book!Unused(snap[s].email, t)
  BY <1>1, SubjectsAgree DEF EmailInv, InsertHoldsRow, NoRival, Book!Unused
<1>5. Book!Pending(s, "register") /\ Book!Answer(s, "ok")
  BY <1>1, Succeeds
<1>6. Book!Register(s)
  BY <1>1, <1>2, <1>3, <1>4, <1>5, CallFields, SubjectsAgree DEF Book!Register
<1> QED
  BY <1>6 DEF Book!Serve

\* gorm's Save overwrites the row or brings it back, under its own address.
LEMMA SaveWrites ==
  ASSUME TypeInv, SafeInv, EmailInv, Addressed, NEW s \in Slots, op[s] # "register",
         Holding(s), regs' = [regs EXCEPT ![target[s]] = snap[s]]
  PROVE  Book!Write(target[s], snap[s].status, snap[s].verified)
<1> DEFINE t == target[s]
<1>1. /\ pc[s] = "commit" /\ t \in Regs /\ regs \in [Regs -> Row] /\ snap[s] \in Row
  BY Targets DEF Holding, TypeInv, TypeOK, TablesTyped, RequestsTyped
<1>2. CASE Present(t)
  <2>1. regs[t].email = snap[s].email
    BY <1>1, <1>2 DEF EmailInv, AddressKept
  <2>2. snap[s] = [[regs[t] EXCEPT !.status = snap[s].status] EXCEPT !.verified = snap[s].verified]
    BY <1>1, <2>1 DEF Row
  <2>3. regs' = [regs EXCEPT ![t].status = snap[s].status, ![t].verified = snap[s].verified]
    BY <1>1, <2>2
  <2> QED
    BY <1>2, <2>3, SubjectsAgree DEF Book!Write
<1>3. CASE ~Present(t)
  <2>1. regs[t].status = "deleted"
    BY <1>1, <1>3 DEF SafeInv, FreeIds, Row, Present
  <2>2. snap[s].email \in Emails /\ Book!Unused(snap[s].email, t)
    BY <1>1, SubjectsAgree DEF Addressed, EmailInv, NoRival, Book!Unused
  <2>3. snap[s] = [email |-> snap[s].email, status |-> snap[s].status, verified |-> snap[s].verified]
    BY <1>1 DEF Row
  <2> QED
    BY <2>1, <2>2, <2>3 DEF Book!Write
<1> QED
  BY <1>2, <1>3

LEMMA VerifyRefines ==
  ASSUME TypeInv, SafeInv, EmailInv, Addressed, Exclusive => PromiseInv,
         NEW s \in Slots, CommitUpdate(s), op[s] = "verify"
  PROVE  Book!Serve(s)
<1> DEFINE t == target[s]
           wrote == rowLock[t] = s
<1>1. /\ pc[s] = "commit" /\ t \in Regs /\ regs \in [Regs -> Row]
      /\ regs' = IF wrote THEN [regs EXCEPT ![t] = snap[s]] ELSE regs
      /\ tokens' = IF tokenLock[t] = s THEN [tokens EXCEPT ![t] = "used"] ELSE tokens
      /\ Reply(s, "unlock", "ok") /\ UNCHANGED <<mails, op, target, snap>>
  BY Targets DEF CommitUpdate, TypeInv, TypeOK, TablesTyped
<1>2. tokenLock[t] = s <=> tokens[t] # "none"
  BY <1>1 DEF SafeInv, TokenLocksHeld, VerifierHoldsToken, Verifying
<1>3. Book!Pending(s, "verify") /\ Book!Answer(s, "ok")
  BY <1>1, Succeeds
<1>4. CASE ~wrote
  <2>1. tokens[t] = "none" \/ regs[t].verified \/ regs[t].status = "rejected"
    BY <1>1, <1>2, <1>4 DEF SafeInv, NothingToSave, Writing
  <2> QED
    BY <1>1, <1>2, <1>3, <1>4, <2>1, SubjectsAgree DEF Book!Verify, Book!Serve
<1>5. CASE wrote
  <2>1. Book!Write(t, snap[s].status, snap[s].verified)
    BY <1>1, <1>5, SaveWrites DEF Holding
  <2>2. snap[s].verified = TRUE /\ snap[s].status \in {"pending", "rejected"}
    BY <1>1, <1>5 DEF SafeInv, Snapshots, Writing, TypeInv, TypeOK, RequestsTyped, Row
  <2>3. CASE snap[s].status = "pending"
    <3>1. tokens[t] \in {"fresh", "expired"}
      BY <1>1, <1>5, <2>3 DEF SafeInv, PendingWriteback, Writing
    <3>2. regs[t].status # "approved"
      BY <1>1, <3>1 DEF SafeInv, UnusedMeansUnverified, ApprovedIsVerified
    <3> QED
      BY <1>1, <1>2, <1>3, <2>1, <2>2, <2>3, <3>1, <3>2, SubjectsAgree
      DEF Book!Verify, Book!Unproved, Book!Serve
  <2>4. CASE snap[s].status = "rejected"
    <3>1. Exclusive => regs[t].status \in {"rejected", "deleted"}
      BY <1>1, <2>4 DEF PromiseInv, RejectionSeen
    <3> QED
      BY <1>1, <1>2, <1>3, <2>1, <2>2, <2>4, <3>1, SubjectsAgree DEF Book!Verify, Book!Serve
  <2> QED
    BY <2>2, <2>3, <2>4
<1> QED
  BY <1>4, <1>5

LEMMA DecisionRefines ==
  ASSUME TypeInv, SafeInv, EmailInv, Addressed, Exclusive => PromiseInv /\ DecisionsFresh,
         NEW s \in Slots, CommitUpdate(s), op[s] \in {"approve", "reject"}
  PROVE  Book!Serve(s)
<1> DEFINE t == target[s]
<1>1. /\ pc[s] = "commit" /\ t \in Regs /\ Reply(s, "unlock", "ok")
      /\ UNCHANGED <<mails, op, target, snap>>
  BY Targets DEF CommitUpdate
<1>2. Holding(s)
  BY <1>1 DEF EmailInv, InsertHoldsRow
<1>3. tokenLock[t] # s
  BY <1>1, RegistrationAssumption DEF SafeInv, TokenLocksHeld, Verifying
<1>4. regs' = [regs EXCEPT ![t] = snap[s]] /\ UNCHANGED tokens
  BY <1>2, <1>3 DEF CommitUpdate, Holding
<1>5. Book!Write(t, snap[s].status, snap[s].verified)
  BY <1>2, <1>4, SaveWrites
<1>6. Book!Pending(s, op[s]) /\ Book!Answer(s, "ok")
  BY <1>1, Succeeds
<1>7. snap[s].verified \in BOOLEAN
  BY DEF TypeInv, TypeOK, RequestsTyped, Row
<1>8. CASE op[s] = "approve"
  <2>1. snap[s].verified = TRUE /\ snap[s].status = "approved"
    BY <1>1, <1>7, <1>8 DEF SafeInv, Snapshots
  <2>2. ~Book!Unproved(t)
    BY <1>1, <1>8 DEF SafeInv, UnusedMeansUnverified, Book!Unproved
  <2>3. Exclusive => regs[t].status # "rejected" /\ (Present(t) => regs[t].verified)
    BY <1>1, <1>8 DEF PromiseInv, NoRejectionBehind, Approving, DecisionsFresh
  <2>4. Book!Approve(s)
    BY <1>1, <1>4, <1>5, <1>6, <1>8, <2>1, <2>2, <2>3, SubjectsAgree DEF Book!Approve
  <2> QED
    BY <2>4 DEF Book!Serve
<1>9. CASE op[s] = "reject"
  <2>1. snap[s].status = "rejected"
    BY <1>1, <1>9 DEF SafeInv, Snapshots
  <2>2. snap[s].verified = FALSE \/ (snap[s].verified = TRUE /\ ~Book!Unproved(t))
    BY <1>1, <1>7, <1>9 DEF SafeInv, UnusedMeansUnverified, Book!Unproved
  <2>3. Exclusive => regs[t].status # "approved"
    BY <1>1, <1>9 DEF DecisionsFresh
  <2>4. Book!Reject(s)
    BY <1>1, <1>4, <1>5, <1>6, <1>9, <2>1, <2>2, <2>3, SubjectsAgree DEF Book!Reject
  <2> QED
    BY <2>4 DEF Book!Serve
<1> QED
  BY <1>8, <1>9

LEMMA DeleteRefines ==
  ASSUME TypeInv, NEW s \in Slots, BookPart(s), DeleteRow(s) \/ DeleteCascade(s)
  PROVE  Book!Serve(s) \/ UNCHANGED Book!bookVars
<1> DEFINE t == target[s]
<1>1. op[s] = "delete" /\ t \in Regs
  BY Targets DEF DeleteRow, DeleteCascade, TypeInv, StagesFit, Fits
<1>2. CASE DeleteRow(s) /\ ~Present(t)
  <2>1. Book!Pending(s, "delete") /\ Book!Answer(s, "ok")
    BY <1>1, <1>2, Succeeds DEF DeleteRow
  <2> QED
    BY <1>2, <2>1, SubjectsAgree DEF DeleteRow, tables, Book!Delete, Book!Serve
<1>3. CASE DeleteRow(s) /\ Present(t)
  BY <1>3, Stutters DEF DeleteRow, Stages
<1>4. CASE DeleteCascade(s)
  <2>1. Book!Pending(s, "delete") /\ Book!Answer(s, "ok")
    BY <1>1, <1>4, Succeeds DEF DeleteCascade
  <2>2. Present(t)
    BY <1>4 DEF DeleteCascade, BookPart
  <2> QED
    BY <1>4, <2>1, <2>2, SubjectsAgree DEF DeleteCascade, DeletedRow, Book!Delete, Book!Serve
<1> QED
  BY <1>2, <1>3, <1>4

\* The deferred unlock and the mails.
LEMMA MailRefines ==
  ASSUME TypeInv, NEW s \in Slots, BookPart(s), Unlock(s) \/ SendVerification(s)
  PROVE  Book!Serve(s) \/ UNCHANGED Book!bookVars
<1> USE DEF Reply, Goto
<1>0. pc \in [Slots -> Stages] /\ answer \in [Slots -> Answers] /\ op \in [Slots -> Ops]
  BY DEF TypeInv, TypeOK, RequestsTyped
<1>1. CASE Unlock(s)
  <2>1. \A q \in Slots : q # s => pc'[q] = pc[q] /\ answer'[q] = answer[q]
    BY <1>0, <1>1 DEF Unlock
  <2>2. Outcome(s) = answer[s] /\ Outcome(s)' = answer[s]
    BY <1>0, <1>1 DEF Unlock, Outcome
  <2>3. UNCHANGED Calls
    BY <1>1, <2>1, <2>2, GoesOn DEF Unlock
  <2>4. CASE UNCHANGED mails
    BY <1>1, <2>3, <2>4 DEF Unlock, tables, Book!bookVars
  <2>5. CASE ~UNCHANGED mails
    <3>1. answer[s] = "ok" /\ op[s] = "approve" /\ mails' = mails \cup {<<"approved", target[s]>>}
          /\ UNCHANGED tables
      BY <1>1, <2>5 DEF Unlock
    <3>2. Book!Mail(s)
      BY <2>2, <2>3, <3>1, CallFields, SubjectsAgree DEF Book!Mail, tables
    <3> QED
      BY <3>2 DEF Book!Serve
  <2> QED
    BY <2>4, <2>5
<1>2. CASE SendVerification(s)
  <2>1. \A q \in Slots : q # s => pc'[q] = pc[q] /\ answer'[q] = answer[q]
    BY <1>0, <1>2 DEF SendVerification
  <2>2. /\ answer[s] = "ok" /\ op[s] = "register"
        /\ Outcome(s) = "ok" /\ Outcome(s)' = answer'[s]
    BY <1>0, <1>2 DEF SendVerification, Outcome, BookPart, TypeInv, StagesFit, Fits
  <2>3. CASE UNCHANGED answer
    <3>1. UNCHANGED Calls
      BY <1>2, <2>1, <2>2, <2>3, GoesOn DEF SendVerification
    <3>2. CASE UNCHANGED mails
      BY <1>2, <3>1, <3>2 DEF SendVerification, tables, Book!bookVars
    <3>3. CASE mails' = mails \cup {<<"verify", target[s]>>}
      <4>1. Book!Mail(s)
        BY <1>2, <2>2, <3>1, <3>3, CallFields, SubjectsAgree DEF Book!Mail, tables, SendVerification
      <4> QED
        BY <4>1 DEF Book!Serve
    <3> QED
      BY <1>2, <3>2, <3>3 DEF SendVerification
  <2>4. CASE answer' = [answer EXCEPT ![s] = "error"] /\ UNCHANGED mails
    <3>1. Book!Answer(s, "error")
      BY <1>0, <1>2, <2>1, <2>2, <2>4, Settles DEF SendVerification
    <3>2. Book!LoseAnswer(s)
      BY <1>2, <2>2, <2>4, <3>1, CallFields DEF Book!LoseAnswer, SendVerification, tables
    <3> QED
      BY <3>2 DEF Book!Serve
  <2> QED
    BY <1>2, <2>3, <2>4 DEF SendVerification
<1> QED
  BY <1>1, <1>2

\* A request that dies has not taken effect, or its answer is lost.
LEMMA CancelRefines ==
  ASSUME TypeInv, NEW s \in Slots, BookPart(s), Cancelled(s)
  PROVE  Book!Serve(s)
<1>1. CASE pc[s] \notin {"unlock", "mail"}
  BY <1>1, Refuses DEF Cancelled, Answers
<1>2. CASE pc[s] \in {"unlock", "mail"}
  <2>1. \A q \in Slots : q # s => pc'[q] = pc[q] /\ answer'[q] = answer[q]
    BY DEF Cancelled, Reply, Goto, TypeInv, TypeOK, RequestsTyped
  <2>2. Outcome(s) = answer[s] /\ Outcome(s)' = "error"
    BY <1>2 DEF Cancelled, Reply, Goto, Outcome, TypeInv, TypeOK, RequestsTyped
  <2>3. answer[s] \in Book!Refusals \cup {"ok"} /\ op[s] # "delete"
    BY <1>2 DEF BookPart, TypeInv, TypeOK, RequestsTyped, Answers, Book!Refusals, StagesFit, Fits
  <2>4. Book!Answer(s, "error")
    BY <2>1, <2>2, Settles DEF Cancelled
  <2>5. Book!LoseAnswer(s)
    BY <2>2, <2>3, <2>4, CallFields DEF Book!LoseAnswer, Cancelled, tables
  <2> QED
    BY <2>5 DEF Book!Serve
<1> QED
  BY <1>1, <1>2

LEMMA ReturnRefines ==
  ASSUME TypeInv, NEW s \in Slots, BookPart(s), Return(s)
  PROVE  Book!Serve(s)
<1> USE DEF Return, Reply, Goto, TypeInv, TypeOK, RequestsTyped
<1>1. \A q \in Slots : q # s => pc'[q] = pc[q] /\ answer'[q] = answer[q]
  OBVIOUS
<1>2. \A q \in Slots : q # s => Outcome(q)' = Outcome(q)
  BY <1>1 DEF Outcome
<1>3. Outcome(s) = answer[s] /\ Outcome(s)' = "none"
  BY DEF Outcome
<1>4. Calls' = [q \in Slots |-> IF q = s THEN Book!Idle ELSE Calls[q]]
  BY <1>2, <1>3 DEF Calls, Book!Idle
<1>5. Calls = [q \in Slots |-> Calls[q]]
  BY DEF Calls
<1>6. Calls' = [Calls EXCEPT ![s] = Book!Idle]
  BY <1>4, <1>5
<1>7. answer[s] \in Book!Refusals \cup {"ok"}
  BY DEF BookPart, Answers, Book!Refusals
<1>8. Book!Return(s)
  BY <1>3, <1>6, <1>7, CallFields DEF Book!Return, tables
<1> QED
  BY <1>8 DEF Book!Serve

LEMMA StepRefines ==
  ASSUME TypeInv, SafeInv, EmailInv, BookInv, Exclusive => PromiseInv /\ DecisionsFresh,
         NEW s \in Slots, Step(s) \/ Fault(s)
  PROVE  Book!Serve(s) \/ UNCHANGED Book!bookVars
<1>0. BookPart(s) /\ Addressed
  BY DEF BookInv
<1>1. ASSUME NEW a \in Answers \ {"none", "ok"}, Rollback(s, a),
             pc[s] \in {"begin", "load", "save", "commit"}
      PROVE  Book!Serve(s)
  BY <1>1, Refuses DEF Rollback, tables
<1>2. CASE Enter(s)
  BY <1>2, Stutters DEF Enter, Stages
<1>3. CASE LockRefused(s)
  BY <1>3, Refuses DEF LockRefused, Answers
<1>4. CASE CreateRegistration(s) \/ Save(s)
  <2>1. CASE Rollback(s, "error")
    BY <1>1, <1>4, <2>1 DEF CreateRegistration, Save, Answers
  <2>2. CASE ~Rollback(s, "error")
    BY <1>4, <2>2, Stutters DEF CreateRegistration, Save, Stages
  <2> QED
    BY <2>1, <2>2
<1>5. CASE MarkUsed(s)
  BY <1>5, Stutters DEF MarkUsed, Stages
<1>6. CASE LoadForVerify(s) \/ LoadForApprove(s) \/ LoadForReject(s)
  <2>1. CASE \E a \in Answers \ {"none", "ok"} : Rollback(s, a)
    BY <1>1, <1>6, <2>1 DEF LoadForVerify, LoadForApprove, LoadForReject
  <2>2. CASE ~\E a \in Answers \ {"none", "ok"} : Rollback(s, a)
    <3>1. /\ pc[s] = "load" /\ op[s] # "register" /\ \E p \in {"save", "commit"} : Goto(s, p)
          /\ \E r : snap' = [snap EXCEPT ![s] = r]
          /\ UNCHANGED <<tables, mails, op, target, answer>>
      BY <1>6, <2>2 DEF LoadForVerify, LoadForApprove, LoadForReject, Answers
    <3>2. \A q \in Slots : q # s => snap'[q] = snap[q]
      BY <3>1 DEF TypeInv, TypeOK, RequestsTyped
    <3> QED
      BY <3>1, <3>2, Stutters DEF Stages
  <2> QED
    BY <2>1, <2>2
<1>7. CASE CommitUpdate(s)
  <2>1. op[s] \in {"verify", "approve", "reject"}
    BY <1>7 DEF CommitUpdate, TypeInv, StagesFit, Fits
  <2> QED
    BY <1>0, <1>7, <2>1, VerifyRefines, DecisionRefines
<1>8. CASE DeadlockVictim(s)
  BY <1>1, <1>8, Refuses DEF DeadlockVictim, Deadlocked, Answers
<1>9. CASE DatabaseError(s)
  BY <1>1, <1>9 DEF DatabaseError, Answers
<1> QED
  BY <1>0, <1>2, <1>3, <1>4, <1>5, <1>6, <1>7, <1>8, <1>9, RegisterRefines, DeleteRefines,
     MailRefines, CancelRefines, ReturnRefines DEF Step, Fault

\* Every request takes effect in one step or not at all, for any number of
\* requests, registrations and addresses: what Postgres' row locks and unique
\* index give without the distributed lock, and what a lock that works adds.
THEOREM RequestsAreAtomic == Spec => ImplementsBook
<1> DEFINE Ex == Exclusive => DecisionHoldsKey /\ PromiseInv /\ DecisionsFresh
           I == TypeInv /\ SafeInv /\ EmailInv /\ BookInv /\ Ex
<1>1. Init => I
  BY TypeInvInitially, SafeInitially, EmailsInitially, ApprovalsInitially, BookInitially,
     FreshInitially
<1>2. I /\ [Next]_vars => I'
  <2> SUFFICES ASSUME I, [Next]_vars PROVE I'
    OBVIOUS
  <2>1. TypeInv' /\ SafeInv' /\ EmailInv' /\ BookInv'
    BY TypeInvInductive, SafeInductive, EmailsInductive, BookInductive
  <2>2. Exclusive => DecisionHoldsKey' /\ PromiseInv' /\ DecisionsFresh'
    BY KeyInductive, PromisesInductive, FreshInductive DEF Exclusive
  <2>3. Exclusive' <=> Exclusive
    BY DEF Exclusive
  <2> QED
    BY <2>1, <2>2, <2>3
<1>3. Init => Book!Init
  BY BookStarts
<1>4. I /\ [Next]_vars => [Book!Next]_(Book!bookVars)
  <2> SUFFICES ASSUME I, [Next]_vars PROVE Book!Next \/ UNCHANGED Book!bookVars
    OBVIOUS
  <2>0. \A s \in Slots : BookPart(s)
    BY DEF BookInv
  <2>1. ASSUME NEW s \in Slots, Arrival(s) PROVE Book!Next
    BY <2>0, <2>1, ArrivalRefines DEF Book!Next
  <2>2. ASSUME NEW s \in Slots, Step(s) \/ Fault(s) PROVE Book!Next \/ UNCHANGED Book!bookVars
    BY <2>2, StepRefines DEF Book!Next
  <2>3. UNCHANGED <<snap, op, target, pc, answer>> => UNCHANGED Calls
    BY DEF Calls, Outcome
  <2>4. ASSUME NEW t \in Regs, TokenExpires(t) PROVE Book!Next
    BY <2>3, <2>4 DEF TokenExpires, Book!Expire, Book!Next, request
  <2>5. ASSUME NEW k \in LockKeys, LockExpires(k) PROVE UNCHANGED Book!bookVars
    BY <2>3, <2>5 DEF LockExpires, Book!bookVars, tables, request
  <2>6. CASE UNCHANGED vars
    BY <2>3, <2>6 DEF vars, Book!bookVars
  <2> QED
    BY <2>1, <2>2, <2>4, <2>5, <2>6 DEF Next
<1> QED
  BY <1>1, <1>2, <1>3, <1>4, PTL DEF Spec, ImplementsBook, Book!Spec
-----------------------------------------------------------------------------
(* Registration and the locker.                                            *)

\* The theorems about Locker, for the keys and requests of Registration.
LP == INSTANCE LockerProofs WITH Callers <- Slots, Keys <- LockKeys

\* A step of Registration uses the locker through its operations, or not at all.
LEMMA LockerSteps ==
  ASSUME TypeInv, [Next]_vars
  PROVE  [Lock!Next]_(Lock!lockVars)
<1> USE DEF Lock!Next
<1>1. ASSUME NEW s \in Slots, Arrival(s) PROVE UNCHANGED Lock!lockVars
  BY <1>1, ArrivalMoves DEF locker, Lock!lockVars
<1>2. ASSUME NEW s \in Slots, Enter(s) PROVE Lock!Next
  BY <1>2, LockKeyType DEF Enter, TypeInv, TypeOK
<1>3. ASSUME NEW s \in Slots, LockRefused(s) PROVE Lock!Next
  BY <1>3, LockKeyType DEF LockRefused, TypeInv, TypeOK
<1>4. ASSUME NEW s \in Slots, Unlock(s) PROVE Lock!Next
  BY <1>4 DEF Unlock
<1>5. ASSUME NEW s \in Slots, Cancelled(s) PROVE Lock!Next \/ UNCHANGED Lock!lockVars
  BY <1>5 DEF Cancelled, locker, Lock!lockVars
<1>6. ASSUME NEW s \in Slots, NEW a, Rollback(s, a) PROVE UNCHANGED Lock!lockVars
  BY <1>6 DEF Rollback, locker, Lock!lockVars
<1>7. ASSUME NEW s \in Slots, Step(s) \/ DatabaseError(s), ~Enter(s), ~LockRefused(s), ~Unlock(s)
      PROVE  UNCHANGED Lock!lockVars
  BY <1>6, <1>7
  DEF Step, CreateRegistration, CommitRegister, SendVerification, MarkUsed, LoadForVerify,
      LoadForApprove, LoadForReject, Save, CommitUpdate, DeleteRow, DeleteCascade,
      DeadlockVictim, Return, DatabaseError, locker, Lock!lockVars
<1>8. ASSUME NEW t \in Regs, TokenExpires(t) PROVE UNCHANGED Lock!lockVars
  BY <1>8 DEF TokenExpires, locker, Lock!lockVars
<1>9. ASSUME NEW k \in LockKeys, LockExpires(k) PROVE Lock!Next
  BY <1>9 DEF LockExpires
<1>10. CASE UNCHANGED vars
  BY <1>10 DEF vars, Lock!lockVars
<1> QED
  BY <1>1, <1>2, <1>3, <1>4, <1>5, <1>7, <1>8, <1>9, <1>10 DEF Next, Fault

LEMMA LockerBelow == Spec => Lock!Spec
<1>1. Init => Lock!Init
  BY DEF Init
<1>2. TypeInv /\ [Next]_vars => [Lock!Next]_(Lock!lockVars)
  BY LockerSteps
<1> QED
  BY <1>1, <1>2, TypeInvInitially, TypeInvInductive, PTL DEF Spec, Lock!Spec

\* What Locker promises holds of the registration service that is built on it:
\* over Redis, no two requests are inside their WithLock function under one key
\* that outlives it, through every path on which a request enters, returns,
\* is aborted by Postgres or is cancelled.
THEOREM OneInsidePerKey ==
  ASSUME Mode = "redis"
  PROVE  Spec => []Lock!MutualExclusion
<1>1. LP!LockerAssumption
  BY DEF LP!LockerAssumption, SlowKeys
<1>2. LP!Spec => []LP!MutualExclusion
  BY <1>1, LP!RedisMutualExclusion, Mode = "redis"
<1>3. LP!Init <=> Lock!Init
  BY DEF LP!Init, Lock!Init
<1>4. [LP!Next]_(LP!lockVars) <=> [Lock!Next]_(Lock!lockVars)
  <2>1. \A s \in Slots : \A k \in LockKeys :
          /\ LP!Acquire(s, k) <=> Lock!Acquire(s, k)
          /\ LP!Refuse(s, k) <=> Lock!Refuse(s, k)
    BY DEF LP!Acquire, Lock!Acquire, LP!Refuse, Lock!Refuse
  <2>2. \A s \in Slots : (LP!Release(s) <=> Lock!Release(s)) /\ (LP!Abandon(s) <=> Lock!Abandon(s))
    BY DEF LP!Release, Lock!Release, LP!Abandon, Lock!Abandon
  <2>3. \A k \in LockKeys : LP!Expire(k) <=> Lock!Expire(k)
    BY DEF LP!Expire, Lock!Expire
  <2> QED
    BY <2>1, <2>2, <2>3 DEF LP!Next, Lock!Next, LP!lockVars, Lock!lockVars
<1>5. LP!MutualExclusion <=> Lock!MutualExclusion
  BY DEF LP!MutualExclusion, Lock!MutualExclusion
<1> QED
  BY <1>2, <1>3, <1>4, <1>5, LockerBelow, PTL DEF LP!Spec, Lock!Spec
-----------------------------------------------------------------------------
(* Requests that wait for one another.                                     *)

\* A transaction that others wait for and that waits itself is a delete in its
\* cascade, if it holds a registration, or a verification at its save, if it
\* holds a token.
LEMMA HoldersThatWait ==
  ASSUME TypeInv, SafeInv, NEW s \in Slots, NEW q \in Slots, NEW r \in Slots,
         Waits(s, q), Waits(q, r)
  PROVE  /\ WaitsForRow(s, q) \/ WaitsForAddress(s, q) => pc[q] = "cascade"
         /\ WaitsForToken(s, q) => pc[q] = "save" /\ target[q] = target[s]
<1>1. pc[q] \in {"save", "delete", "cascade", "begin"}
  BY DEF Waits, WaitsForRow, WaitsForToken, WaitsForAddress
<1>2. pc[s] # "idle" /\ target[s] \in Regs
  BY DEF Waits, WaitsForRow, WaitsForToken, WaitsForAddress, TypeInv, TypeOK, RequestsTyped, StagesFit
<1>3. ASSUME NEW t \in Regs, rowLock[t] = q PROVE pc[q] = "cascade"
  BY <1>1, <1>3, RegistrationAssumption DEF SafeInv, RowLocksHeld
<1>4. ASSUME tokenLock[target[s]] = q PROVE pc[q] = "save" /\ target[q] = target[s]
  BY <1>1, <1>2, <1>4, RegistrationAssumption DEF SafeInv, TokenLocksHeld, Verifying
<1> QED
  BY <1>2, <1>3, <1>4 DEF WaitsForRow, WaitsForToken, WaitsForAddress

\* So a circle, followed from any of its requests, comes to a delete in its
\* cascade, and from there to the verification that holds the token.
LEMMA CirclesHoldAPair ==
  ASSUME TypeInv, SafeInv, BookInv
  PROVE  CirclesAreBroken
<1> SUFFICES ASSUME NEW W \in SUBSET Slots, W # {}, \A s \in W : \E q \in W : Waits(s, q)
             PROVE  \E s, q \in W : Deadlocked(s, q)
  BY DEF CirclesAreBroken
<1>1. PICK r \in W : pc[r] = "cascade"
  <2>1. PICK s \in W : TRUE
    OBVIOUS
  <2>2. PICK q \in W : Waits(s, q)
    OBVIOUS
  <2>3. PICK p \in W : Waits(q, p)
    OBVIOUS
  <2>4. PICK o \in W : Waits(p, o)
    OBVIOUS
  <2>5. CASE WaitsForRow(s, q) \/ WaitsForAddress(s, q)
    BY <2>2, <2>3, <2>5, HoldersThatWait
  <2>6. CASE WaitsForToken(s, q)
    <3>1. pc[q] = "save"
      BY <2>2, <2>3, <2>6, HoldersThatWait
    <3>2. WaitsForRow(q, p) \/ WaitsForAddress(q, p)
      BY <2>3, <3>1 DEF Waits, WaitsForToken
    <3> QED
      BY <2>3, <2>4, <3>2, HoldersThatWait
  <2> QED
    BY <2>2, <2>5, <2>6 DEF Waits
<1>2. PICK q \in W : Waits(r, q)
  OBVIOUS
<1>3. PICK p \in W : Waits(q, p)
  OBVIOUS
<1>4. WaitsForToken(r, q)
  BY <1>1, <1>2 DEF Waits, WaitsForRow, WaitsForAddress
<1>5. pc[q] = "save" /\ target[q] = target[r]
  BY <1>2, <1>3, <1>4, HoldersThatWait
<1>6. rowLock[target[r]] = r
  BY <1>1 DEF BookInv, BookPart
<1> QED
  BY <1>1, <1>4, <1>5, <1>6 DEF Deadlocked, WaitsForToken

\* Among requests that wait for one another there are always a delete and a
\* verification of one registration, which Postgres pulls apart: no number of
\* registrations, verifications, decisions and deletes comes to a standstill in
\* another way, with or without the distributed lock, faults or late inserts.
THEOREM NoOtherDeadlock == Spec => []CirclesAreBroken
<1> DEFINE I == TypeInv /\ SafeInv /\ BookInv
<1>1. Init => I
  BY TypeInvInitially, SafeInitially, BookInitially
<1>2. I /\ [Next]_vars => I'
  BY TypeInvInductive, SafeInductive, BookInductive
<1>3. I => CirclesAreBroken
  BY CirclesHoldAPair
<1> QED
  BY <1>1, <1>2, <1>3, PTL DEF Spec
=============================================================================

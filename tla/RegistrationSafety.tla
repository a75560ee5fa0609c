------------------------- MODULE RegistrationSafety -------------------------
(***************************************************************************)
(* The safety theorems of Registration, for all constants: IInv is an      *)
(* inductive invariant, and what follows from it.  Types come from         *)
(* RegistrationProofs; the lemmas below treat the rest, one lemma for each *)
(* kind of step, one conjunct at a time.                                   *)
(***************************************************************************)
EXTENDS RegistrationProofs

USE RegistrationAssumption

\* IInv without its types.
SafeInv == /\ RowLocksHeld /\ TokenLocksHeld /\ VerifierHoldsToken
           /\ KnownIds /\ FreeIds /\ Snapshots
           /\ UnusedMeansUnverified /\ NoTokenMeansDecided
           /\ PendingWriteback /\ NothingToSave
           /\ ApprovedIsVerified /\ SpentTokenIsNotStranded

\* A request moves between stages at which it holds no rows.
LEMMA QuietMove ==
  ASSUME TypeInv, SafeInv, NEW s \in Slots, NEW p \in {"begin", "load", "mail", "done"},
         pc[s] \in {"lock", "unlock", "mail", "delete"}, pc' = [pc EXCEPT ![s] = p],
         p = "begin" => pc[s] = "lock",
         p = "load" => op[s] # "verify",
         p = "mail" => regs[target[s]].status # "free",
         \A m \in mails' : m \in mails \/ regs[m[2]].status # "free",
         \A q \in Slots \ {s} : answer'[q] = answer[q],
         UNCHANGED <<tables, dblocks, op, target, snap>>
  PROVE  SafeInv'
<1> USE DEF TypeInv, TypeOK, TablesTyped, RequestsTyped, SafeInv, tables, dblocks
<1>1. RowLocksHeld'
  BY DEF RowLocksHeld
<1>2. TokenLocksHeld' /\ VerifierHoldsToken'
  BY DEF TokenLocksHeld, VerifierHoldsToken, Verifying
<1>3. KnownIds' /\ FreeIds'
  BY DEF KnownIds, FreeIds, Registering, Present
<1>4. Snapshots'
  BY DEF Snapshots, Registering, Writing
<1>5. UnusedMeansUnverified' /\ NoTokenMeansDecided'
  BY DEF UnusedMeansUnverified, NoTokenMeansDecided, Present
<1>6. PendingWriteback' /\ NothingToSave'
  BY DEF PendingWriteback, NothingToSave, Writing
<1>7. ApprovedIsVerified' /\ SpentTokenIsNotStranded'
  BY DEF ApprovedIsVerified, SpentTokenIsNotStranded
<1> QED
  BY <1>1, <1>2, <1>3, <1>4, <1>5, <1>6, <1>7

\* A request arrives in an idle slot, which holds no rows.
LEMMA ArrivesSafely ==
  ASSUME TypeInv, SafeInv, NEW s \in Slots, NEW t \in Regs, NEW o \in Ops, NEW r \in Row,
         NEW p \in {"lock", "delete", "done"}, pc[s] = "idle",
         pc' = [pc EXCEPT ![s] = p], op' = [op EXCEPT ![s] = o],
         target' = [target EXCEPT ![s] = t], snap' = [snap EXCEPT ![s] = r],
         o # "register" => regs[t].status # "free",
         o = "register" => /\ regs[t].status = "free" /\ \A q \in Slots : target[q] # t
                           /\ r.status = "pending" /\ ~r.verified,
         \A q \in Slots \ {s} : answer'[q] = answer[q],
         UNCHANGED <<tables, dblocks, mails>>
  PROVE  SafeInv'
<1> USE DEF TypeInv, TypeOK, TablesTyped, RequestsTyped, SafeInv, tables, dblocks
<1>1. RowLocksHeld'
  BY DEF RowLocksHeld
<1>2. TokenLocksHeld' /\ VerifierHoldsToken'
  BY DEF TokenLocksHeld, VerifierHoldsToken, Verifying
<1>3. KnownIds' /\ FreeIds'
  BY DEF KnownIds, FreeIds, Registering, Present
<1>4. Snapshots'
  BY DEF Snapshots, Registering, Writing
<1>5. UnusedMeansUnverified' /\ NoTokenMeansDecided'
  BY DEF UnusedMeansUnverified, NoTokenMeansDecided, Present
<1>6. PendingWriteback' /\ NothingToSave'
  BY DEF PendingWriteback, NothingToSave, Writing
<1>7. ApprovedIsVerified' /\ SpentTokenIsNotStranded'
  BY DEF ApprovedIsVerified, SpentTokenIsNotStranded
<1> QED
  BY <1>1, <1>2, <1>3, <1>4, <1>5, <1>6, <1>7

\* A transaction ends without a trace: a rollback, a cancellation, a statement
\* that Postgres aborts.
LEMMA Aborts ==
  ASSUME TypeInv, SafeInv, NEW s \in Slots, NEW p \in {"unlock", "done"},
         NEW a \in Answers \ {"ok"}, pc[s] # "idle",
         ReleaseRows(s), pc' = [pc EXCEPT ![s] = p], answer' = [answer EXCEPT ![s] = a],
         UNCHANGED <<tables, mails, op, target, snap>>
  PROVE  SafeInv'
<1> USE DEF TypeInv, TypeOK, TablesTyped, RequestsTyped, SafeInv, tables, ReleaseRows
<1>t. \A q \in Slots : pc[q] # "idle" => target[q] \in Regs
  BY DEF StagesFit
<1>1. RowLocksHeld'
  BY DEF RowLocksHeld
<1>2. TokenLocksHeld' /\ VerifierHoldsToken'
  BY <1>t DEF TokenLocksHeld, VerifierHoldsToken, Verifying
<1>3. KnownIds' /\ FreeIds'
  BY DEF KnownIds, FreeIds, Registering, Present
<1>4. Snapshots'
  BY <1>t DEF Snapshots, Registering, Writing
<1>5. UnusedMeansUnverified' /\ NoTokenMeansDecided'
  BY DEF UnusedMeansUnverified, NoTokenMeansDecided, Present
<1>6. PendingWriteback' /\ NothingToSave'
  BY <1>t DEF PendingWriteback, NothingToSave, Writing
<1>7. ApprovedIsVerified' /\ SpentTokenIsNotStranded'
  BY DEF ApprovedIsVerified, SpentTokenIsNotStranded
<1> QED
  BY <1>1, <1>2, <1>3, <1>4, <1>5, <1>6, <1>7

\* INSERT, UPDATE or DELETE of the registration's row takes its row lock.
LEMMA TakesRow ==
  ASSUME TypeInv, SafeInv, NEW s \in Slots, NEW p \in {"commit", "cascade"},
         \/ pc[s] = "begin" /\ op[s] = "register" /\ p = "commit"
         \/ pc[s] = "save" /\ p = "commit" /\ rowLock[target[s]] = NoSlot
         \/ pc[s] = "delete" /\ p = "cascade" /\ rowLock[target[s]] = NoSlot,
         rowLock' = [rowLock EXCEPT ![target[s]] = s],
         pc' = [pc EXCEPT ![s] = p],
         UNCHANGED <<tables, tokenLock, mails, op, target, snap, answer>>
  PROVE  SafeInv'
<1> USE DEF TypeInv, TypeOK, TablesTyped, RequestsTyped, SafeInv, tables
<1>t. \A q \in Slots : pc[q] # "idle" => target[q] \in Regs
  BY DEF StagesFit
<1>o. (pc[s] = "delete" => op[s] = "delete") /\ (pc[s] = "save" => op[s] # "register")
  BY DEF StagesFit, Fits
<1>1. RowLocksHeld'
  BY <1>t DEF RowLocksHeld
<1>2. TokenLocksHeld' /\ VerifierHoldsToken'
  BY DEF TokenLocksHeld, VerifierHoldsToken, Verifying
<1>3. KnownIds' /\ FreeIds'
  BY <1>o DEF KnownIds, FreeIds, Registering, Present
<1>4. Snapshots'
  BY <1>t, <1>o DEF Snapshots, Registering, Writing
<1>5. UnusedMeansUnverified' /\ NoTokenMeansDecided'
  BY <1>o DEF UnusedMeansUnverified, NoTokenMeansDecided, Present
<1>6. PendingWriteback'
  BY <1>t, <1>o DEF PendingWriteback, Writing
<1>7. NothingToSave'
  BY <1>t, <1>o DEF NothingToSave, Writing, FreeIds, Registering
<1>8. ApprovedIsVerified' /\ SpentTokenIsNotStranded'
  BY DEF ApprovedIsVerified, SpentTokenIsNotStranded
<1> QED
  BY <1>1, <1>2, <1>3, <1>4, <1>5, <1>6, <1>7, <1>8

\* UPDATE email_verifications takes the token's row lock, if the row exists.
LEMMA MarksUsed ==
  ASSUME TypeInv, SafeInv, NEW s \in Slots, MarkUsed(s)
  PROVE  SafeInv'
<1> USE DEF TypeInv, TypeOK, TablesTyped, RequestsTyped, SafeInv, tables, MarkUsed, Goto
<1>t. \A q \in Slots : pc[q] # "idle" => target[q] \in Regs
  BY DEF StagesFit
<1>1. RowLocksHeld'
  BY DEF RowLocksHeld
<1>2. TokenLocksHeld'
  BY <1>t DEF TokenLocksHeld, Verifying
<1>3. VerifierHoldsToken'
  BY <1>t DEF VerifierHoldsToken, Verifying
<1>4. KnownIds' /\ FreeIds'
  BY DEF KnownIds, FreeIds, Registering, Present
<1>5. Snapshots'
  BY DEF Snapshots, Registering, Writing
<1>6. UnusedMeansUnverified' /\ NoTokenMeansDecided'
  BY DEF UnusedMeansUnverified, NoTokenMeansDecided, Present
<1>7. PendingWriteback' /\ NothingToSave'
  BY <1>t DEF PendingWriteback, NothingToSave, Writing, VerifierHoldsToken, Verifying
<1>8. ApprovedIsVerified' /\ SpentTokenIsNotStranded'
  BY DEF ApprovedIsVerified, SpentTokenIsNotStranded
<1> QED
  BY <1>1, <1>2, <1>3, <1>4, <1>5, <1>6, <1>7, <1>8

\* GetByID and the checks of a verification.
LEMMA LoadsForVerify ==
  ASSUME TypeInv, SafeInv, NEW s \in Slots, LoadForVerify(s), Present(target[s])
  PROVE  SafeInv'
<1> DEFINE t == target[s]
           row == [regs[t] EXCEPT !.verified = TRUE]
<1> USE DEF TypeInv, TypeOK, TablesTyped, RequestsTyped, SafeInv, tables, dblocks
<1>t. t \in Regs /\ regs[t] \in Row
  BY DEF StagesFit, LoadForVerify
<1>r. row.verified /\ row.status = regs[t].status
  BY <1>t DEF Row
<1>p. PICK p \in {"commit", "save"} :
        /\ pc' = [pc EXCEPT ![s] = p]
        /\ p = "commit" <=> regs[t].verified
  BY <1>t DEF LoadForVerify, Goto, Row, Rollback
<1>a. /\ pc[s] = "load" /\ op[s] = "verify" /\ snap' = [snap EXCEPT ![s] = row]
      /\ UNCHANGED <<tables, dblocks, mails, op, target, answer>>
  BY DEF LoadForVerify
<1>s. regs[t].status \in Statuses
  BY DEF LoadForVerify, Present
<1> HIDE DEF row
<1>1. RowLocksHeld'
  BY <1>p, <1>a DEF RowLocksHeld
<1>2. TokenLocksHeld' /\ VerifierHoldsToken'
  BY <1>p, <1>a DEF TokenLocksHeld, VerifierHoldsToken, Verifying
<1>3. KnownIds' /\ FreeIds'
  BY <1>p, <1>a DEF KnownIds, FreeIds, Registering, Present
<1>w. Writing(s)' <=> ~regs[t].verified
  BY <1>p, <1>a, <1>t DEF Writing, RowLocksHeld
<1>4. Snapshots'
  <2>1. ~regs[t].verified => regs[t].status \in {"pending", "rejected"}
    BY <1>t, <1>s DEF ApprovedIsVerified, Statuses
  <2> QED
    BY <1>p, <1>a, <1>t, <1>r, <1>w, <2>1 DEF Snapshots, Registering, Writing
<1>5. UnusedMeansUnverified' /\ NoTokenMeansDecided'
  BY <1>p, <1>a DEF UnusedMeansUnverified, NoTokenMeansDecided, Present
<1>6. PendingWriteback'
  <2>1. ~regs[t].verified /\ regs[t].status = "pending"
          => tokens[t] \in {"fresh", "expired"} /\ tokenLock[t] = s
    BY <1>t, <1>a DEF NoTokenMeansDecided, SpentTokenIsNotStranded, VerifierHoldsToken,
                      Verifying, Present, Statuses
  <2> QED
    BY <1>p, <1>a, <1>t, <1>r, <1>w, <2>1 DEF PendingWriteback, Writing
<1>7. NothingToSave'
  BY <1>p, <1>a, <1>t, <1>w DEF NothingToSave, Writing
<1>8. ApprovedIsVerified' /\ SpentTokenIsNotStranded'
  BY <1>a DEF ApprovedIsVerified, SpentTokenIsNotStranded
<1> QED
  BY <1>1, <1>2, <1>3, <1>4, <1>5, <1>6, <1>7, <1>8

\* GetByID and the checks of a decision that goes through.
LEMMA LoadsDecision ==
  ASSUME TypeInv, SafeInv, NEW s \in Slots, pc[s] = "load",
         NEW st \in {"approved", "rejected"},
         op[s] = IF st = "approved" THEN "approve" ELSE "reject",
         Present(target[s]), st = "approved" => regs[target[s]].verified,
         pc' = [pc EXCEPT ![s] = "save"],
         snap' = [snap EXCEPT ![s] = [regs[target[s]] EXCEPT !.status = st]],
         UNCHANGED <<tables, dblocks, mails, op, target, answer>>
  PROVE  SafeInv'
<1> DEFINE t == target[s]
           row == [regs[t] EXCEPT !.status = st]
<1> USE DEF TypeInv, TypeOK, TablesTyped, RequestsTyped, SafeInv, tables, dblocks
<1>t. t \in Regs /\ regs[t] \in Row
  BY DEF StagesFit
<1>r. row.status = st /\ row.verified = regs[t].verified
  BY <1>t DEF Row
<1>a. snap' = [snap EXCEPT ![s] = row]
  OBVIOUS
<1> HIDE DEF row
<1>1. RowLocksHeld'
  BY DEF RowLocksHeld
<1>2. TokenLocksHeld' /\ VerifierHoldsToken'
  BY DEF TokenLocksHeld, VerifierHoldsToken, Verifying
<1>3. KnownIds' /\ FreeIds'
  BY DEF KnownIds, FreeIds, Registering, Present
<1>4. Snapshots'
  BY <1>a, <1>t, <1>r DEF Snapshots, Registering, Writing
<1>5. UnusedMeansUnverified' /\ NoTokenMeansDecided'
  BY <1>a, <1>t, <1>r DEF UnusedMeansUnverified, NoTokenMeansDecided, Present
<1>6. PendingWriteback' /\ NothingToSave'
  BY <1>a, <1>t DEF PendingWriteback, NothingToSave, Writing
<1>8. ApprovedIsVerified' /\ SpentTokenIsNotStranded'
  BY DEF ApprovedIsVerified, SpentTokenIsNotStranded
<1> QED
  BY <1>1, <1>2, <1>3, <1>4, <1>5, <1>6, <1>8

\* COMMIT of a registration: its row and its token appear together.
LEMMA CommitsRegister ==
  ASSUME TypeInv, SafeInv, NEW s \in Slots, CommitRegister(s)
  PROVE  SafeInv'
<1> DEFINE t == target[s]
<1> USE DEF TypeInv, TypeOK, TablesTyped, RequestsTyped, SafeInv
<1>t. \A q \in Slots : pc[q] # "idle" => target[q] \in Regs
  BY DEF StagesFit
<1>a. /\ pc[s] = "commit" /\ op[s] = "register" /\ t \in Regs
      /\ regs' = [regs EXCEPT ![t] = snap[s]]
      /\ tokens' = [tokens EXCEPT ![t] = "fresh"]
      /\ pc' = [pc EXCEPT ![s] = "unlock"]
      /\ \A q \in Slots \ {s} : answer'[q] = answer[q]
      /\ UNCHANGED <<mails, op, target, snap>>
  BY <1>t DEF CommitRegister, Reply, Goto
<1>l. /\ rowLock' = [u \in Regs |-> IF rowLock[u] = s THEN NoSlot ELSE rowLock[u]]
      /\ tokenLock' = [u \in Regs |-> IF tokenLock[u] = s THEN NoSlot ELSE tokenLock[u]]
  BY DEF CommitRegister, ReleaseRows
<1>n. /\ snap[s].status = "pending" /\ ~snap[s].verified
      /\ regs[t].status = "free"
  BY <1>a DEF Snapshots, FreeIds, Registering
<1>o. \A q \in Slots : pc[q] # "idle" /\ target[q] = t => op[q] = "register"
  BY <1>n DEF FreeIds
<1>u. \A q \in Slots : Registering(q) /\ target[q] = t => q = s
  BY <1>a DEF FreeIds, Registering
<1>1. RowLocksHeld'
  BY <1>a, <1>l DEF RowLocksHeld
<1>2. TokenLocksHeld'
  BY <1>a, <1>l DEF TokenLocksHeld, Verifying
<1>3. VerifierHoldsToken'
  BY <1>a, <1>l, <1>t, <1>o DEF VerifierHoldsToken, Verifying
<1>m. \A m \in mails : m[2] \in Regs
  BY DEF MailsTyped
<1>4. KnownIds'
  BY <1>a, <1>n, <1>t, <1>m DEF KnownIds, Present, Statuses
<1>12. FreeIds'
  BY <1>a, <1>n, <1>t, <1>o, <1>u DEF FreeIds, Registering
<1>5. Snapshots'
  BY <1>a, <1>l, <1>t DEF Snapshots, Registering, Writing
<1>6. UnusedMeansUnverified' /\ NoTokenMeansDecided'
  BY <1>a, <1>n, <1>o DEF UnusedMeansUnverified, NoTokenMeansDecided, Present
<1>7. PendingWriteback' /\ NothingToSave'
  BY <1>a, <1>l, <1>t, <1>o DEF PendingWriteback, NothingToSave, Writing
<1>8. ApprovedIsVerified' /\ SpentTokenIsNotStranded'
  BY <1>a, <1>n DEF ApprovedIsVerified, SpentTokenIsNotStranded
<1> QED
  BY <1>1, <1>2, <1>3, <1>4, <1>12, <1>5, <1>6, <1>7, <1>8

\* What a transaction of a verification or decision writes when it commits.
LEMMA Written ==
  ASSUME TypeInv, SafeInv, NEW s \in Slots, pc[s] = "commit", op[s] # "register",
         rowLock[target[s]] = s
  PROVE  /\ snap[s].status = "rejected" \/ snap[s].verified
         /\ snap[s].status \in Statuses
         /\ snap[s].status = "pending"
              => op[s] = "verify" /\ tokens[target[s]] \in {"fresh", "expired"}
<1>1. op[s] \in {"verify", "approve", "reject"}
  BY DEF TypeInv, StagesFit, Fits
<1>2. CASE op[s] = "verify"
  BY <1>2 DEF SafeInv, Snapshots, Writing, Statuses, PendingWriteback
<1>3. CASE op[s] \in {"approve", "reject"}
  BY <1>3 DEF SafeInv, Snapshots, Statuses
<1> QED
  BY <1>1, <1>2, <1>3

\* COMMIT of a verification or decision.
LEMMA CommitsUpdate ==
  ASSUME TypeInv, SafeInv, NEW s \in Slots, CommitUpdate(s)
  PROVE  SafeInv'
<1> DEFINE t == target[s]
           wrote == rowLock[t] = s
           spent == tokenLock[t] = s
<1> USE DEF TypeInv, TypeOK, TablesTyped, RequestsTyped, SafeInv
<1>t. \A q \in Slots : pc[q] # "idle" => target[q] \in Regs
  BY DEF StagesFit
<1>a. /\ pc[s] = "commit" /\ op[s] # "register" /\ t \in Regs
      /\ regs' = IF wrote THEN [regs EXCEPT ![t] = snap[s]] ELSE regs
      /\ tokens' = IF spent THEN [tokens EXCEPT ![t] = "used"] ELSE tokens
      /\ pc' = [pc EXCEPT ![s] = "unlock"]
      /\ \A q \in Slots \ {s} : answer'[q] = answer[q]
      /\ UNCHANGED <<mails, op, target, snap>>
  BY <1>t DEF CommitUpdate, Reply, Goto
<1>l. /\ rowLock' = [u \in Regs |-> IF rowLock[u] = s THEN NoSlot ELSE rowLock[u]]
      /\ tokenLock' = [u \in Regs |-> IF tokenLock[u] = s THEN NoSlot ELSE tokenLock[u]]
  BY DEF CommitUpdate, ReleaseRows
<1>o. op[s] \in {"verify", "approve", "reject"}
  BY <1>a DEF StagesFit, Fits
<1>w. wrote => /\ snap[s].status = "rejected" \/ snap[s].verified
               /\ snap[s].status \in Statuses
  BY <1>a, Written
<1>f. regs[t].status # "free"
  BY <1>a DEF FreeIds
<1>v. op[s] = "verify" /\ tokens[t] # "none" => spent
  BY <1>a DEF VerifierHoldsToken, Verifying
<1>1. RowLocksHeld'
  BY <1>a, <1>l DEF RowLocksHeld
<1>2. TokenLocksHeld'
  BY <1>a, <1>l DEF TokenLocksHeld, Verifying
<1>3. VerifierHoldsToken'
  BY <1>a, <1>l, <1>t DEF VerifierHoldsToken, Verifying, TokenLocksHeld
<1>m. \A m \in mails : m[2] \in Regs
  BY DEF MailsTyped
<1>4. KnownIds'
  BY <1>a, <1>w, <1>t, <1>m DEF KnownIds, Present, Statuses, TokenLocksHeld
<1>12. FreeIds'
  BY <1>a, <1>w, <1>t, <1>f DEF FreeIds, Registering, Statuses
<1>5. Snapshots'
  BY <1>a, <1>l, <1>t DEF Snapshots, Registering, Writing
<1>6. UnusedMeansUnverified'
  BY <1>a, <1>v, <1>o, <1>t DEF UnusedMeansUnverified
<1>7. NoTokenMeansDecided'
  BY <1>a, <1>w DEF NoTokenMeansDecided, Present
<1>8. PendingWriteback'
  BY <1>a, <1>l, <1>t DEF PendingWriteback, Writing
<1>9. NothingToSave'
  BY <1>a, <1>l, <1>t, <1>w DEF NothingToSave, Writing
<1>10. ApprovedIsVerified'
  BY <1>a, <1>w DEF ApprovedIsVerified
<1>11. SpentTokenIsNotStranded'
  BY <1>a, <1>w, <1>o DEF SpentTokenIsNotStranded, NothingToSave, Writing, TokenLocksHeld, Verifying
<1> QED
  BY <1>1, <1>2, <1>3, <1>4, <1>12, <1>5, <1>6, <1>7, <1>8, <1>9, <1>10, <1>11

\* The end of a DELETE: the row and its token disappear together.
LEMMA Deletes ==
  ASSUME TypeInv, SafeInv, NEW s \in Slots, DeleteCascade(s)
  PROVE  SafeInv'
<1> DEFINE t == target[s]
<1> USE DEF TypeInv, TypeOK, TablesTyped, RequestsTyped, SafeInv
<1>t. \A q \in Slots : pc[q] # "idle" => target[q] \in Regs
  BY DEF StagesFit
<1>a. /\ pc[s] = "cascade" /\ op[s] = "delete" /\ t \in Regs /\ tokenLock[t] = NoSlot
      /\ regs' = [regs EXCEPT ![t] = DeletedRow]
      /\ tokens' = [tokens EXCEPT ![t] = "none"]
      /\ pc' = [pc EXCEPT ![s] = "done"]
      /\ \A q \in Slots \ {s} : answer'[q] = answer[q]
      /\ UNCHANGED <<mails, op, target, snap>>
  BY <1>t DEF DeleteCascade, Reply, Goto, StagesFit, Fits
<1>l. /\ rowLock' = [u \in Regs |-> IF rowLock[u] = s THEN NoSlot ELSE rowLock[u]]
      /\ tokenLock' = [u \in Regs |-> IF tokenLock[u] = s THEN NoSlot ELSE tokenLock[u]]
  BY DEF DeleteCascade, ReleaseRows
<1>d. DeletedRow.status = "deleted" /\ ~DeletedRow.verified
  BY DEF DeletedRow
<1>f. regs[t].status # "free"
  BY <1>a DEF FreeIds
<1>1. RowLocksHeld'
  BY <1>a, <1>l DEF RowLocksHeld
<1>2. TokenLocksHeld' /\ VerifierHoldsToken'
  BY <1>a, <1>l, <1>t DEF TokenLocksHeld, VerifierHoldsToken, Verifying
<1>m. \A m \in mails : m[2] \in Regs
  BY DEF MailsTyped
<1>4. KnownIds'
  BY <1>a, <1>d, <1>t, <1>m DEF KnownIds, Present
<1>12. FreeIds'
  BY <1>a, <1>d, <1>t, <1>f DEF FreeIds, Registering
<1>5. Snapshots'
  BY <1>a, <1>l, <1>t DEF Snapshots, Registering, Writing
<1>6. UnusedMeansUnverified' /\ NoTokenMeansDecided'
  BY <1>a, <1>d DEF UnusedMeansUnverified, NoTokenMeansDecided, Present, Statuses
<1>7. PendingWriteback' /\ NothingToSave'
  BY <1>a, <1>l, <1>t DEF PendingWriteback, NothingToSave, Writing
<1>8. ApprovedIsVerified' /\ SpentTokenIsNotStranded'
  BY <1>a, <1>d DEF ApprovedIsVerified, SpentTokenIsNotStranded
<1> QED
  BY <1>1, <1>2, <1>4, <1>12, <1>5, <1>6, <1>7, <1>8

\* The answer is out; the slot is idle again.
LEMMA Returns ==
  ASSUME TypeInv, SafeInv, NEW s \in Slots, Return(s)
  PROVE  SafeInv'
<1> USE DEF TypeInv, TypeOK, TablesTyped, RequestsTyped, SafeInv, tables, dblocks,
            Return, Reply, Goto
<1>1. RowLocksHeld'
  BY DEF RowLocksHeld
<1>2. TokenLocksHeld' /\ VerifierHoldsToken'
  BY DEF TokenLocksHeld, VerifierHoldsToken, Verifying
<1>3. KnownIds'
  BY DEF KnownIds, Present
<1>8. FreeIds'
  <2>1. \A q \in Slots : pc[q] # "idle" => target[q] \in Regs
    BY DEF StagesFit
  <2> QED
    BY <2>1 DEF FreeIds, Registering
<1>4. Snapshots'
  BY DEF Snapshots, Registering, Writing
<1>5. UnusedMeansUnverified' /\ NoTokenMeansDecided'
  BY DEF UnusedMeansUnverified, NoTokenMeansDecided, Present
<1>6. PendingWriteback' /\ NothingToSave'
  BY DEF PendingWriteback, NothingToSave, Writing
<1>7. ApprovedIsVerified' /\ SpentTokenIsNotStranded'
  BY DEF ApprovedIsVerified, SpentTokenIsNotStranded
<1> QED
  BY <1>1, <1>2, <1>3, <1>4, <1>5, <1>6, <1>7, <1>8

LEMMA TokenExpiresSafely ==
  ASSUME TypeInv, SafeInv, NEW t \in Regs, TokenExpires(t)
  PROVE  SafeInv'
<1> USE DEF TypeInv, TypeOK, TablesTyped, RequestsTyped, SafeInv, dblocks, request,
            TokenExpires
<1>1. RowLocksHeld'
  BY DEF RowLocksHeld
<1>2. TokenLocksHeld' /\ VerifierHoldsToken'
  BY DEF TokenLocksHeld, VerifierHoldsToken, Verifying, StagesFit
<1>3. KnownIds' /\ FreeIds'
  BY DEF KnownIds, FreeIds, Registering, Present
<1>4. Snapshots'
  BY DEF Snapshots, Registering, Writing
<1>5. UnusedMeansUnverified' /\ NoTokenMeansDecided'
  BY DEF UnusedMeansUnverified, NoTokenMeansDecided, Present
<1>6. PendingWriteback' /\ NothingToSave'
  BY DEF PendingWriteback, NothingToSave, Writing, StagesFit
<1>7. ApprovedIsVerified' /\ SpentTokenIsNotStranded'
  BY DEF ApprovedIsVerified, SpentTokenIsNotStranded
<1> QED
  BY <1>1, <1>2, <1>3, <1>4, <1>5, <1>6, <1>7

LEMMA ArrivalSafe ==
  ASSUME TypeInv, SafeInv, NEW s \in Slots, Arrival(s)
  PROVE  SafeInv'
<1>a. answer \in [Slots -> Answers]
  BY DEF TypeInv, TypeOK, RequestsTyped
<1>1. ASSUME NEW t \in Regs, NEW e \in Emails, Register(s, e, t)  PROVE SafeInv'
  <2> DEFINE row == [email |-> e, status |-> "pending", verified |-> FALSE]
  <2>1. row \in Row /\ row.status = "pending" /\ ~row.verified
    BY NewRow
  <2> HIDE DEF row
  <2>2. /\ Arrive(s, "register", t, row)
        /\ \/ Goto(s, "lock") /\ answer' = answer
           \/ Reply(s, "done", "conflict")
        /\ UNCHANGED <<tables, dblocks, mails>>
        /\ regs[t].status = "free" /\ \A q \in Slots : target[q] # t
    BY <1>1 DEF Register, row
  <2>3. PICK p \in {"lock", "done"} : Goto(s, p)
    BY <2>2 DEF Reply
  <2>4. \A q \in Slots \ {s} : answer'[q] = answer[q]
    BY <1>a, <2>2 DEF Reply
  <2> QED
    BY <2>1, <2>2, <2>3, <2>4, ArrivesSafely DEF Arrive, Goto, Ops
<1>2. ASSUME NEW t \in Regs, VerifyEmail(s, t)  PROVE SafeInv'
  <2>1. /\ Arrive(s, "verify", t, FreeRow)
        /\ \/ Goto(s, "lock") /\ answer' = answer
           \/ Reply(s, "done", "bad request")
        /\ UNCHANGED <<tables, dblocks, mails>>
    BY <1>2 DEF VerifyEmail
  <2>2. regs[t].status # "free"
    BY <1>2 DEF VerifyEmail, SafeInv, KnownIds
  <2>3. PICK p \in {"lock", "done"} : Goto(s, p)
    BY <2>1 DEF Reply
  <2>4. \A q \in Slots \ {s} : answer'[q] = answer[q]
    BY <1>a, <2>1 DEF Reply
  <2> QED
    BY <2>1, <2>2, <2>3, <2>4, NullRows, ArrivesSafely DEF Arrive, Goto, Ops
<1>3. ASSUME NEW t \in Regs, NEW o \in {"approve", "reject"}, Decide(s, o, t)
      PROVE  SafeInv'
  BY <1>3, NullRows, ArrivesSafely DEF Decide, Arrive, Goto, Ops
<1>4. ASSUME NEW t \in Regs, AdminDelete(s, t)  PROVE SafeInv'
  BY <1>4, NullRows, ArrivesSafely DEF AdminDelete, Arrive, Goto, Ops
<1> QED
  BY <1>1, <1>2, <1>3, <1>4 DEF Arrival, AdminApprove, AdminReject

\* Rollback is the commonest way to end a transaction without a trace.
LEMMA RollsBack ==
  ASSUME TypeInv, SafeInv, NEW s \in Slots, NEW a \in Answers \ {"ok"},
         pc[s] # "idle", Rollback(s, a)
  PROVE  SafeInv'
BY Aborts DEF Rollback, Reply, Goto, tables

LEMMA StepSafe ==
  ASSUME TypeInv, SafeInv, NEW s \in Slots, Step(s)
  PROVE  SafeInv'
<1>a. answer \in [Slots -> Answers]
  BY DEF TypeInv, TypeOK, RequestsTyped
<1>k. pc[s] # "idle" /\ op[s] # "register" => regs[target[s]].status # "free"
  BY DEF SafeInv, FreeIds
<1>1. CASE Enter(s)
  <2>1. PICK p \in {"begin", "load"} : Goto(s, p) /\ (p = "load" => op[s] # "verify")
    BY <1>1 DEF Enter
  <2> QED
    BY <1>1, <2>1, QuietMove DEF Enter, Goto
<1>2. CASE LockRefused(s)
  BY <1>2, <1>a, QuietMove DEF LockRefused, Reply, Goto
<1>3. CASE CreateRegistration(s)
  BY <1>3, RollsBack, TakesRow DEF CreateRegistration, Goto, Answers
<1>4. CASE CommitRegister(s)
  BY <1>4, CommitsRegister
<1>5. CASE SendVerification(s)
  <2>1. regs[target[s]].status # "free"
    BY <1>5 DEF SendVerification, SafeInv, KnownIds
  <2>2. \A q \in Slots \ {s} : answer'[q] = answer[q]
    BY <1>5, <1>a DEF SendVerification, Reply
  <2>3. /\ pc[s] = "mail" /\ Goto(s, "done")
        /\ mails' = mails \/ mails' = mails \cup {<<"verify", target[s]>>}
        /\ UNCHANGED <<tables, dblocks, op, target, snap>>
    BY <1>5 DEF SendVerification, Reply
  <2>4. \A m \in mails' : m \in mails \/ regs[m[2]].status # "free"
    BY <2>1, <2>3
  <2> QED
    BY <2>2, <2>3, <2>4, QuietMove DEF Goto
<1>6. CASE MarkUsed(s)
  BY <1>6, MarksUsed
<1>7. CASE LoadForVerify(s)
  BY <1>7, RollsBack, LoadsForVerify DEF LoadForVerify, Answers
<1>8. CASE LoadForApprove(s)
  BY <1>8, RollsBack, LoadsDecision DEF LoadForApprove, Goto, Answers
<1>9. CASE LoadForReject(s)
  BY <1>9, RollsBack, LoadsDecision DEF LoadForReject, Goto, Answers
<1>10. CASE Save(s)
  BY <1>10, RollsBack, TakesRow DEF Save, Goto, Answers
<1>11. CASE CommitUpdate(s)
  BY <1>11, CommitsUpdate
<1>12. CASE Unlock(s)
  <2>1. PICK p \in {"mail", "done"} :
          /\ Goto(s, p)
          /\ p = "mail" => op[s] = "register" /\ answer[s] = "ok"
    BY <1>12 DEF Unlock
  <2>2. /\ pc[s] = "unlock"
        /\ \/ mails' = mails
           \/ op[s] = "approve" /\ mails' = mails \cup {<<"approved", target[s]>>}
        /\ UNCHANGED <<tables, dblocks, op, target, snap, answer>>
    BY <1>12 DEF Unlock
  <2>3. p = "mail" => regs[target[s]].status # "free"
    BY <2>1, <2>2 DEF SafeInv, KnownIds
  <2>4. \A m \in mails' : m \in mails \/ regs[m[2]].status # "free"
    BY <2>2, <1>k
  <2> QED
    BY <2>1, <2>2, <2>3, <2>4, QuietMove DEF Goto
<1>13. CASE DeleteRow(s)
  <2>1. CASE Present(target[s])
    BY <1>13, <2>1, TakesRow DEF DeleteRow, Goto
  <2>2. CASE ~Present(target[s])
    BY <1>13, <2>2, <1>a, QuietMove DEF DeleteRow, Reply, Goto, dblocks
  <2> QED
    BY <2>1, <2>2
<1>14. CASE DeleteCascade(s)
  BY <1>14, Deletes
<1>15. CASE DeadlockVictim(s)
  BY <1>15, RollsBack, Aborts DEF DeadlockVictim, Deadlocked, Reply, Goto, Answers, tables
<1>16. CASE Return(s)
  BY <1>16, Returns
<1> QED
  BY <1>1, <1>2, <1>3, <1>4, <1>5, <1>6, <1>7, <1>8, <1>9, <1>10, <1>11, <1>12,
     <1>13, <1>14, <1>15, <1>16 DEF Step

LEMMA FaultSafe ==
  ASSUME TypeInv, SafeInv, NEW s \in Slots, Fault(s)
  PROVE  SafeInv'
<1>1. CASE DatabaseError(s)
  BY <1>1, RollsBack DEF DatabaseError, Answers
<1>2. CASE Cancelled(s)
  BY <1>2, Aborts DEF Cancelled, Reply, Goto, Answers, tables
<1> QED
  BY <1>1, <1>2 DEF Fault

\* Nothing the safety invariant reads has changed.
LEMMA SafeUnchanged ==
  ASSUME SafeInv, UNCHANGED <<tables, dblocks, mails, request>>
  PROVE  SafeInv'
<1> USE DEF SafeInv, tables, dblocks, request
<1>1. RowLocksHeld' /\ TokenLocksHeld' /\ VerifierHoldsToken'
  BY DEF RowLocksHeld, TokenLocksHeld, VerifierHoldsToken, Verifying
<1>2. KnownIds' /\ FreeIds' /\ Snapshots'
  BY DEF KnownIds, FreeIds, Snapshots, Registering, Writing, Present
<1>3. UnusedMeansUnverified' /\ NoTokenMeansDecided'
  BY DEF UnusedMeansUnverified, NoTokenMeansDecided, Present
<1>4. PendingWriteback' /\ NothingToSave'
  BY DEF PendingWriteback, NothingToSave, Writing
<1>5. ApprovedIsVerified' /\ SpentTokenIsNotStranded'
  BY DEF ApprovedIsVerified, SpentTokenIsNotStranded
<1> QED
  BY <1>1, <1>2, <1>3, <1>4, <1>5

LEMMA SafeInitially == Init => SafeInv
<1> SUFFICES ASSUME Init  PROVE SafeInv
  OBVIOUS
<1> USE DEF Init, FreeRow, SafeInv
<1>1. RowLocksHeld /\ TokenLocksHeld /\ VerifierHoldsToken
  BY DEF RowLocksHeld, TokenLocksHeld, VerifierHoldsToken, Verifying
<1>2. KnownIds /\ FreeIds /\ Snapshots
  BY DEF KnownIds, FreeIds, Snapshots, Registering, Writing
<1>3. UnusedMeansUnverified /\ NoTokenMeansDecided
  BY DEF UnusedMeansUnverified, NoTokenMeansDecided, Present, Statuses
<1>4. PendingWriteback /\ NothingToSave
  BY DEF PendingWriteback, NothingToSave, Writing
<1>5. ApprovedIsVerified /\ SpentTokenIsNotStranded
  BY DEF ApprovedIsVerified, SpentTokenIsNotStranded
<1> QED
  BY <1>1, <1>2, <1>3, <1>4, <1>5

LEMMA SafeInductive == TypeInv /\ SafeInv /\ [Next]_vars => SafeInv'
<1> SUFFICES ASSUME TypeInv, SafeInv, [Next]_vars  PROVE SafeInv'
  OBVIOUS
<1>1. ASSUME NEW k \in LockKeys, LockExpires(k)  PROVE SafeInv'
  BY <1>1, SafeUnchanged DEF LockExpires
<1>2. CASE UNCHANGED vars
  BY <1>2, SafeUnchanged DEF vars, tables, dblocks, request
<1> QED
  BY <1>1, <1>2, ArrivalSafe, StepSafe, FaultSafe, TokenExpiresSafely DEF Next

\* An approval is taken back by no step: the only transaction that writes
\* "pending" over a row holds the row lock of a token nobody has used, so the
\* row is not verified and therefore not approved.
LEMMA StepKeepsApproval ==
  ASSUME TypeInv, SafeInv, [Next]_vars, NEW t \in Regs, regs[t].status = "approved"
  PROVE  regs'[t].status # "pending"
<1>1. CASE UNCHANGED regs
  BY <1>1
<1>2. ASSUME NEW s \in Slots, CommitRegister(s)  PROVE regs'[t].status # "pending"
  <2>1. regs[target[s]].status = "free"
    BY <1>2 DEF CommitRegister, SafeInv, FreeIds, Registering
  <2> QED
    BY <1>2, <2>1 DEF CommitRegister, TypeInv, TypeOK, TablesTyped
<1>3. ASSUME NEW s \in Slots, CommitUpdate(s)  PROVE regs'[t].status # "pending"
  <2>1. CASE t = target[s] /\ rowLock[t] = s
    <3>1. /\ pc[s] = "commit" /\ op[s] # "register"
          /\ regs'[t] = snap[s]
      BY <1>3, <2>1 DEF CommitUpdate, TypeInv, TypeOK, TablesTyped
    <3>2. regs[t].verified
      BY DEF SafeInv, ApprovedIsVerified
    <3>3. tokens[t] \notin {"fresh", "expired"}
      BY <3>2 DEF SafeInv, UnusedMeansUnverified
    <3> QED
      BY <2>1, <3>1, <3>3, Written
  <2>2. CASE ~(t = target[s] /\ rowLock[t] = s)
    BY <1>3, <2>2 DEF CommitUpdate, TypeInv, TypeOK, TablesTyped
  <2> QED
    BY <2>1, <2>2
<1>4. ASSUME NEW s \in Slots, DeleteCascade(s)  PROVE regs'[t].status # "pending"
  BY <1>4 DEF DeleteCascade, DeletedRow, TypeInv, TypeOK, TablesTyped
<1>5. ASSUME NEW s \in Slots, Step(s)  PROVE regs'[t].status # "pending"
  <2>1. \/ UNCHANGED regs
        \/ CommitRegister(s) \/ CommitUpdate(s) \/ DeleteCascade(s)
    BY <1>5 DEF Step, Enter, LockRefused, CreateRegistration, SendVerification, MarkUsed,
       LoadForVerify, LoadForApprove, LoadForReject, Save, Unlock, DeleteRow,
       DeadlockVictim, Return, Rollback, tables
  <2> QED
    BY <2>1, <1>1, <1>2, <1>3, <1>4
<1>6. ASSUME NEW s \in Slots, Arrival(s) \/ Fault(s)  PROVE UNCHANGED regs
  BY <1>6 DEF Arrival, Register, VerifyEmail, AdminApprove, AdminReject, Decide,
     AdminDelete, Fault, DatabaseError, Cancelled, Rollback, tables
<1> QED
  BY <1>1, <1>5, <1>6 DEF Next, TokenExpires, LockExpires, vars, tables

\* The inductive invariant: whatever the locker does, row locks are held by the
\* transactions that took them, what a transaction is about to write agrees with
\* what it has checked, and members are verified.
THEOREM InductiveInvariant == Spec => []IInv
<1>1. Init => TypeInv /\ SafeInv
  BY TypeInvInitially, SafeInitially
<1>2. TypeInv /\ SafeInv /\ [Next]_vars => (TypeInv /\ SafeInv)'
  BY TypeInvInductive, SafeInductive
<1>3. TypeInv /\ SafeInv => IInv
  BY DEF TypeInv, SafeInv, IInv
<1> QED
  BY <1>1, <1>2, <1>3, PTL DEF Spec

\* AdminApprove's check of the address outlasts every interleaving of
\* verifications, decisions and deletes, with and without the lock.
THEOREM MembersAreVerified == Spec => []ApprovedIsVerified
<1>1. IInv => ApprovedIsVerified
  BY DEF IInv
<1> QED
  BY <1>1, InductiveInvariant, PTL

\* A registrant's one token is never spent for nothing: VerifyEmail's two
\* updates are both there or neither, and no stale Save undoes the second.
THEOREM TokensAreNotWasted == Spec => []SpentTokenIsNotStranded
<1>1. IInv => SpentTokenIsNotStranded
  BY DEF IInv
<1> QED
  BY <1>1, InductiveInvariant, PTL

\* VerifyEmail writes back a status it read earlier, under a lock key that
\* AdminApprove does not take, and still never undoes an approval.
THEOREM ApprovalsStand == Spec => ApprovalNotUndone
<1>1. TypeInv /\ SafeInv /\ [Next]_vars
        => [\A t \in Regs : regs[t].status = "approved" => regs'[t].status # "pending"]_vars
  BY StepKeepsApproval
<1>2. Init => TypeInv /\ SafeInv
  BY TypeInvInitially, SafeInitially
<1>3. TypeInv /\ SafeInv /\ [Next]_vars => (TypeInv /\ SafeInv)'
  BY TypeInvInductive, SafeInductive
<1> QED
  BY <1>1, <1>2, <1>3, PTL DEF Spec, ApprovalNotUndone
=============================================================================

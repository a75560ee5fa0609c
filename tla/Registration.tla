---------------------------- MODULE Registration ----------------------------
(***************************************************************************)
(* Member registration: registration_service.go over registration_repo.go, *)
(* email_verification_repo.go and pkg/lock, on the Postgres tables         *)
(* registrations and email_verifications.                                  *)
(*                                                                         *)
(* A slot is one request being served.  Its pc says which call it has      *)
(* reached; between two calls any other slot may run.  What a transaction  *)
(* has written and not committed is in snap, and the row locks it took are *)
(* in rowLock and tokenLock; the tables hold committed rows only, as READ  *)
(* COMMITTED readers see them.  A registration has exactly one             *)
(* email_verifications row, created with it, so its id names the token.    *)
(***************************************************************************)
CONSTANTS Slots,       \* requests that can be in progress at one time
          Regs,        \* registration ids: the bound on registrations ever made
          Emails,      \* e-mail addresses of applicants
          NoSlot, NoReg, NoEmail,                     \* null values
          Nobody, Orphan, NoKey, Mode, SlowDecisions, Faulty,  \* see Locker
          HasMailer    \* whether a mailer and a verify URL are configured

\* "lock:registrations:" + email, + "verify:" + hash, + id
LockKeys == ({"email"} \X Emails) \cup ({"verify", "id"} \X Regs)

\* The keys whose transaction may outlive its 10 second TTL.
SlowKeys == IF SlowDecisions THEN LockKeys ELSE {}

Statuses == {"pending", "approved", "rejected"}

\* A registrations row; status "free": the id was never inserted, "deleted":
\* the row was deleted.
Row == [email : Emails \cup {NoEmail}, status : Statuses \cup {"free", "deleted"},
        verified : BOOLEAN]

FreeRow    == [email |-> NoEmail, status |-> "free",    verified |-> FALSE]
DeletedRow == [email |-> NoEmail, status |-> "deleted", verified |-> FALSE]

ASSUME RegistrationAssumption ==
  /\ NoSlot \notin Slots
  /\ NoReg \notin Regs
  /\ NoEmail \notin Emails
  /\ Nobody \notin Slots
  /\ Orphan \notin Slots
  /\ Nobody # Orphan
  /\ NoKey \notin LockKeys
  /\ Mode \in {"redis", "noop"}
  /\ SlowDecisions \in BOOLEAN
  /\ Faulty \in BOOLEAN
  /\ HasMailer \in BOOLEAN

VARIABLES
  regs,        \* registrations: id -> committed row
  tokens,      \* email_verifications: id -> none, fresh, expired or used
  rowLock,     \* the slot whose transaction holds the registrations row
  tokenLock,   \* the slot whose transaction holds the email_verifications row
  mails,       \* mails handed to the mailer: <<kind, registration>>
  pc, op, target, snap, answer,   \* the request of each slot
  holder, section                 \* the locker

tables  == <<regs, tokens>>
dblocks == <<rowLock, tokenLock>>
request == <<pc, op, target, snap, answer>>
locker  == <<holder, section>>
vars    == <<regs, tokens, rowLock, tokenLock, mails,
             pc, op, target, snap, answer, holder, section>>

Lock == INSTANCE Locker WITH Callers <- Slots, Keys <- LockKeys

Present(t) == regs[t].status \in Statuses

LockKey(s) == IF op[s] = "register" THEN <<"email", snap[s].email>>
              ELSE <<IF op[s] = "verify" THEN "verify" ELSE "id", target[s]>>

Init ==
  /\ regs      = [t \in Regs |-> FreeRow]
  /\ tokens    = [t \in Regs |-> "none"]
  /\ rowLock   = [t \in Regs |-> NoSlot]
  /\ tokenLock = [t \in Regs |-> NoSlot]
  /\ mails     = {}
  /\ pc        = [s \in Slots |-> "idle"]
  /\ op        = [s \in Slots |-> "none"]
  /\ target    = [s \in Slots |-> NoReg]
  /\ snap      = [s \in Slots |-> FreeRow]
  /\ answer    = [s \in Slots |-> "none"]
  /\ Lock!Init
-----------------------------------------------------------------------------
(* Steps shared by the operations.                                         *)

Goto(s, label) == pc' = [pc EXCEPT ![s] = label]

\* Settles the answer of s; s may still have to leave the lock.
Reply(s, label, a) == /\ Goto(s, label)
                      /\ answer' = [answer EXCEPT ![s] = a]

\* Begins a request in an idle slot.
Arrive(s, o, t, row) ==
  /\ pc[s] = "idle"
  /\ op' = [op EXCEPT ![s] = o]
  /\ target' = [target EXCEPT ![s] = t]
  /\ snap' = [snap EXCEPT ![s] = row]

\* Rollback or commit: the row locks of the transaction of s are released.
ReleaseRows(s) ==
  /\ rowLock' = [t \in Regs |-> IF rowLock[t] = s THEN NoSlot ELSE rowLock[t]]
  /\ tokenLock' = [t \in Regs |-> IF tokenLock[t] = s THEN NoSlot ELSE tokenLock[t]]

\* The function passed to WithLock returns an error: connection.Run rolls back.
Rollback(s, a) == /\ ReleaseRows(s)
                  /\ Reply(s, "unlock", a)
                  /\ UNCHANGED <<regs, tokens, mails, op, target, snap, locker>>

\* The unique index on email makes an insert wait for every transaction that
\* has inserted, updated or deleted a row with that address.
EmailBusy(s) ==
  \E t \in Regs : /\ rowLock[t] \notin {NoSlot, s}
                  /\ \/ regs[t].email = snap[s].email
                     \/ snap[rowLock[t]].email = snap[s].email

\* A slip for the runs to catch: no unique index, Register's own look is all.
EmailTakenUnindexed(s) == FALSE

EmailTaken(s) == \E t \in Regs \ {target[s]} : Present(t) /\ regs[t].email = snap[s].email

\* WithLock grants the key of the request.
Enter(s) ==
  /\ pc[s] = "lock"
  /\ Lock!Acquire(s, LockKey(s))
  /\ Goto(s, IF op[s] \in {"register", "verify"} THEN "begin" ELSE "load")
  /\ UNCHANGED <<tables, dblocks, mails, op, target, snap, answer>>

\* WithLock fails: the handler answers 500.
LockRefused(s) ==
  /\ pc[s] = "lock"
  /\ Lock!Refuse(s, LockKey(s))
  /\ Reply(s, "done", "error")
  /\ UNCHANGED <<tables, dblocks, mails, op, target, snap>>
-----------------------------------------------------------------------------
(* Register                                                                *)

\* Validation and FindByEmail, before the lock: a row of any status with the
\* address answers 409.  The id is the uuid the insert will draw.
Register(s, e, t) ==
  /\ regs[t].status = "free" /\ \A q \in Slots : target[q] # t
  /\ Arrive(s, "register", t, [email |-> e, status |-> "pending", verified |-> FALSE])
  /\ IF \E u \in Regs : Present(u) /\ regs[u].email = e
     THEN Reply(s, "done", "conflict")
     ELSE Goto(s, "lock") /\ UNCHANGED answer
  /\ UNCHANGED <<tables, dblocks, mails, locker>>

\* INSERT INTO registrations: waits for other transactions on the address,
\* then fails on ux_registrations_email or holds the new row.
CreateRegistration(s) ==
  /\ pc[s] = "begin" /\ op[s] = "register"
  /\ ~EmailBusy(s)
  /\ \/ EmailTaken(s) /\ Rollback(s, "error")
     \/ /\ ~EmailTaken(s)
        /\ rowLock' = [rowLock EXCEPT ![target[s]] = s]
        /\ Goto(s, "commit")
        /\ UNCHANGED <<tables, tokenLock, mails, op, target, snap, answer, locker>>

\* generateToken, INSERT INTO email_verifications and COMMIT.
CommitRegister(s) ==
  /\ pc[s] = "commit" /\ op[s] = "register"
  /\ regs' = [regs EXCEPT ![target[s]] = snap[s]]
  /\ tokens' = [tokens EXCEPT ![target[s]] = "fresh"]
  /\ ReleaseRows(s)
  /\ Reply(s, "unlock", "ok")
  /\ UNCHANGED <<mails, op, target, snap, locker>>

\* Send: when it fails the answer is 500, with the registration committed.
SendVerification(s) ==
  /\ pc[s] = "mail"
  /\ \/ /\ mails' = mails \cup {<<"verify", target[s]>>}
        /\ Goto(s, "done") /\ UNCHANGED answer
     \/ Reply(s, "done", "error") /\ UNCHANGED mails
  /\ UNCHANGED <<tables, dblocks, op, target, snap, locker>>
-----------------------------------------------------------------------------
(* VerifyEmail                                                             *)

\* FindValidByHash, outside the lock and the transaction.  The raw token of a
\* registration is known to whoever received its mail and to nobody else.
VerifyEmail(s, t) ==
  /\ <<"verify", t>> \in mails
  /\ Arrive(s, "verify", t, FreeRow)
  /\ IF tokens[t] = "fresh" THEN Goto(s, "lock") /\ UNCHANGED answer
                            ELSE Reply(s, "done", "bad request")
  /\ UNCHANGED <<tables, dblocks, mails, locker>>

\* A slip for the runs to catch: used_at is written outside the transaction.
MarkUsedOutsideTx(s) ==
  /\ pc[s] = "begin" /\ op[s] = "verify"
  /\ tokenLock[target[s]] = NoSlot
  /\ tokens' = IF tokens[target[s]] = "none" THEN tokens
               ELSE [tokens EXCEPT ![target[s]] = "used"]
  /\ Goto(s, "load")
  /\ UNCHANGED <<regs, dblocks, mails, op, target, snap, answer, locker>>

\* UPDATE email_verifications SET used_at WHERE id: it asks neither whether
\* the token was used meanwhile nor whether the row is still there.
MarkUsed(s) ==
  /\ pc[s] = "begin" /\ op[s] = "verify"
  /\ tokenLock[target[s]] = NoSlot
  /\ tokenLock' = IF tokens[target[s]] = "none" THEN tokenLock
                  ELSE [tokenLock EXCEPT ![target[s]] = s]
  /\ Goto(s, "load")
  /\ UNCHANGED <<tables, rowLock, mails, op, target, snap, answer, locker>>

\* A slip for the runs to catch: the row is saved whether verified before or not.
LoadForVerifyAlways(s) ==
  LET row == regs[target[s]] IN
  /\ pc[s] = "load" /\ op[s] = "verify"
  /\ \/ ~Present(target[s]) /\ Rollback(s, "error")
     \/ /\ Present(target[s])
        /\ Goto(s, "save")
        /\ snap' = [snap EXCEPT ![s] = [row EXCEPT !.verified = TRUE]]
        /\ UNCHANGED <<tables, dblocks, mails, op, target, answer, locker>>

\* GetByID; a registration that is verified already is not saved again.
LoadForVerify(s) ==
  LET row == regs[target[s]] IN
  /\ pc[s] = "load" /\ op[s] = "verify"
  /\ \/ ~Present(target[s]) /\ Rollback(s, "error")
     \/ /\ Present(target[s])
        /\ Goto(s, IF row.verified THEN "commit" ELSE "save")
        /\ snap' = [snap EXCEPT ![s] = [row EXCEPT !.verified = TRUE]]
        /\ UNCHANGED <<tables, dblocks, mails, op, target, answer, locker>>
-----------------------------------------------------------------------------
(* AdminApprove and AdminReject                                            *)

\* An administrator opens a registration that exists or once existed.
Decide(s, o, t) ==
  /\ regs[t].status # "free"
  /\ Arrive(s, o, t, FreeRow)
  /\ Goto(s, "lock")
  /\ UNCHANGED <<tables, dblocks, mails, answer, locker>>

AdminApprove(s, t) == Decide(s, "approve", t)

AdminReject(s, t) == Decide(s, "reject", t)

\* A slip for the runs to catch: approval without the check of the address.
LoadForApproveUnverified(s) ==
  LET row == regs[target[s]] IN
  /\ pc[s] = "load" /\ op[s] = "approve"
  /\ \/ ~Present(target[s]) /\ Rollback(s, "not found")
     \/ row.status = "rejected" /\ Rollback(s, "conflict")
     \/ /\ Present(target[s]) /\ row.status # "rejected"
        /\ snap' = [snap EXCEPT ![s] = [row EXCEPT !.status = "approved"]]
        /\ Goto(s, "save")
        /\ UNCHANGED <<tables, dblocks, mails, op, target, answer, locker>>

LoadForApprove(s) ==
  LET row == regs[target[s]] IN
  /\ pc[s] = "load" /\ op[s] = "approve"
  /\ \/ ~Present(target[s]) /\ Rollback(s, "not found")
     \/ Present(target[s]) /\ ~row.verified /\ Rollback(s, "bad request")
     \/ row.verified /\ row.status = "rejected" /\ Rollback(s, "conflict")
     \/ /\ Present(target[s]) /\ row.verified /\ row.status # "rejected"
        /\ snap' = [snap EXCEPT ![s] = [row EXCEPT !.status = "approved"]]
        /\ Goto(s, "save")
        /\ UNCHANGED <<tables, dblocks, mails, op, target, answer, locker>>

\* Slips for the runs to catch: an approved registration is rejected too; the
\* reason is stored in place of the status.
LoadForRejectAnyStatus(s) ==
  LET row == regs[target[s]] IN
  /\ pc[s] = "load" /\ op[s] = "reject"
  /\ \/ ~Present(target[s]) /\ Rollback(s, "not found")
     \/ /\ Present(target[s])
        /\ snap' = [snap EXCEPT ![s] = [row EXCEPT !.status = "rejected"]]
        /\ Goto(s, "save")
        /\ UNCHANGED <<tables, dblocks, mails, op, target, answer, locker>>

LoadForRejectReason(s) ==
  LET row == regs[target[s]] IN
  /\ pc[s] = "load" /\ op[s] = "reject"
  /\ Present(target[s]) /\ row.status # "approved"
  /\ snap' = [snap EXCEPT ![s] = [row EXCEPT !.status = "duplicate"]]
  /\ Goto(s, "save")
  /\ UNCHANGED <<tables, dblocks, mails, op, target, answer, locker>>

LoadForReject(s) ==
  LET row == regs[target[s]] IN
  /\ pc[s] = "load" /\ op[s] = "reject"
  /\ \/ ~Present(target[s]) /\ Rollback(s, "not found")
     \/ row.status = "approved" /\ Rollback(s, "conflict")
     \/ /\ Present(target[s]) /\ row.status # "approved"
        /\ snap' = [snap EXCEPT ![s] = [row EXCEPT !.status = "rejected"]]
        /\ Goto(s, "save")
        /\ UNCHANGED <<tables, dblocks, mails, op, target, answer, locker>>
-----------------------------------------------------------------------------
(* The end of a verification or decision                                   *)

\* registrationRepo.Update is gorm's Save: an UPDATE of every column that waits
\* for the row lock and, when no row has the id any more, an INSERT of the
\* whole record, which the unique index on email may refuse.
Save(s) ==
  /\ pc[s] = "save"
  /\ rowLock[target[s]] = NoSlot
  /\ Present(target[s]) \/ ~EmailBusy(s)
  /\ \/ ~Present(target[s]) /\ EmailTaken(s) /\ Rollback(s, "error")
     \/ /\ Present(target[s]) \/ ~EmailTaken(s)
        /\ rowLock' = [rowLock EXCEPT ![target[s]] = s]
        /\ Goto(s, "commit")
        /\ UNCHANGED <<tables, tokenLock, mails, op, target, snap, answer, locker>>

\* A slip for the runs to catch: a transaction left open after its last statement.
CommitForgotten(s) ==
  /\ pc[s] = "commit" /\ op[s] # "register"
  /\ Reply(s, "unlock", "ok")
  /\ UNCHANGED <<tables, dblocks, mails, op, target, snap, locker>>

\* COMMIT of what the transaction holds: a saved row, a token marked used.
CommitUpdate(s) ==
  /\ pc[s] = "commit" /\ op[s] # "register"
  /\ regs' = IF rowLock[target[s]] = s
             THEN [regs EXCEPT ![target[s]] = snap[s]] ELSE regs
  /\ tokens' = IF tokenLock[target[s]] = s
               THEN [tokens EXCEPT ![target[s]] = "used"] ELSE tokens
  /\ ReleaseRows(s)
  /\ Reply(s, "unlock", "ok")
  /\ UNCHANGED <<mails, op, target, snap, locker>>

\* The deferred unlock, then the mails: the verification mail is sent before
\* Register answers, the approval mail by a goroutine nobody waits for and
\* whose failure nobody sees.  The thank-you mail decides nothing and is left out.
Unlock(s) ==
  /\ pc[s] = "unlock"
  /\ Lock!Release(s) \/ Lock!Abandon(s)
  /\ Goto(s, IF HasMailer /\ op[s] = "register" /\ answer[s] = "ok"
             THEN "mail" ELSE "done")
  /\ \/ UNCHANGED mails
     \/ /\ HasMailer /\ answer[s] = "ok" /\ op[s] = "approve"
        /\ mails' = mails \cup {<<"approved", target[s]>>}
  /\ UNCHANGED <<tables, dblocks, op, target, snap, answer>>
-----------------------------------------------------------------------------
(* AdminDelete: one DELETE statement, without lock or explicit transaction *)

AdminDelete(s, t) ==
  /\ regs[t].status # "free"
  /\ Arrive(s, "delete", t, FreeRow)
  /\ Goto(s, "delete")
  /\ UNCHANGED <<tables, dblocks, mails, answer, locker>>

\* The row is locked and marked deleted; no row is no error.
DeleteRow(s) ==
  /\ pc[s] = "delete"
  /\ rowLock[target[s]] = NoSlot
  /\ \/ ~Present(target[s]) /\ Reply(s, "done", "ok") /\ UNCHANGED rowLock
     \/ /\ Present(target[s])
        /\ rowLock' = [rowLock EXCEPT ![target[s]] = s]
        /\ Goto(s, "cascade") /\ UNCHANGED answer
  /\ UNCHANGED <<tables, tokenLock, mails, op, target, snap, locker>>

\* ON DELETE CASCADE waits for the token's row, then the statement commits.
DeleteCascade(s) ==
  /\ pc[s] = "cascade"
  /\ tokenLock[target[s]] = NoSlot
  /\ regs' = [regs EXCEPT ![target[s]] = DeletedRow]
  /\ tokens' = [tokens EXCEPT ![target[s]] = "none"]
  /\ ReleaseRows(s)
  /\ Reply(s, "done", "ok")
  /\ UNCHANGED <<mails, op, target, snap, locker>>
-----------------------------------------------------------------------------
(* What goes wrong, and the clock                                          *)

\* The delete holds the registration and waits for the token, the
\* verification holds the token and waits for the registration: Postgres
\* aborts one of the two statements.
Deadlocked(s, q) ==
  /\ pc[s] = "cascade" /\ pc[q] = "save"
  /\ target[s] = target[q]
  /\ tokenLock[target[s]] = q /\ rowLock[target[s]] = s

DeadlockVictim(s) ==
  \E q \in Slots :
    \/ /\ Deadlocked(q, s)
       /\ Rollback(s, "error")
    \/ /\ Deadlocked(s, q)
       /\ ReleaseRows(s)
       /\ Reply(s, "done", "error")
       /\ UNCHANGED <<tables, mails, op, target, snap, locker>>

\* A statement of the transaction fails.
DatabaseError(s) ==
  /\ Faulty
  /\ pc[s] \in {"begin", "load", "save", "commit"}
  /\ Rollback(s, "error")

\* The request's context is cancelled or its process dies: the transaction is
\* rolled back and the Redis key stays until its TTL.
Cancelled(s) ==
  /\ Faulty
  /\ pc[s] \notin {"idle", "done"}
  /\ ReleaseRows(s)
  /\ Reply(s, "done", "error")
  /\ IF section[s] = NoKey THEN UNCHANGED locker ELSE Lock!Abandon(s)
  /\ UNCHANGED <<tables, mails, op, target, snap>>

\* The slot is free for the next request.
Return(s) ==
  /\ pc[s] = "done"
  /\ Reply(s, "idle", "none")
  /\ op' = [op EXCEPT ![s] = "none"]
  /\ target' = [target EXCEPT ![s] = NoReg]
  /\ snap' = [snap EXCEPT ![s] = FreeRow]
  /\ UNCHANGED <<tables, dblocks, mails, locker>>

TokenExpires(t) ==
  /\ tokens[t] = "fresh"
  /\ tokens' = [tokens EXCEPT ![t] = "expired"]
  /\ UNCHANGED <<regs, dblocks, mails, request, locker>>

LockExpires(k) ==
  /\ Lock!Expire(k)
  /\ UNCHANGED <<tables, dblocks, mails, request>>
-----------------------------------------------------------------------------
Arrival(s) == \E t \in Regs : \/ \E e \in Emails : Register(s, e, t)
                              \/ VerifyEmail(s, t)
                              \/ AdminApprove(s, t)
                              \/ AdminReject(s, t)
                              \/ AdminDelete(s, t)

\* The steps a request takes once it has arrived.
Step(s) == \/ Enter(s) \/ LockRefused(s) \/ CreateRegistration(s)
           \/ CommitRegister(s) \/ SendVerification(s)
           \/ MarkUsed(s) \/ LoadForVerify(s)
           \/ LoadForApprove(s) \/ LoadForReject(s)
           \/ Save(s) \/ CommitUpdate(s) \/ Unlock(s)
           \/ DeleteRow(s) \/ DeleteCascade(s)
           \/ DeadlockVictim(s) \/ Return(s)

Fault(s) == DatabaseError(s) \/ Cancelled(s)

Next == \/ \E s \in Slots : Arrival(s) \/ Step(s) \/ Fault(s)
        \/ \E t \in Regs : TokenExpires(t)
        \/ \E k \in LockKeys : LockExpires(k)

Spec == Init /\ [][Next]_vars

\* A request that has arrived is served: its goroutine runs, Postgres grants a
\* row lock to its waiters in the order they came (hence strong fairness for a
\* step that waits for a row) and breaks deadlocks, Redis enforces its TTLs.
\* No client ever has to call, and no fault ever has to happen.
Fairness == /\ \A s \in Slots : SF_vars(Step(s))
            /\ \A k \in LockKeys : WF_vars(LockExpires(k))

FairSpec == Spec /\ Fairness
-----------------------------------------------------------------------------
Stages == {"idle", "lock", "begin", "load", "save", "commit", "unlock", "mail",
           "delete", "cascade", "done"}
Ops == {"none", "register", "verify", "approve", "reject", "delete"}

Answers == {"none", "ok", "conflict", "not found", "bad request", "error"}

TablesTyped ==
  /\ regs \in [Regs -> Row]
  /\ tokens \in [Regs -> {"none", "fresh", "expired", "used"}]
  /\ rowLock \in [Regs -> Slots \cup {NoSlot}]
  /\ tokenLock \in [Regs -> Slots \cup {NoSlot}]

RequestsTyped ==
  /\ pc \in [Slots -> Stages]
  /\ op \in [Slots -> Ops]
  /\ target \in [Slots -> Regs \cup {NoReg}]
  /\ snap \in [Slots -> Row]
  /\ answer \in [Slots -> Answers]

MailsTyped == mails \subseteq {"verify", "approved"} \X Regs

TypeOK == TablesTyped /\ RequestsTyped /\ MailsTyped /\ Lock!TypeOK

\* Nobody is a member without a verified address: AdminApprove's check of a
\* row it read survives every later whole-row Save by another request, with
\* or without the lock.
ApprovedIsVerified == \A t \in Regs : regs[t].status = "approved" => regs[t].verified

\* A used token is spent: the registrant cannot verify a second time.  So a
\* registration whose token is used is verified or has been rejected; a stale
\* Save never leaves an open registration unverified with no token left.
SpentTokenIsNotStranded ==
  \A t \in Regs : tokens[t] = "used" /\ regs[t].status # "rejected" => regs[t].verified

\* A verification in flight writes back the whole row it read, status
\* included, and yet never takes an approval back: the token's row lock keeps
\* its read behind every other verification of the registration.
ApprovalNotUndone ==
  [][\A t \in Regs : regs[t].status = "approved" => regs'[t].status # "pending"]_vars

\* An address is unique among active registrations ("email kampus unik per
\* pendaftaran aktif", 00003:23), across concurrent registrations that have all
\* looked, deletes, and rows that a late Save brings back.
Active(t) == regs[t].status \in {"pending", "approved"}

OneActivePerEmail ==
  \A t, u \in Regs : Active(t) /\ Active(u) /\ regs[t].email = regs[u].email => t = u

\* Under a working lock a decision to approve is final: whoever was sent the
\* approval mail is approved, until the registration is deleted.
ApprovalMailIsTrue ==
  \A t \in Regs : <<"approved", t>> \in mails => regs[t].status \in {"approved", "deleted"}

\* The next statement of s waits for the transaction of q: for the row it
\* updates or deletes, for the token's row, or for the address it inserts.
WaitsForRow(s, q) == pc[s] \in {"save", "delete"} /\ rowLock[target[s]] = q

WaitsForToken(s, q) == /\ pc[s] = "cascade" \/ (pc[s] = "begin" /\ op[s] = "verify")
                       /\ tokenLock[target[s]] = q

WaitsForAddress(s, q) ==
  /\ \/ pc[s] = "begin" /\ op[s] = "register"
     \/ pc[s] = "save" /\ ~Present(target[s])
  /\ q # s
  /\ \E t \in Regs : rowLock[t] = q /\ snap[s].email \in {regs[t].email, snap[q].email}

Waits(s, q) == WaitsForRow(s, q) \/ WaitsForToken(s, q) \/ WaitsForAddress(s, q)

\* Requests that all wait for one another, however many and on however many
\* registrations and addresses, have a delete and a verification of one
\* registration among them: the one opposite order of row locks in the code,
\* and the pair that Postgres pulls apart.  No circle is made of decisions,
\* registrations and late inserts alone, none of a request that waits for itself.
CirclesAreBroken ==
  \A W \in SUBSET Slots :
    W # {} /\ (\A s \in W : \E q \in W : Waits(s, q)) => \E s, q \in W : Deadlocked(s, q)

\* Every request is answered: no request waits for ever for a row lock, and a
\* delete and a verification that wait for each other are pulled apart.
EveryRequestAnswered == \A s \in Slots : (pc[s] # "idle") ~> (pc[s] = "done")

\* "Every transaction that may conflict must use a distributed lock" (readme.md,
\* mandatory rules): a rejection, once committed, is not silently reopened.
RejectionStands ==
  [][\A t \in Regs : regs[t].status = "rejected" => regs'[t].status # "pending"]_vars

\* "boleh daftar lagi jika sebelumnya rejected" (00003:23): who was rejected may
\* register again, so that an address is in conflict with active rows only.
RejectedMayRegisterAgain ==
  [][\A s \in Slots :
       op'[s] = "register" /\ answer[s] # "conflict" /\ answer'[s] = "conflict" =>
         \E t \in Regs : Active(t) /\ regs[t].email = snap'[s].email]_vars
-----------------------------------------------------------------------------
(* Transactions, row locks and the distributed lock implement requests that *)
(* take effect in one step.                                                 *)

\* What became of the request of s: it is settled when the lock is left.
Outcome(s) == IF pc[s] = "idle" THEN "none"
              ELSE IF pc[s] \in {"unlock", "mail", "done"} THEN answer[s]
              ELSE "pending"

Calls == [s \in Slots |->
            [op |-> op[s], reg |-> target[s],
             email |-> IF op[s] = "register" THEN snap[s].email ELSE NoEmail,
             outcome |-> Outcome(s)]]

\* A lock that works: Redis, and transactions that end within its TTL.
Exclusive == Mode = "redis" /\ ~SlowDecisions

Book == INSTANCE RegistrationBook WITH Clients <- Slots, call <- Calls

\* Every request takes effect in one step or not at all, and the row it writes
\* is in a state that its checks allow, as far as its locks reach: with and
\* without the distributed lock, across deletes and the rows that a late Save
\* brings back.
ImplementsBook == Book!Spec
=============================================================================

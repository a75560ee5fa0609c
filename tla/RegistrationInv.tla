-------------------------- MODULE RegistrationInv --------------------------
(***************************************************************************)
(* The inductive invariant behind the safety properties of Registration.   *)
(* It holds with and without the lock: it only rests on row locks, on what *)
(* a request checked in the row it read, and on ids being drawn once.      *)
(***************************************************************************)
EXTENDS Registration

\* The transaction of s will write snap[s] over its registration.
Writing(s) == pc[s] = "save" \/ (pc[s] = "commit" /\ rowLock[target[s]] = s)

\* s is between MarkUsed and the end of its transaction.
Verifying(s) == op[s] = "verify" /\ pc[s] \in {"load", "save", "commit"}

\* s is registering and has not committed.
Registering(s) == op[s] = "register" /\ pc[s] \in {"lock", "begin", "commit"}

\* Which operations can be at a stage.
Fits(p, o) ==
  /\ p = "begin" => o \in {"register", "verify"}
  /\ p \in {"load", "save"} => o \in {"verify", "approve", "reject"}
  /\ p \in {"lock", "commit"} => o \in {"register", "verify", "approve", "reject"}
  /\ p \in {"delete", "cascade"} => o = "delete"
  /\ p = "mail" => o = "register"

StagesFit ==
  \A s \in Slots : /\ pc[s] = "idle" <=> target[s] = NoReg
                   /\ Fits(pc[s], op[s])
                   /\ op[s] = "register" => snap[s].email \in Emails

\* Row locks belong to the transactions that took them.
RowLocksHeld ==
  \A t \in Regs : rowLock[t] # NoSlot =>
    /\ target[rowLock[t]] = t
    /\ pc[rowLock[t]] \in {"commit", "cascade"}

TokenLocksHeld ==
  \A t \in Regs : tokenLock[t] # NoSlot =>
    /\ target[tokenLock[t]] = t
    /\ Verifying(tokenLock[t])
    /\ tokens[t] # "none"

\* A verification past MarkUsed holds its token's row, if there is one.
VerifierHoldsToken ==
  \A s \in Slots : Verifying(s) /\ tokens[target[s]] # "none" => tokenLock[target[s]] = s

\* An id that a token, a mail or an answer names has been inserted.
KnownIds ==
  /\ \A t \in Regs : tokens[t] # "none" => Present(t)
  /\ \A m \in mails : regs[m[2]].status # "free"
  /\ \A s \in Slots :
       pc[s] = "mail" \/ (op[s] = "register" /\ pc[s] = "unlock" /\ answer[s] = "ok")
         => regs[target[s]].status # "free"

\* A free id belongs to the one registration that drew it.
FreeIds ==
  /\ \A s \in Slots : Registering(s) => regs[target[s]].status = "free"
  /\ \A s \in Slots : pc[s] # "idle" /\ regs[target[s]].status = "free"
                        => op[s] = "register"
  /\ \A s, q \in Slots : Registering(s) /\ target[s] = target[q] => s = q

\* What a transaction is about to write.
Snapshots ==
  \A s \in Slots :
    /\ Registering(s) => snap[s].status = "pending" /\ ~snap[s].verified
    /\ op[s] = "verify" /\ Writing(s)
         => snap[s].verified /\ snap[s].status \in {"pending", "rejected"}
    /\ op[s] = "approve" /\ pc[s] \in {"save", "commit"}
         => snap[s].verified /\ snap[s].status = "approved"
    /\ op[s] = "reject" /\ pc[s] \in {"save", "commit"} => snap[s].status = "rejected"

\* Until a token is used nobody has seen its registration verified.
UnusedMeansUnverified ==
  \A t \in Regs : tokens[t] \in {"fresh", "expired"} =>
    /\ ~regs[t].verified
    /\ \A s \in Slots : target[s] = t /\ pc[s] \in {"save", "commit"} =>
         /\ op[s] # "approve"
         /\ op[s] = "reject" => ~snap[s].verified

\* A row without a token was brought back by a Save that had decided on it.
NoTokenMeansDecided ==
  \A t \in Regs : tokens[t] = "none" /\ Present(t) /\ ~regs[t].verified
                    => regs[t].status = "rejected"

\* A verification that will write "pending" read it behind the token's row
\* lock, with the token unused.
PendingWriteback ==
  \A s \in Slots : op[s] = "verify" /\ Writing(s) /\ snap[s].status = "pending"
                     => /\ tokenLock[target[s]] = s
                        /\ tokens[target[s]] \in {"fresh", "expired"}

\* A verification that has nothing to save found its registration verified.
NothingToSave ==
  \A s \in Slots : op[s] = "verify" /\ pc[s] = "commit" /\ ~Writing(s)
                   /\ tokenLock[target[s]] = s
                     => regs[target[s]].verified \/ regs[target[s]].status = "rejected"

\* The inductive invariant.
IInv == /\ TypeOK
        /\ StagesFit /\ RowLocksHeld /\ TokenLocksHeld /\ VerifierHoldsToken
        /\ KnownIds /\ FreeIds /\ Snapshots
        /\ UnusedMeansUnverified /\ NoTokenMeansDecided
        /\ PendingWriteback /\ NothingToSave
        /\ ApprovedIsVerified /\ SpentTokenIsNotStranded
-----------------------------------------------------------------------------
(* For OneActivePerEmail, with and without the lock: what the unique index  *)
(* on email and the row locks keep apart, rejected rows included.           *)

\* One committed registration per address, whatever its status.
OneRowPerEmail ==
  \A t, u \in Regs : Present(t) /\ Present(u) /\ regs[t].email = regs[u].email => t = u

\* The transaction of s has taken its row and will write it at COMMIT.
Holding(s) == pc[s] = "commit" /\ rowLock[target[s]] = s

\* Only a verification reaches COMMIT without having taken its row.
InsertHoldsRow == \A s \in Slots : pc[s] = "commit" /\ op[s] # "verify" => Holding(s)

\* The address of a registration never changes: not in the row, not in the
\* copies that requests have read.
AddressKept ==
  \A s \in Slots : pc[s] \in {"save", "commit"} =>
    /\ Present(target[s]) => regs[target[s]].email = snap[s].email
    /\ \A q \in Slots : pc[q] \in {"save", "commit"} /\ target[q] = target[s]
                          => snap[q].email = snap[s].email

\* What is about to be written has an address that no other row has and no
\* other transaction is about to write.
NoRival ==
  \A s \in Slots : Holding(s) =>
    /\ \A u \in Regs \ {target[s]} : Present(u) => regs[u].email # snap[s].email
    /\ \A q \in Slots \ {s} : Holding(q) => snap[q].email # snap[s].email

EmailInv == InsertHoldsRow /\ AddressKept /\ NoRival /\ OneRowPerEmail
-----------------------------------------------------------------------------
(* For ApprovalMailIsTrue, under a Redis lock that outlives its section.    *)

\* A decision holds the key of its registration from its read to its answer.
DecisionHoldsKey ==
  \A s \in Slots :
    op[s] \in {"approve", "reject"} /\ pc[s] \in {"load", "save", "commit", "unlock"}
      => section[s] = <<"id", target[s]>> /\ holder[<<"id", target[s]>>] = s

\* t has been approved by a committed transaction that has sent its mail, or will.
Promised(t) == \/ <<"approved", t>> \in mails
               \/ \E s \in Slots : /\ op[s] = "approve" /\ target[s] = t
                                    /\ pc[s] = "unlock" /\ answer[s] = "ok"

\* The same, or a transaction has decided to approve t.
Approving(t) == \/ Promised(t)
                \/ \E s \in Slots : /\ op[s] = "approve" /\ target[s] = t
                                     /\ pc[s] \in {"save", "commit"}

PromiseKept == \A t \in Regs : Promised(t) => regs[t].status \in {"approved", "deleted"}

\* Once an approval is under way nobody sees, or is about to write, "rejected".
NoRejectionBehind ==
  \A t \in Regs : Approving(t) =>
    /\ regs[t].status # "rejected"
    /\ \A s \in Slots : target[s] = t /\ pc[s] \in {"save", "commit"}
                          => snap[s].status # "rejected"

\* A verification that carries "rejected" read it, and no approval has begun since.
RejectionSeen ==
  \A s \in Slots : op[s] = "verify" /\ pc[s] \in {"save", "commit"}
                   /\ snap[s].status = "rejected"
                     => regs[target[s]].status \in {"rejected", "deleted"}

PromiseInv == PromiseKept /\ NoRejectionBehind /\ RejectionSeen

ApprovalInv == DecisionHoldsKey /\ PromiseInv
-----------------------------------------------------------------------------
(* For the refinement of RegistrationBook.                                  *)

\* What is settled has an answer; an idle slot has no request; only a
\* registration that was made is followed by its mail; a delete that waits for
\* the token has its row.
BookPart(s) ==
  /\ pc[s] = "idle" => op[s] = "none" /\ target[s] = NoReg
  /\ pc[s] \in {"unlock", "done"} => answer[s] # "none"
  /\ pc[s] = "mail" => answer[s] = "ok"
  /\ pc[s] = "unlock" => op[s] # "delete"
  /\ pc[s] = "cascade" => rowLock[target[s]] = s /\ Present(target[s])

\* Every registration has an address, and so has every copy of it.
Addressed ==
  /\ \A t \in Regs : Present(t) => regs[t].email \in Emails
  /\ \A s \in Slots : pc[s] \in {"save", "commit"} => snap[s].email \in Emails

BookInv == Addressed /\ \A s \in Slots : BookPart(s)

\* Under a Redis lock that outlives its section the row that a decision read
\* has not been decided otherwise when it is written.
DecisionsFresh ==
  \A s \in Slots : pc[s] \in {"save", "commit"} =>
    /\ op[s] = "reject" => regs[target[s]].status # "approved"
    /\ op[s] = "approve" /\ Present(target[s]) => regs[target[s]].verified
=============================================================================

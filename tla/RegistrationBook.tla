--------------------------- MODULE RegistrationBook ---------------------------
(***************************************************************************)
(* What an applicant and an administrator rely on when they use the        *)
(* registration service: every request works on the registrations and on   *)
(* the verification tokens in one step between its call and its answer,    *)
(* and a request that is turned down has changed nothing.                  *)
(*                                                                         *)
(* What a request has read may be out of date in its step.  The guards say *)
(* what is still true of the row it writes: all that can be said without a *)
(* lock, and what a working lock adds (Exclusive).                         *)
(***************************************************************************)
CONSTANTS Clients, Regs, Emails, NoReg, NoEmail,
          Exclusive   \* TRUE: no two decisions on a registration overlap

VARIABLES
  regs,     \* the registrations row of each id
  tokens,   \* the state of its verification token
  mails,    \* the mails that have gone out
  call      \* call[c]: operation, subject and outcome of the client's request

bookVars == <<regs, tokens, mails, call>>

Refusals == {"conflict", "not found", "bad request", "error"}

Idle == [op |-> "none", reg |-> NoReg, email |-> NoEmail, outcome |-> "none"]

Init == /\ regs = [t \in Regs |-> [email |-> NoEmail, status |-> "free", verified |-> FALSE]]
        /\ tokens = [t \in Regs |-> "none"]
        /\ mails = {}
        /\ call = [c \in Clients |-> Idle]

Present(t) == regs[t].status \in {"pending", "approved", "rejected"}

\* No other registration has the address.
Unused(e, t) == \A u \in Regs \ {t} : Present(u) => regs[u].email # e

\* The token has not been used, so nobody has proved to own the address.
Unproved(t) == tokens[t] \in {"fresh", "expired"}

Subject(c) == call[c].reg

Pending(c, o) == call[c].op = o /\ call[c].outcome = "pending"

Answer(c, a) == call' = [call EXCEPT ![c].outcome = a]

Begin(c, o, t, e, a) ==
  /\ call[c] = Idle
  /\ call' = [call EXCEPT ![c] = [op |-> o, reg |-> t, email |-> e, outcome |-> a]]
  /\ UNCHANGED <<regs, tokens, mails>>

\* A row is overwritten, or is back under an address that is free: the request
\* had read it before it was deleted.
Write(t, status, verified) ==
  \/ /\ Present(t)
     /\ regs' = [regs EXCEPT ![t].status = status, ![t].verified = verified]
  \/ /\ regs[t].status = "deleted"
     /\ \E e \in Emails :
          /\ Unused(e, t)
          /\ regs' = [regs EXCEPT ![t] = [email |-> e, status |-> status, verified |-> verified]]
-----------------------------------------------------------------------------
CallRegister(c, t, e) ==
  /\ regs[t].status = "free" /\ \A d \in Clients : Subject(d) # t
  /\ \/ Begin(c, "register", t, e, "pending")
     \/ ~Unused(e, t) /\ Begin(c, "register", t, e, "conflict")

CallVerify(c, t) ==
  /\ <<"verify", t>> \in mails
  /\ Begin(c, "verify", t, NoEmail, IF tokens[t] = "fresh" THEN "pending" ELSE "bad request")

CallAdmin(c, o, t) ==
  /\ regs[t].status # "free"
  /\ Begin(c, o, t, NoEmail, "pending")

Refuse(c) ==
  /\ call[c].outcome = "pending"
  /\ \E a \in Refusals : Answer(c, a)
  /\ UNCHANGED <<regs, tokens, mails>>

Register(c) ==
  LET t == Subject(c) IN
  /\ Pending(c, "register")
  /\ regs[t].status = "free" /\ Unused(call[c].email, t)
  /\ regs' = [regs EXCEPT ![t] = [email |-> call[c].email, status |-> "pending",
                                  verified |-> FALSE]]
  /\ tokens' = [tokens EXCEPT ![t] = "fresh"]
  /\ Answer(c, "ok") /\ UNCHANGED mails

\* The token is spent, and not in vain: the row becomes verified unless it is,
\* or has been rejected, or there is no token left to spend.  What the row said
\* when the request read it is written back with it: "pending" over a rejection,
\* but never over an approval.
Verify(c) ==
  LET t == Subject(c) IN
  /\ Pending(c, "verify")
  /\ tokens' = IF tokens[t] = "none" THEN tokens ELSE [tokens EXCEPT ![t] = "used"]
  /\ \/ /\ tokens[t] = "none" \/ regs[t].verified \/ regs[t].status = "rejected"
        /\ UNCHANGED regs
     \/ Unproved(t) /\ regs[t].status # "approved" /\ Write(t, "pending", TRUE)
     \/ /\ Exclusive => regs[t].status \in {"rejected", "deleted"}
        /\ Write(t, "rejected", TRUE)
  /\ Answer(c, "ok") /\ UNCHANGED mails

Approve(c) ==
  LET t == Subject(c) IN
  /\ Pending(c, "approve")
  /\ ~Unproved(t)
  /\ Exclusive => regs[t].status # "rejected" /\ (Present(t) => regs[t].verified)
  /\ Write(t, "approved", TRUE)
  /\ Answer(c, "ok") /\ UNCHANGED <<tokens, mails>>

\* A verification that came between the read and the write is lost.
Reject(c) ==
  LET t == Subject(c) IN
  /\ Pending(c, "reject")
  /\ Exclusive => regs[t].status # "approved"
  /\ \/ Write(t, "rejected", FALSE)
     \/ ~Unproved(t) /\ Write(t, "rejected", TRUE)
  /\ Answer(c, "ok") /\ UNCHANGED <<tokens, mails>>

\* Deleting what is not there is no error.
Delete(c) ==
  LET t == Subject(c) IN
  /\ Pending(c, "delete")
  /\ \/ ~Present(t) /\ UNCHANGED <<regs, tokens>>
     \/ /\ Present(t)
        /\ regs' = [regs EXCEPT ![t] = [email |-> NoEmail, status |-> "deleted",
                                        verified |-> FALSE]]
        /\ tokens' = [tokens EXCEPT ![t] = "none"]
  /\ Answer(c, "ok") /\ UNCHANGED mails

\* Mails go out for what has been done.
Mail(c) ==
  /\ call[c].outcome = "ok"
  /\ \/ call[c].op = "register" /\ mails' = mails \cup {<<"verify", Subject(c)>>}
     \/ call[c].op = "approve" /\ mails' = mails \cup {<<"approved", Subject(c)>>}
  /\ UNCHANGED <<regs, tokens, call>>

\* An answer is lost on its way, or the verification mail cannot be sent: the
\* client is told of an error although the request may have taken effect.
LoseAnswer(c) ==
  /\ call[c].outcome \in Refusals \cup {"ok"}
  /\ call[c].op # "delete"
  /\ Answer(c, "error")
  /\ UNCHANGED <<regs, tokens, mails>>

Return(c) ==
  /\ call[c].outcome \in Refusals \cup {"ok"}
  /\ call' = [call EXCEPT ![c] = Idle]
  /\ UNCHANGED <<regs, tokens, mails>>

Expire(t) ==
  /\ tokens[t] = "fresh"
  /\ tokens' = [tokens EXCEPT ![t] = "expired"]
  /\ UNCHANGED <<regs, mails, call>>

Serve(c) ==
  \/ \E t \in Regs : \/ \E e \in Emails : CallRegister(c, t, e)
                     \/ CallVerify(c, t)
                     \/ \E o \in {"approve", "reject", "delete"} : CallAdmin(c, o, t)
  \/ Register(c) \/ Verify(c) \/ Approve(c) \/ Reject(c) \/ Delete(c)
  \/ Refuse(c) \/ Mail(c) \/ LoseAnswer(c) \/ Return(c)

Next == (\E c \in Clients : Serve(c)) \/ (\E t \in Regs : Expire(t))

Spec == Init /\ [][Next]_bookVars
=============================================================================

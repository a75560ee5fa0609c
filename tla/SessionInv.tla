------------------------------ MODULE SessionInv ------------------------------
(***************************************************************************)
(* The inductive invariant of Session: why a token never outlives its user.*)
(***************************************************************************)
EXTENDS Session

\* A request is only at stages that its operation has.
StagesFit ==
  \A s \in Slots :
    /\ pc[s] = "reload" => op[s] \in {"login", "refresh"}
    /\ pc[s] \in {"revoke", "rotate"} => op[s] \in {"refresh", "logout"}

\* A token that was issued has an owner.
IssuedTokensOwned == \A t \in Tokens : tokens[t].state # "free" => tokens[t].owner \in Users

\* A request in progress is about a user; a token it presented was issued to it.
SubjectsKnown ==
  \A s \in Slots :
    /\ pc[s] \notin {"idle", "done"} => user[s] \in Users
    /\ op[s] \in {"refresh", "logout"} => /\ token[s] \in Tokens
                                          /\ tokens[token[s]].state # "free"

\* What will be saved over a users row is a row that was read there.
WritersHaveRead ==
  \A s \in Slots : pc[s] \in {"check", "save"} \cup Written => snap[s].status = "present"

\* A transaction holds tokens that are there: a delete waits for them.
LockedTokensExist ==
  \A t \in Tokens : tokenLock[t] # NoSlot => tokens[t].state \in {"live", "expired", "revoked"}

IInv == /\ TypeOK /\ StagesFit /\ IssuedTokensOwned /\ SubjectsKnown
        /\ WritersHaveRead /\ LockedTokensExist /\ NoTokenWithoutUser

\* How far a password change has got with the tokens its user had: they are the
\* user's, those still live have been found, the change holds them, they are dead.
PasswordChangeCovers(s) ==
  /\ pc[s] \in {"address", "scan"} => \A t \in had[s] : tokens[t].owner = user[s]
  /\ pc[s] = "revokeall" => \A t \in had[s] : tokens[t].state = "live" => t \in found[s]
  /\ pc[s] = "commit"    => \A t \in had[s] : tokens[t].state = "live" => tokenLock[t] = s
  /\ pc[s] = "done" /\ answer[s] = "ok" => \A t \in had[s] : tokens[t].state # "live"

PasswordPart(s) ==
  /\ pc[s] \in {"scan", "revokeall"} => op[s] = "password"
  /\ op[s] = "password" => pc[s] \in {"save", "address", "scan", "revokeall", "commit", "done"}
  /\ \A t \in had[s] : tokens[t].state # "free"
  /\ op[s] = "password" => PasswordChangeCovers(s)

PasswordInv == \A s \in Slots : PasswordPart(s)

\* Why a transaction of s holds the tokens it holds: a refresh holds the one it
\* was asked with, a password change those of its user.
ReasonPart(s) ==
  /\ op[s] \in {"refresh", "logout"} => user[s] = tokens[token[s]].owner
  /\ pc[s] = "rotate" => op[s] = "refresh"
  /\ pc[s] \in {"delete", "cascade"} => op[s] = "delete"
  /\ pc[s] = "revokeall" => \A t \in found[s] : /\ tokens[t].state # "free"
                                                /\ tokens[t].owner = user[s]
  /\ \A t \in Tokens : tokenLock[t] = s =>
       \/ pc[s] = "rotate" /\ token[s] = t
       \/ pc[s] = "commit" /\ op[s] = "password" /\ tokens[t].owner = user[s]

ReasonInv == \A s \in Slots : ReasonPart(s)

\* Whom a request is about: the owner of a token that was issued and the user of
\* any request but a create were inserted once; the user that a create is going
\* to insert was not, and is no one else's subject.
FreshPart(s) ==
  pc[s] \notin {"idle", "done"} =>
    IF op[s] = "create" THEN /\ users[user[s]].status = "free"
                             /\ \A q \in Slots \ {s} : user[q] # user[s]
                        ELSE users[user[s]].status # "free"

FreshInv == /\ \A s \in Slots : FreshPart(s)
            /\ \A t \in Tokens : tokens[t].state # "free" => users[tokens[t].owner].status # "free"

\* For the refinement of SessionStore: a request is at stages of its operation
\* and has an answer when it is done; a delete in its cascade finds the row still
\* there, and a refresh holds the token it was asked with unless that went
\* with its user.
StorePart(s) ==
  /\ pc[s] = "idle" => op[s] = "none" /\ user[s] = NoUser /\ token[s] = NoToken
  /\ pc[s] = "done" => answer[s] # "none"
  /\ pc[s] \in {"issue", "stamp"} => op[s] = "login"
  /\ pc[s] \in {"save", "address", "commit"} => op[s] \in {"update", "password", "create"}
  /\ pc[s] \in {"check", "roles", "grant"} => op[s] \in {"update", "create"}
  /\ pc[s] = "cascade" => Present(user[s])
  /\ pc[s] = "rotate" => tokens[token[s]].state = "gone" \/ tokenLock[token[s]] = s

StoreInv == \A s \in Slots : StorePart(s)

\* The row of a user belongs to the transaction that took it and has it still;
\* who enters an address changes one.
RowPart(s) ==
  /\ \A u \in Users : userLock[u] = s => user[s] = u /\ pc[s] \in Written \cup {"cascade"}
  /\ pc[s] \in Written \cup {"cascade"} => userLock[user[s]] = s
  /\ pc[s] = "address" => snap[s].email # users[user[s]].email

UserLocksHeld == \A s \in Slots : RowPart(s)
=============================================================================

------------------------------- MODULE Session -------------------------------
(***************************************************************************)
(* Sessions: the part of auth_service.go that works on the Postgres tables *)
(* users and refresh_tokens (login, refresh, logout, profile and password  *)
(* changes, the administration of users), over auth_repo.go.  No operation *)
(* takes a distributed lock.                                               *)
(*                                                                         *)
(* A slot is one request; its pc says which database call comes next.      *)
(* users and tokens hold committed rows.  userLock and tokenLock are the   *)
(* row locks of transactions in progress; a refresh token's insert and its *)
(* foreign key check are one step with the commit that follows them.       *)
(* Of user_roles only the rows a transaction has taken away are here, and  *)
(* whom they name in granted_by; the table roles is left out.              *)
(* Bounds: Slots, Users (ids ever drawn), Tokens (tokens ever issued),     *)
(* Emails, ActiveFlags, SuperFlags.  A first read that fails changes       *)
(* nothing and is left out.                                                *)
(***************************************************************************)
EXTENDS FiniteSets, Integers

CONSTANTS Slots, Users, Tokens, Passwords, Emails,
          NoSlot, NoUser, NoToken, NoEmail,
          NoPassword,   \* password_hash IS NULL: an account made by GitHub login
          ActiveFlags,  \* what administrators write to is_active
          SuperFlags,   \* ... and to is_super_admin
          Faulty        \* TRUE: statements fail and requests are cancelled

ASSUME SessionAssumption ==
  /\ NoSlot \notin Slots
  /\ NoUser \notin Users
  /\ NoToken \notin Tokens
  /\ NoPassword \notin Passwords
  /\ NoEmail \notin Emails
  /\ ActiveFlags \subseteq BOOLEAN /\ SuperFlags \subseteq BOOLEAN
  /\ Faulty \in BOOLEAN

\* A users row, with the columns that decide anything.
UserRow == [status : {"free", "present", "deleted"}, email : Emails \cup {NoEmail},
            password : Passwords \cup {NoPassword}, active : BOOLEAN, super : BOOLEAN]

FreeUser == [status |-> "free", email |-> NoEmail, password |-> NoPassword,
             active |-> FALSE, super |-> FALSE]
GoneUser == [FreeUser EXCEPT !.status = "deleted"]

\* What HandleOAuthCallback leaves behind for a newcomer.
OAuthUser(e) == [FreeUser EXCEPT !.status = "present", !.email = e, !.active = TRUE]

\* A refresh_tokens row; "gone": deleted with its user.
TokenRow == [owner : Users \cup {NoUser},
             state : {"free", "live", "expired", "revoked", "gone"}]

FreeToken == [owner |-> NoUser, state |-> "free"]

VARIABLES
  users, tokens,          \* committed rows
  userLock, tokenLock,    \* the slot that holds the row, by id
  pc, op, answer,         \* the request of each slot
  user, token,            \* the user and the refresh token it is about
  granter,                \* the administrator who grants the user roles with it
  snap,                   \* the users row it read, as it will write it
  found,                  \* the tokens its UPDATE has found
  stripped,               \* the users who had granted the roles it has removed
  had                     \* auxiliary: the live tokens of its user when it saved a password

tables  == <<users, tokens>>
locks   == <<userLock, tokenLock>>
subject == <<op, user, token>>
read    == <<granter, snap, found, stripped>>
vars    == <<tables, locks, pc, answer, subject, read, had>>

Present(u) == users[u].status = "present"

TokensOf(u, states) == {t \in Tokens : tokens[t].owner = u /\ tokens[t].state \in states}

\* The stages at which a transaction has written its users row.
Written == {"address", "scan", "revokeall", "roles", "grant", "commit"}

\* The transaction of s changes a key of a users row, its id or its address: it
\* deletes the row, inserts it, or updates it with an address it did not have.
ChangesKey(s) == \/ pc[s] = "cascade"
                 \/ pc[s] \in Written /\ snap[s].email # users[user[s]].email

\* Such a transaction holds a row that is there FOR UPDATE, which the foreign key
\* check of an insert waits for; any other UPDATE leaves the check alone.
KeyHeld(s, u) == userLock[u] \notin {NoSlot, s} /\ Present(u) /\ ChangesKey(userLock[u])

Init ==
  /\ users \in [Users -> {FreeUser} \cup {OAuthUser(e) : e \in Emails}]
  /\ \A u, v \in Users : u # v /\ Present(u) => users[u].email # users[v].email
  /\ tokens    = [t \in Tokens |-> FreeToken]
  /\ userLock  = [u \in Users |-> NoSlot]
  /\ tokenLock = [t \in Tokens |-> NoSlot]
  /\ pc        = [s \in Slots |-> "idle"]
  /\ op        = [s \in Slots |-> "none"]
  /\ answer    = [s \in Slots |-> "none"]
  /\ user      = [s \in Slots |-> NoUser]
  /\ token     = [s \in Slots |-> NoToken]
  /\ granter   = [s \in Slots |-> NoUser]
  /\ snap      = [s \in Slots |-> FreeUser]
  /\ found     = [s \in Slots |-> {}]
  /\ stripped  = [s \in Slots |-> {}]
  /\ had       = [s \in Slots |-> {}]
-----------------------------------------------------------------------------
(* Steps shared by the operations                                          *)

Goto(s, label) == pc' = [pc EXCEPT ![s] = label]

Reply(s, a) == Goto(s, "done") /\ answer' = [answer EXCEPT ![s] = a]

\* Begins a request about user u and refresh token t.
Arrive(s, o, u, t) ==
  /\ pc[s] = "idle"
  /\ op' = [op EXCEPT ![s] = o]
  /\ user' = [user EXCEPT ![s] = u]
  /\ token' = [token EXCEPT ![s] = t]

ReleaseRows(s) ==
  /\ userLock' = [u \in Users |-> IF userLock[u] = s THEN NoSlot ELSE userLock[u]]
  /\ tokenLock' = [t \in Tokens |-> IF tokenLock[t] = s THEN NoSlot ELSE tokenLock[t]]

\* A slip for the runs to catch: an early return that leaves the transaction open.
RollbackForgotten(s) == /\ Reply(s, "error")
                        /\ UNCHANGED <<tables, locks, subject, read, had>>

\* With its answer a request lets go of the rows of its transaction, be it by a
\* commit or a rollback, and what it had read is of no use any more.
Finish(s, a) ==
  /\ ReleaseRows(s)
  /\ Reply(s, a)
  /\ granter' = [granter EXCEPT ![s] = NoUser]
  /\ snap' = [snap EXCEPT ![s] = FreeUser]
  /\ found' = [found EXCEPT ![s] = {}]
  /\ stripped' = [stripped EXCEPT ![s] = {}]
  /\ UNCHANGED <<subject, had>>

Rollback(s) == Finish(s, "error") /\ UNCHANGED tables

\* GenerateRefreshToken: 32 random bytes, drawn once.
Draw(t) == tokens[t].state = "free"

\* The bound on Tokens: a login or a refresh comes only while one is left for it.
TokenLeft ==
  Cardinality({s \in Slots : op[s] \in {"login", "refresh"} /\ pc[s] \notin {"stamp", "done"}})
    < Cardinality({t \in Tokens : Draw(t)})

LiveToken(u) == [owner |-> u, state |-> "live"]
-----------------------------------------------------------------------------
(* Login                                                                   *)

\* GetUserByEmail and the checks of the row it read.
Login(s, u, p) ==
  /\ TokenLeft
  /\ Arrive(s, "login", u, NoToken)
  /\ users[u].status # "free"
  /\ IF Present(u) /\ users[u].active /\ users[u].password = p
     THEN Goto(s, "reload") /\ UNCHANGED answer
     ELSE Reply(s, "refused")
  /\ UNCHANGED <<tables, locks, read, had>>

\* GetUserWithPermissions and GetUserRoles, for the claims of the access token.
\* A refresh checks here that the user is active, a login has checked before.
Reload(s) ==
  /\ pc[s] = "reload"
  /\ \/ ~Present(user[s]) /\ Reply(s, "error")
     \/ Present(user[s]) /\ op[s] = "refresh" /\ ~users[user[s]].active /\ Reply(s, "refused")
     \/ /\ Present(user[s])
        /\ op[s] = "refresh" => users[user[s]].active
        /\ Goto(s, IF op[s] = "login" THEN "issue" ELSE "revoke")
        /\ UNCHANGED answer
  /\ UNCHANGED <<tables, locks, subject, read, had>>

\* A slip for the runs to catch: no foreign key.
IssueToAnyone(s, t) ==
  /\ pc[s] = "issue" /\ Draw(t)
  /\ tokens' = [tokens EXCEPT ![t] = LiveToken(user[s])]
  /\ Goto(s, "stamp")
  /\ UNCHANGED <<users, locks, subject, answer, read, had>>

\* CreateRefreshToken, in a transaction of its own.
Issue(s, t) ==
  /\ pc[s] = "issue" /\ Draw(t)
  /\ ~KeyHeld(s, user[s])
  /\ \/ /\ Present(user[s])
        /\ tokens' = [tokens EXCEPT ![t] = LiveToken(user[s])]
        /\ Goto(s, "stamp") /\ UNCHANGED answer
     \/ ~Present(user[s]) /\ Reply(s, "error") /\ UNCHANGED tokens
  /\ UNCHANGED <<users, locks, subject, read, had>>

\* UpdateLastLogin waits for the users row; nothing depends on what it writes,
\* and a failure is printed and passed over.
Stamp(s) ==
  /\ pc[s] = "stamp"
  /\ Faulty \/ userLock[user[s]] = NoSlot
  /\ Reply(s, "ok")
  /\ UNCHANGED <<tables, locks, subject, read, had>>
-----------------------------------------------------------------------------
(* RefreshToken and Logout                                                 *)

\* GetRefreshTokenByHash, outside any transaction.
RefreshToken(s, t) ==
  /\ tokens[t].state # "free"
  /\ TokenLeft
  /\ Arrive(s, "refresh", tokens[t].owner, t)
  /\ IF tokens[t].state = "live" THEN Goto(s, "reload") /\ UNCHANGED answer
                                 ELSE Reply(s, "refused")
  /\ UNCHANGED <<tables, locks, read, had>>

\* A slip for the runs to catch: the old token is revoked in a transaction of its own.
RevokeOldAtOnce(s) ==
  /\ pc[s] = "revoke" /\ op[s] = "refresh"
  /\ tokenLock[token[s]] = NoSlot
  /\ tokens' = IF tokens[token[s]].state = "gone" THEN tokens
               ELSE [tokens EXCEPT ![token[s]].state = "revoked"]
  /\ Goto(s, "rotate")
  /\ UNCHANGED <<users, locks, subject, answer, read, had>>

\* RevokeRefreshToken by hash: it does not ask whether the token still is live.
RevokeOld(s) ==
  /\ pc[s] = "revoke" /\ op[s] = "refresh"
  /\ tokenLock[token[s]] = NoSlot
  /\ tokenLock' = IF tokens[token[s]].state = "gone" THEN tokenLock
                  ELSE [tokenLock EXCEPT ![token[s]] = s]
  /\ Goto(s, "rotate")
  /\ UNCHANGED <<tables, userLock, subject, answer, read, had>>

\* CreateRefreshToken for the user and COMMIT, or a rollback when the foreign
\* key refuses the row.
Rotate(s, t) ==
  /\ pc[s] = "rotate" /\ Draw(t)
  /\ ~KeyHeld(s, user[s])
  /\ \/ /\ Present(user[s])
        /\ tokens' = [q \in Tokens |->
                        IF q = t THEN LiveToken(user[s])
                        ELSE IF tokenLock[q] = s THEN [tokens[q] EXCEPT !.state = "revoked"]
                        ELSE tokens[q]]
        /\ Finish(s, "ok")
        /\ UNCHANGED users
     \/ ~Present(user[s]) /\ Rollback(s)

\* A token that is not live needs no revoking; nor, says the code, does one
\* that could not be looked up.
Logout(s, t) ==
  /\ tokens[t].state # "free"
  /\ Arrive(s, "logout", tokens[t].owner, t)
  /\ \/ tokens[t].state = "live" /\ Goto(s, "revoke") /\ UNCHANGED answer
     \/ (Faulty \/ tokens[t].state # "live") /\ Reply(s, "ok")
  /\ UNCHANGED <<tables, locks, read, had>>

\* RevokeRefreshToken in a transaction of its own.
RevokeOne(s) ==
  /\ pc[s] = "revoke" /\ op[s] = "logout"
  /\ tokenLock[token[s]] = NoSlot
  /\ tokens' = IF tokens[token[s]].state = "gone" THEN tokens
               ELSE [tokens EXCEPT ![token[s]].state = "revoked"]
  /\ Reply(s, "ok")
  /\ UNCHANGED <<users, locks, subject, read, had>>
-----------------------------------------------------------------------------
(* Changes of a user: the row is read outside the transaction and written  *)
(* back whole inside it.                                                   *)

\* GetUserByID; ok: the checks of the row it read; row: what will be written,
\* with the address e if the request gives one.
Edit(s, o, u, g, ok, row, e) ==
  /\ users[u].status # "free"
  /\ Arrive(s, o, u, NoToken)
  /\ IF Present(u) /\ ok
     THEN /\ Goto(s, IF e = NoEmail THEN "save" ELSE "check") /\ UNCHANGED answer
          /\ snap' = [snap EXCEPT ![s] = IF e = NoEmail THEN row ELSE [row EXCEPT !.email = e]]
          /\ granter' = [granter EXCEPT ![s] = g]
     ELSE Reply(s, "refused") /\ UNCHANGED <<snap, granter>>
  /\ UNCHANGED <<tables, locks, found, stripped, had>>

UpdateProfile(s, u, e) == Edit(s, "update", u, NoUser, TRUE, users[u], e)

\* g: the bearer of the access token, who was there when it was issued.
UpdateUser(s, u, e, g, active, super) ==
  /\ g # NoUser => users[g].status # "free"
  /\ Edit(s, "update", u, g, TRUE, [users[u] EXCEPT !.active = active, !.super = super], e)

\* An account without a password has none that could be given as the old one.
ChangePassword(s, u, old, new) ==
  Edit(s, "password", u, NoUser, users[u].password = old,
       [users[u] EXCEPT !.password = new], NoEmail)

\* A slip for the runs to catch: the hash is not put into the row.
ResetPasswordEmpty(s, u, new) ==
  Edit(s, "password", u, NoUser, TRUE, [users[u] EXCEPT !.password = ""], NoEmail)

ResetPassword(s, u, new) ==
  Edit(s, "password", u, NoUser, TRUE, [users[u] EXCEPT !.password = new], NoEmail)

\* The id u of a new user is drawn when the row is inserted, by nobody else.
CreateUser(s, u, e, g, p, super) ==
  /\ users[u].status = "free" /\ \A q \in Slots : user[q] # u
  /\ g # NoUser => users[g].status # "free"
  /\ Arrive(s, "create", u, NoToken)
  /\ granter' = [granter EXCEPT ![s] = g]
  /\ snap' = [snap EXCEPT ![s] = [status |-> "present", email |-> e, password |-> p,
                                  active |-> TRUE, super |-> super]]
  /\ Goto(s, "check")
  /\ UNCHANGED <<tables, locks, answer, found, stripped, had>>

\* The address that s writes is that of another user.
AddressTaken(s) == \E v \in Users \ {user[s]} : users[v].email = snap[s].email

\* GetUserByEmail, before the transaction.
CheckAddress(s) ==
  /\ pc[s] = "check"
  /\ \/ AddressTaken(s) /\ Finish(s, "refused")
     \/ ~AddressTaken(s) /\ Goto(s, "save") /\ UNCHANGED <<locks, subject, answer, read, had>>
  /\ UNCHANGED tables

\* Where a request goes on when its users row is written.
AfterRow(s) == IF op[s] = "password" THEN "scan"
               ELSE IF granter[s] = NoUser THEN "commit"
               ELSE IF op[s] = "create" THEN "grant" ELSE "roles"

\* gorm's Save: an UPDATE of every column, and when no row has the id any more
\* an INSERT of the record; an INSERT turns is_active = false into the column's
\* default, true.  A new address goes into the unique index next.
Save(s) ==
  /\ pc[s] = "save"
  /\ userLock[user[s]] = NoSlot
  /\ userLock' = [userLock EXCEPT ![user[s]] = s]
  /\ snap' = IF Present(user[s]) THEN snap ELSE [snap EXCEPT ![s].active = TRUE]
  /\ had' = IF op[s] = "password" THEN [had EXCEPT ![s] = TokensOf(user[s], {"live"})]
                                  ELSE had
  /\ Goto(s, IF snap[s].email # users[user[s]].email THEN "address" ELSE AfterRow(s))
  /\ UNCHANGED <<tables, tokenLock, subject, answer, granter, found, stripped>>

\* The transaction of q decides whether anybody has address e: it leaves it, or
\* has entered it.
HoldsAddress(q, e) ==
  ChangesKey(q) /\ \/ users[user[q]].email = e
                   \/ pc[q] \notin {"address", "cascade"} /\ snap[q].email = e

\* The unique index on users.email waits for such a transaction and then refuses
\* an address that somebody has.
EnterAddress(s) ==
  /\ pc[s] = "address"
  /\ \A q \in Slots \ {s} : ~HoldsAddress(q, snap[s].email)
  /\ \/ AddressTaken(s) /\ Rollback(s)
     \/ /\ ~AddressTaken(s)
        /\ Goto(s, AfterRow(s))
        /\ UNCHANGED <<tables, locks, subject, answer, read, had>>

\* UpdateUser takes the user's roles away, whoever of those that are there granted
\* them, and grants new ones unless the request names none.
RemoveRoles(s) ==
  /\ pc[s] = "roles"
  /\ \E G \in SUBSET {u \in Users : Present(u)} : stripped' = [stripped EXCEPT ![s] = G]
  /\ \E p \in {"grant", "commit"} : Goto(s, p)
  /\ UNCHANGED <<tables, locks, subject, answer, granter, snap, found, had>>

\* A slip for the runs to catch: tokens that others hold are skipped.
ScanUnlocked(s) ==
  /\ pc[s] = "scan"
  /\ found' = [found EXCEPT ![s] = {t \in TokensOf(user[s], {"live", "expired"}) :
                                    tokenLock[t] = NoSlot}]
  /\ Goto(s, "revokeall")
  /\ UNCHANGED <<tables, locks, subject, answer, granter, snap, stripped, had>>

\* RevokeAllUserRefreshTokens: the UPDATE sees the tokens committed when it starts ...
Scan(s) ==
  /\ pc[s] = "scan"
  /\ found' = [found EXCEPT ![s] = TokensOf(user[s], {"live", "expired"})]
  /\ Goto(s, "revokeall")
  /\ UNCHANGED <<tables, locks, subject, answer, granter, snap, stripped, had>>

\* ... waits for those that others hold, and skips what is revoked by then.
RevokeAll(s) ==
  /\ pc[s] = "revokeall"
  /\ \A t \in found[s] : tokenLock[t] = NoSlot
  /\ tokenLock' = [t \in Tokens |->
                     IF t \in found[s] /\ tokens[t].state \in {"live", "expired"} THEN s
                     ELSE tokenLock[t]]
  /\ Goto(s, "commit")
  /\ UNCHANGED <<tables, userLock, subject, answer, read, had>>

CommitRows(s) ==
  /\ users' = [users EXCEPT ![user[s]] = snap[s]]
  /\ tokens' = [t \in Tokens |->
                  IF tokenLock[t] = s THEN [tokens[t] EXCEPT !.state = "revoked"]
                  ELSE tokens[t]]
  /\ Finish(s, "ok")

CommitUser(s) == pc[s] = "commit" /\ CommitRows(s)

\* AssignRolesToUser inserts the roles and the transaction commits, unless the
\* foreign key granted_by finds no such administrator.
GrantRoles(s) ==
  /\ pc[s] = "grant"
  /\ ~KeyHeld(s, granter[s])
  /\ \/ (granter[s] = user[s] \/ Present(granter[s])) /\ CommitRows(s)
     \/ granter[s] # user[s] /\ ~Present(granter[s]) /\ Rollback(s)
-----------------------------------------------------------------------------
(* DeleteUser                                                              *)

\* GetUserByID and the check of the super-admin flag.
DeleteUser(s, u) ==
  /\ users[u].status # "free"
  /\ Arrive(s, "delete", u, NoToken)
  /\ IF Present(u) /\ ~users[u].super THEN Goto(s, "delete") /\ UNCHANGED answer
                                      ELSE Reply(s, "refused")
  /\ UNCHANGED <<tables, locks, read, had>>

\* DELETE FROM users takes the row; no row is no error.
DeleteRow(s) ==
  /\ pc[s] = "delete"
  /\ userLock[user[s]] = NoSlot
  /\ \/ ~Present(user[s]) /\ Reply(s, "ok") /\ UNCHANGED userLock
     \/ /\ Present(user[s])
        /\ userLock' = [userLock EXCEPT ![user[s]] = s]
        /\ Goto(s, "cascade") /\ UNCHANGED answer
  /\ UNCHANGED <<tables, tokenLock, subject, read, had>>

\* The transaction of q holds rows of user_roles that u had granted.
HoldsGrantsOf(q, u) == pc[q] \in {"grant", "commit"} /\ u \in stripped[q]

\* ON DELETE CASCADE waits for the user's tokens, ON DELETE SET NULL for the roles
\* the user has granted, then the statement commits.
DeleteCascade(s) ==
  /\ pc[s] = "cascade"
  /\ \A t \in Tokens : tokens[t].owner = user[s] => tokenLock[t] = NoSlot
  /\ \A q \in Slots : ~HoldsGrantsOf(q, user[s])
  /\ users' = [users EXCEPT ![user[s]] = GoneUser]
  /\ tokens' = [t \in Tokens |-> IF tokens[t].owner = user[s]
                                 THEN [tokens[t] EXCEPT !.state = "gone"] ELSE tokens[t]]
  /\ Finish(s, "ok")
-----------------------------------------------------------------------------
(* Waiting for one another                                                 *)

\* The next statement of s waits for the transaction of q: for a users row, for
\* the key of one that its insert refers to, for a token, for an address, or for
\* roles that name the user it deletes.
WaitsForUser(s, q) == pc[s] \in {"stamp", "save", "delete"} /\ userLock[user[s]] = q

WaitsForKey(s, q) ==
  \/ pc[s] \in {"issue", "rotate"} /\ KeyHeld(s, user[s]) /\ userLock[user[s]] = q
  \/ pc[s] = "grant" /\ KeyHeld(s, granter[s]) /\ userLock[granter[s]] = q

WaitsForToken(s, q) ==
  \E t \in Tokens : /\ tokenLock[t] = q
                    /\ \/ pc[s] = "revoke" /\ token[s] = t
                       \/ pc[s] = "revokeall" /\ t \in found[s]
                       \/ pc[s] = "cascade" /\ tokens[t].owner = user[s]

WaitsForAddress(s, q) == pc[s] = "address" /\ q # s /\ HoldsAddress(q, snap[s].email)

WaitsForGrants(s, q) == pc[s] = "cascade" /\ HoldsGrantsOf(q, user[s])

Waits(s, q) == \/ WaitsForUser(s, q) \/ WaitsForKey(s, q) \/ WaitsForToken(s, q)
               \/ WaitsForAddress(s, q) \/ WaitsForGrants(s, q)

\* Requests W each of which waits, over others of W, for every other.
Circle(W) == /\ \A s \in W : \E q \in W : Waits(s, q)
             /\ \A V \in SUBSET W : V \notin {{}, W} => \E s \in V, q \in W \ V : Waits(s, q)

\* A statement that waits for its own transaction, while that holds rows.
Deadlocked(s) == /\ pc[s] \in {"rotate", "address", "revokeall", "grant", "cascade"}
                 /\ \E W \in SUBSET Slots : s \in W /\ Circle(W)

\* A slip for the runs to catch: what Postgres aborts is tried again without end.
DeadlockVictimRetries(s) ==
  /\ Deadlocked(s)
  /\ ReleaseRows(s)
  /\ Goto(s, IF op[s] = "refresh" THEN "revoke" ELSE IF op[s] = "delete" THEN "delete" ELSE "save")
  /\ UNCHANGED <<tables, subject, answer, read, had>>

\* Postgres aborts one of the transactions of a circle.
DeadlockVictim(s) == Deadlocked(s) /\ Rollback(s)
-----------------------------------------------------------------------------
(* What goes wrong, and the clock                                          *)

\* A statement fails or the request is cancelled before its commit.
DatabaseError(s) ==
  /\ Faulty
  /\ pc[s] \notin {"idle", "stamp", "done"}
  /\ Rollback(s)

\* The slot is free for the next request.
Return(s) ==
  /\ pc[s] = "done"
  /\ Goto(s, "idle")
  /\ op' = [op EXCEPT ![s] = "none"]
  /\ answer' = [answer EXCEPT ![s] = "none"]
  /\ user' = [user EXCEPT ![s] = NoUser]
  /\ token' = [token EXCEPT ![s] = NoToken]
  /\ had' = [had EXCEPT ![s] = {}]
  /\ UNCHANGED <<tables, locks, read>>

TokenExpires(t) ==
  /\ tokens[t].state = "live"
  /\ tokens' = [tokens EXCEPT ![t].state = "expired"]
  /\ UNCHANGED <<users, locks, subject, pc, answer, read, had>>
-----------------------------------------------------------------------------
\* Each request may leave the address or the roles as they are.
Administration(s, u) ==
  \/ \E e \in Emails \cup {NoEmail} :
       \/ UpdateProfile(s, u, e)
       \/ \E g \in Users \cup {NoUser}, active \in ActiveFlags, super \in SuperFlags :
            UpdateUser(s, u, e, g, active, super)
  \/ \E new \in Passwords : ResetPassword(s, u, new)
  \/ \E e \in Emails, g \in Users \cup {NoUser}, p \in Passwords, super \in SuperFlags :
       CreateUser(s, u, e, g, p, super)
  \/ DeleteUser(s, u)

\* A request that a free slot takes; the guard is that of Arrive, asked once.
Arrival(s) ==
  /\ pc[s] = "idle"
  /\ \/ \E u \in Users : \/ \E p \in Passwords : Login(s, u, p)
                         \/ \E old, new \in Passwords : ChangePassword(s, u, old, new)
                         \/ Administration(s, u)
     \/ \E t \in Tokens : RefreshToken(s, t) \/ Logout(s, t)

\* The steps a request takes once it has arrived.
Step(s) == \/ Reload(s) \/ Stamp(s) \/ RevokeOld(s) \/ RevokeOne(s)
           \/ \E t \in Tokens : Issue(s, t) \/ Rotate(s, t)
           \/ CheckAddress(s) \/ Save(s) \/ EnterAddress(s) \/ RemoveRoles(s)
           \/ Scan(s) \/ RevokeAll(s) \/ CommitUser(s) \/ GrantRoles(s)
           \/ DeleteRow(s) \/ DeleteCascade(s)
           \/ DeadlockVictim(s) \/ Return(s)

Next == \/ \E s \in Slots : Arrival(s) \/ Step(s) \/ DatabaseError(s)
        \/ \E t \in Tokens : TokenExpires(t)

Spec == Init /\ [][Next]_vars

\* A request that has arrived is served: its goroutine runs, Postgres grants a
\* row lock to its waiters in the order they came (hence strong fairness for a
\* step that waits for a row) and breaks deadlocks.  No client ever has to
\* call, no token has to expire and no statement has to fail.
Fairness == \A s \in Slots : SF_vars(Step(s))

FairSpec == Spec /\ Fairness
-----------------------------------------------------------------------------
Stages == {"idle", "reload", "issue", "stamp", "revoke", "rotate", "check",
           "save", "delete", "cascade", "done"} \cup Written
Ops == {"none", "login", "refresh", "logout", "update", "password", "create", "delete"}

TypeOK ==
  /\ users \in [Users -> UserRow] /\ tokens \in [Tokens -> TokenRow]
  /\ userLock \in [Users -> Slots \cup {NoSlot}]
  /\ tokenLock \in [Tokens -> Slots \cup {NoSlot}]
  /\ pc \in [Slots -> Stages] /\ op \in [Slots -> Ops]
  /\ answer \in [Slots -> {"none", "ok", "refused", "error"}]
  /\ user \in [Slots -> Users \cup {NoUser}]
  /\ token \in [Slots -> Tokens \cup {NoToken}]
  /\ granter \in [Slots -> Users \cup {NoUser}]
  /\ snap \in [Slots -> UserRow]
  /\ found \in [Slots -> SUBSET Tokens] /\ had \in [Slots -> SUBSET Tokens]
  /\ stripped \in [Slots -> SUBSET Users]

\* A refresh token belongs to a user that exists: the insert of a login or a
\* refresh that waits out a delete fails, a transaction that revokes a token
\* does not bring it back after the delete, and a late Save brings the user
\* back without tokens.
NoTokenWithoutUser ==
  \A t \in Tokens : tokens[t].state \in {"live", "expired", "revoked"}
                      => Present(tokens[t].owner)

\* A password change that is answered has ended the sessions its user had when
\* the new password was saved: no refresh, logout or delete that works on one
\* of them at the same time keeps it alive.
PasswordChangeEndsSessions ==
  \A s \in Slots : pc[s] = "done" /\ op[s] = "password" /\ answer[s] = "ok"
                    => \A t \in had[s] : tokens[t].state # "live"

\* A session that ends without anybody asking for it is handed on: where a
\* refresh revokes a token, the same commit issues the next one; everything
\* else that revokes is a logout with the token or a password change of its
\* owner, and only a delete of the owner removes it.
SessionEndsForAReason ==
  [][\A t \in Tokens :
       tokens[t].state = "live" /\ tokens'[t].state \in {"revoked", "gone"}
         => \E s \in Slots :
              /\ pc[s] # "done" /\ pc'[s] = "done" /\ answer'[s] = "ok"
              /\ user[s] = tokens[t].owner
              /\ \/ op[s] = "refresh" /\ token[s] = t /\ tokens'[t].state = "revoked"
                    /\ \E q \in Tokens : tokens[q].state = "free" /\ tokens'[q] = LiveToken(user[s])
                 \/ op[s] = "logout" /\ token[s] = t /\ tokens'[t].state = "revoked"
                 \/ op[s] = "password" /\ tokens'[t].state = "revoked"
                 \/ op[s] = "delete" /\ tokens'[t].state = "gone"]_vars

\* Requests that all wait for one another, however many and about however many
\* users, have one among them that changes a key of a users row: a delete, an
\* insert, or an UPDATE with another address, and be it the old address that a
\* password change writes back.  Logins, refreshes, logouts, password changes and
\* grants of roles that leave the addresses alone never close a circle.
CirclesChangeAKey ==
  \A W \in SUBSET Slots :
    W # {} /\ (\A s \in W : \E q \in W : Waits(s, q)) => \E s \in W : ChangesKey(s)

\* Every request is answered: no request waits for ever for a row lock, and
\* requests that wait for one another are pulled apart.
EveryRequestAnswered == \A s \in Slots : (pc[s] # "idle") ~> (pc[s] = "done")

\* "Revoke all refresh tokens (force re-login)" (auth_service.go, ChangePassword):
\* when a password change commits its user has no session left.
ForcesReLogin ==
  [][\A s \in Slots :
       op[s] = "password" /\ pc[s] = "commit" /\ pc'[s] = "done" /\ answer'[s] = "ok"
         => \A t \in Tokens : tokens'[t].owner = user[s] => tokens'[t].state # "live"]_vars
-----------------------------------------------------------------------------
(* Transactions, row locks and the checks of rows read earlier implement    *)
(* requests that take effect in one step.                                   *)

\* What became of the request of s.  A login has its answer once its token is
\* stored: what UpdateLastLogin does changes nothing about it.
Outcome(s) == IF pc[s] = "idle" THEN "none"
              ELSE IF pc[s] = "stamp" THEN "ok"
              ELSE IF pc[s] = "done" THEN answer[s]
              ELSE "pending"

Accounts == [u \in Users |-> users[u].status]

Calls == [s \in Slots |-> [op |-> op[s], user |-> user[s], token |-> token[s],
                           outcome |-> Outcome(s)]]

Store == INSTANCE SessionStore
           WITH Clients <- Slots, account <- Accounts, session <- tokens,
                call <- Calls, due <- had

\* Every request takes effect in one step or not at all: a refresh revokes and
\* issues at once, a password change ends every session it has to, a rollback
\* leaves nothing behind, and nothing else changes accounts and sessions.
ImplementsStore == Store!Spec
=============================================================================

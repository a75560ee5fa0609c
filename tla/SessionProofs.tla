---------------------------- MODULE SessionProofs ----------------------------
(***************************************************************************)
(* Theorems about Session for any number of slots, users, tokens and       *)
(* passwords, with or without faults.                                      *)
(***************************************************************************)
EXTENDS SessionInv, TLAPS

USE SessionAssumption

\* The rows that operations build are rows.
LEMMA NullRows == /\ FreeUser \in UserRow /\ GoneUser \in UserRow
                  /\ \A e \in Emails : OAuthUser(e) \in UserRow
                  /\ FreeToken \in TokenRow
BY DEF FreeUser, GoneUser, OAuthUser, UserRow, FreeToken, TokenRow

LEMMA TokenMoves ==
  ASSUME NEW r \in TokenRow, NEW st \in {"free", "live", "expired", "revoked", "gone"}
  PROVE  /\ [r EXCEPT !.state = st] \in TokenRow
         /\ [r EXCEPT !.state = st].state = st
         /\ [r EXCEPT !.state = st].owner = r.owner
BY DEF TokenRow

LEMMA NewToken ==
  ASSUME NEW u \in Users
  PROVE  LiveToken(u) \in TokenRow /\ LiveToken(u).state = "live" /\ LiveToken(u).owner = u
BY DEF LiveToken, TokenRow

LEMMA RowEdits ==
  ASSUME NEW r \in UserRow
  PROVE  /\ \A new \in Passwords : /\ [r EXCEPT !.password = new] \in UserRow
                                   /\ [r EXCEPT !.password = new].status = r.status
         /\ \A active, super \in BOOLEAN :
              /\ [r EXCEPT !.active = active, !.super = super] \in UserRow
              /\ [r EXCEPT !.active = active, !.super = super].status = r.status
         /\ \A e \in Emails : /\ [r EXCEPT !.email = e] \in UserRow
                              /\ [r EXCEPT !.email = e].status = r.status
<1>1. \A new \in Passwords : /\ [r EXCEPT !.password = new] \in UserRow
                             /\ [r EXCEPT !.password = new].status = r.status
  BY DEF UserRow
<1>2. ASSUME NEW active \in BOOLEAN, NEW super \in BOOLEAN
      PROVE  /\ [r EXCEPT !.active = active, !.super = super] \in UserRow
             /\ [r EXCEPT !.active = active, !.super = super].status = r.status
  BY DEF UserRow
<1>3. \A e \in Emails : /\ [r EXCEPT !.email = e] \in UserRow
                        /\ [r EXCEPT !.email = e].status = r.status
  BY DEF UserRow
<1> QED BY <1>1, <1>2, <1>3

\* The tables, the locks and what was read stay; one request moves on.
LEMMA QuietMove ==
  ASSUME IInv, NEW s \in Slots, NEW p \in Stages, NEW a \in {"none", "ok", "refused", "error"},
         pc' = [pc EXCEPT ![s] = p], answer' = answer \/ answer' = [answer EXCEPT ![s] = a],
         UNCHANGED <<tables, locks, subject, read, had>>,
         pc[s] \notin {"idle", "done"},
         p = "reload" => op[s] \in {"login", "refresh"},
         p \in {"revoke", "rotate"} => op[s] \in {"refresh", "logout"},
         p \in {"check", "save"} \cup Written => snap[s].status = "present"
  PROVE  IInv'
<1> USE DEF tables, locks, subject, read
<1>1. TypeOK'              BY DEF IInv, TypeOK
<1>2. StagesFit'           BY DEF IInv, TypeOK, StagesFit
<1>3. IssuedTokensOwned'   BY DEF IInv, IssuedTokensOwned
<1>4. SubjectsKnown'       BY DEF IInv, TypeOK, SubjectsKnown
<1>5. WritersHaveRead'     BY DEF IInv, TypeOK, WritersHaveRead
<1>6. LockedTokensExist'   BY DEF IInv, LockedTokensExist
<1>7. NoTokenWithoutUser'  BY DEF IInv, NoTokenWithoutUser, Present
<1> QED BY <1>1, <1>2, <1>3, <1>4, <1>5, <1>6, <1>7 DEF IInv

\* What an arrival amounts to: a request in an idle slot goes to its first stage
\* or is answered at once, and takes the row along that it is going to write.
Arrived(s, o, u, t, p, g, r) ==
  /\ Arrive(s, o, u, t)
  /\ pc' = [pc EXCEPT ![s] = p]
  /\ answer' = IF p # "done" THEN answer
               ELSE [answer EXCEPT ![s] = IF o = "logout" THEN "ok" ELSE "refused"]
  /\ UNCHANGED <<tables, locks, found, stripped, had>>
  /\ IF p \in {"check", "save"}
     THEN /\ snap' = [snap EXCEPT ![s] = r] /\ r.status = "present"
          /\ granter' = [granter EXCEPT ![s] = g]
     ELSE UNCHANGED <<snap, granter>>
  /\ p = "reload" => o \in {"login", "refresh"}
  /\ p = "revoke" => o = "logout"
  /\ p = "check"  => o \in {"update", "create"}
  /\ p = "save"   => o \in {"update", "password"}
  /\ p = "delete" => o = "delete"
  /\ o \in {"login", "refresh", "logout", "update", "password", "create", "delete"}
  /\ o = "password" => p \in {"save", "done"}
  /\ IF o \in {"refresh", "logout"}
     THEN t \in Tokens /\ tokens[t].state # "free" /\ u = tokens[t].owner
     ELSE t = NoToken
  /\ IF o = "create"
     THEN p = "check" /\ users[u].status = "free" /\ \A q \in Slots : user[q] # u
     ELSE o \notin {"refresh", "logout"} => users[u].status # "free"

LEMMA EditArrives ==
  ASSUME IInv, NEW s \in Slots, NEW o \in {"update", "password"}, NEW u \in Users,
         NEW g \in Users \cup {NoUser}, NEW ok \in BOOLEAN, NEW row \in UserRow,
         row.status = users[u].status, NEW e \in Emails \cup {NoEmail},
         o = "password" => e = NoEmail, Edit(s, o, u, g, ok, row, e)
  PROVE  \E p \in {"check", "save", "done"}, r \in UserRow : Arrived(s, o, u, NoToken, p, g, r)
<1> USE DEF Edit, Goto, Reply
<1>1. PICK r \in UserRow : /\ r.status = row.status
                          /\ r = IF e = NoEmail THEN row ELSE [row EXCEPT !.email = e]
  BY RowEdits
<1>2. CASE Present(u) /\ ok
  <2>1. PICK p \in {"check", "save"} : p = IF e = NoEmail THEN "save" ELSE "check" OBVIOUS
  <2>2. Arrived(s, o, u, NoToken, p, g, r) BY <1>1, <1>2, <2>1 DEF Arrived, Present
  <2> QED BY <2>2
<1>3. CASE ~(Present(u) /\ ok)
  <2>1. Arrived(s, o, u, NoToken, "done", g, r) BY <1>3 DEF Arrived
  <2> QED BY <2>1
<1> QED BY <1>2, <1>3

\* Every arrival is one of these.
LEMMA Arrivals ==
  ASSUME IInv, NEW s \in Slots, Arrival(s)
  PROVE  \E o \in Ops, u \in Users, t \in Tokens \cup {NoToken},
            p \in {"reload", "revoke", "check", "save", "delete", "done"},
            g \in Users \cup {NoUser}, r \in UserRow : Arrived(s, o, u, t, p, g, r)
<1> DEFINE Goal == \E o \in Ops, u \in Users, t \in Tokens \cup {NoToken},
                      p \in {"reload", "revoke", "check", "save", "delete", "done"},
                      g \in Users \cup {NoUser}, r \in UserRow : Arrived(s, o, u, t, p, g, r)
<1> SUFFICES Goal OBVIOUS
<1>0. /\ NoUser \in Users \cup {NoUser} /\ FreeUser \in UserRow
      /\ "done" \in {"reload", "revoke", "check", "save", "delete", "done"}
      /\ {"login", "refresh", "logout", "update", "password", "create", "delete"} \subseteq Ops
  BY NullRows DEF Ops
<1>1. ASSUME NEW o \in Ops, NEW u \in Users, NEW t \in Tokens \cup {NoToken},
             NEW p \in {"reload", "revoke", "check", "save", "delete", "done"},
             NEW g \in Users \cup {NoUser}, NEW r \in UserRow, Arrived(s, o, u, t, p, g, r)
      PROVE  Goal
  BY <1>1
<1> HIDE DEF Goal
<1>2. ASSUME NEW u \in Users, NEW p \in Passwords, Login(s, u, p) PROVE Goal
  <2>1. CASE Present(u) /\ users[u].active /\ users[u].password = p
    <3>1. Arrived(s, "login", u, NoToken, "reload", NoUser, FreeUser)
      BY <1>2, <2>1 DEF Login, Arrived, Goto, read
    <3> QED BY <1>0, <1>1, <3>1
  <2>2. CASE ~(Present(u) /\ users[u].active /\ users[u].password = p)
    <3>1. Arrived(s, "login", u, NoToken, "done", NoUser, FreeUser)
      BY <1>2, <2>2 DEF Login, Arrived, Goto, Reply, read
    <3> QED BY <1>0, <1>1, <3>1
  <2> QED BY <2>1, <2>2
<1>3. ASSUME NEW t \in Tokens, RefreshToken(s, t) PROVE Goal
  <2>0. tokens[t].owner \in Users BY <1>3 DEF RefreshToken, IInv, IssuedTokensOwned
  <2>1. \E p \in {"reload", "done"} : Arrived(s, "refresh", tokens[t].owner, t, p, NoUser, FreeUser)
    <3>1. CASE tokens[t].state = "live"
      <4>1. Arrived(s, "refresh", tokens[t].owner, t, "reload", NoUser, FreeUser)
        BY <1>3, <3>1 DEF RefreshToken, Arrived, Goto, read
      <4> QED BY <4>1
    <3>2. CASE tokens[t].state # "live"
      <4>1. Arrived(s, "refresh", tokens[t].owner, t, "done", NoUser, FreeUser)
        BY <1>3, <3>2 DEF RefreshToken, Arrived, Goto, Reply, read
      <4> QED BY <4>1
    <3> QED BY <3>1, <3>2
  <2> QED BY <1>0, <1>1, <2>0, <2>1
<1>4. ASSUME NEW t \in Tokens, Logout(s, t) PROVE Goal
  <2>0. tokens[t].owner \in Users BY <1>4 DEF Logout, IInv, IssuedTokensOwned
  <2>1. \E p \in {"revoke", "done"} : Arrived(s, "logout", tokens[t].owner, t, p, NoUser, FreeUser)
    <3>1. CASE tokens[t].state = "live" /\ Goto(s, "revoke") /\ UNCHANGED answer
      <4>1. Arrived(s, "logout", tokens[t].owner, t, "revoke", NoUser, FreeUser)
        BY <1>4, <3>1 DEF Logout, Arrived, Goto, read
      <4> QED BY <4>1
    <3>2. CASE Reply(s, "ok")
      <4>1. Arrived(s, "logout", tokens[t].owner, t, "done", NoUser, FreeUser)
        BY <1>4, <3>2 DEF Logout, Arrived, Goto, Reply, read
      <4> QED BY <4>1
    <3> QED BY <1>4, <3>1, <3>2 DEF Logout
  <2> QED BY <1>0, <1>1, <2>0, <2>1
<1>5. ASSUME NEW o \in {"update", "password"}, NEW u \in Users, NEW g \in Users \cup {NoUser},
             NEW ok \in BOOLEAN, NEW row \in UserRow, row.status = users[u].status,
             NEW e \in Emails \cup {NoEmail}, o = "password" => e = NoEmail,
             Edit(s, o, u, g, ok, row, e)
      PROVE  Goal
  <2>1. PICK p \in {"check", "save", "done"}, r \in UserRow : Arrived(s, o, u, NoToken, p, g, r)
    BY <1>5, EditArrives
  <2> QED BY <1>0, <1>1, <2>1
<1>6. ASSUME NEW u \in Users
      PROVE  /\ users[u] \in UserRow
             /\ \A new \in Passwords : /\ [users[u] EXCEPT !.password = new] \in UserRow
                                       /\ [users[u] EXCEPT !.password = new].status = users[u].status
             /\ \A active, super \in BOOLEAN :
                  /\ [users[u] EXCEPT !.active = active, !.super = super] \in UserRow
                  /\ [users[u] EXCEPT !.active = active, !.super = super].status = users[u].status
  <2>1. users[u] \in UserRow BY DEF IInv, TypeOK
  <2> QED BY <2>1, RowEdits
<1>7. ASSUME NEW u \in Users, NEW old \in Passwords, NEW new \in Passwords,
             ChangePassword(s, u, old, new)
      PROVE  Goal
  <2>1. (users[u].password = old) \in BOOLEAN OBVIOUS
  <2> QED BY <1>0, <1>5, <1>6, <1>7, <2>1 DEF ChangePassword
<1>8. ASSUME NEW u \in Users, Administration(s, u) PROVE Goal
  <2>1. ASSUME NEW e \in Emails \cup {NoEmail}, UpdateProfile(s, u, e) PROVE Goal
    BY <1>0, <1>5, <1>6, <2>1 DEF UpdateProfile
  <2>2. ASSUME NEW e \in Emails \cup {NoEmail}, NEW g \in Users \cup {NoUser},
               NEW active \in ActiveFlags, NEW super \in SuperFlags,
               UpdateUser(s, u, e, g, active, super)
        PROVE  Goal
    <3>1. active \in BOOLEAN /\ super \in BOOLEAN BY SessionAssumption
    <3> QED BY <1>5, <1>6, <2>2, <3>1 DEF UpdateUser
  <2>3. ASSUME NEW new \in Passwords, ResetPassword(s, u, new) PROVE Goal
    BY <1>0, <1>5, <1>6, <2>3 DEF ResetPassword
  <2>4. ASSUME NEW e \in Emails, NEW g \in Users \cup {NoUser}, NEW p \in Passwords,
               NEW super \in SuperFlags, CreateUser(s, u, e, g, p, super)
        PROVE  Goal
    <3> DEFINE row == [status |-> "present", email |-> e, password |-> p,
                       active |-> TRUE, super |-> super]
    <3>1. row \in UserRow /\ row.status = "present" BY SessionAssumption DEF UserRow
    <3>2. snap' = [snap EXCEPT ![s] = row] BY <2>4 DEF CreateUser
    <3> HIDE DEF row
    <3>3. Arrived(s, "create", u, NoToken, "check", g, row)
      BY <2>4, <3>1, <3>2 DEF CreateUser, Arrived, Goto
    <3> QED BY <1>0, <1>1, <3>1, <3>3
  <2>5. ASSUME DeleteUser(s, u) PROVE Goal
    <3>1. CASE Present(u) /\ ~users[u].super
      <4>1. Arrived(s, "delete", u, NoToken, "delete", NoUser, FreeUser)
        BY <2>5, <3>1 DEF DeleteUser, Arrived, Goto, read
      <4> QED BY <1>0, <1>1, <4>1
    <3>2. CASE ~(Present(u) /\ ~users[u].super)
      <4>1. Arrived(s, "delete", u, NoToken, "done", NoUser, FreeUser)
        BY <2>5, <3>2 DEF DeleteUser, Arrived, Goto, Reply, read
      <4> QED BY <1>0, <1>1, <4>1
    <3> QED BY <3>1, <3>2
  <2> QED BY <1>8, <2>1, <2>2, <2>3, <2>4, <2>5 DEF Administration
<1> QED BY <1>2, <1>3, <1>4, <1>7, <1>8 DEF Arrival

\* A request that is answered lets go of what its transaction held, and forgets
\* what it had read.
LEMMA Finishes ==
  ASSUME IInv, NEW s \in Slots, NEW a \in {"ok", "refused", "error"}, Finish(s, a)
  PROVE  /\ pc' = [pc EXCEPT ![s] = "done"] /\ answer' = [answer EXCEPT ![s] = a]
         /\ userLock' = [u \in Users |-> IF userLock[u] = s THEN NoSlot ELSE userLock[u]]
         /\ tokenLock' = [t \in Tokens |-> IF tokenLock[t] = s THEN NoSlot ELSE tokenLock[t]]
         /\ UNCHANGED <<op, user, token, had>>
         /\ \A q \in Slots \ {s} : /\ snap'[q] = snap[q] /\ found'[q] = found[q]
                                   /\ granter'[q] = granter[q] /\ stripped'[q] = stripped[q]
         /\ snap' \in [Slots -> UserRow] /\ granter' \in [Slots -> Users \cup {NoUser}]
         /\ found' \in [Slots -> SUBSET Tokens] /\ stripped' \in [Slots -> SUBSET Users]
         /\ pc' \in [Slots -> Stages]
BY NullRows DEF Finish, ReleaseRows, Reply, Goto, subject, IInv, TypeOK, Stages

\* A rollback writes nothing.
LEMMA Aborts ==
  ASSUME IInv, NEW s \in Slots, NEW a \in {"refused", "error"}, Finish(s, a), UNCHANGED tables
  PROVE  IInv'
<1> USE Finishes DEF tables
<1>1. TypeOK'              BY DEF IInv, TypeOK
<1>2. StagesFit'           BY DEF IInv, TypeOK, StagesFit
<1>3. IssuedTokensOwned'   BY DEF IInv, IssuedTokensOwned
<1>4. SubjectsKnown'
  <2>1. pc' = [pc EXCEPT ![s] = "done"] /\ UNCHANGED <<op, user, token, tokens>> OBVIOUS
  <2> QED BY <2>1 DEF IInv, TypeOK, SubjectsKnown
<1>5. WritersHaveRead'     BY DEF IInv, TypeOK, WritersHaveRead, Written
<1>6. LockedTokensExist'   BY DEF IInv, TypeOK, LockedTokensExist
<1>7. NoTokenWithoutUser'  BY DEF IInv, NoTokenWithoutUser, Present
<1> QED BY <1>1, <1>2, <1>3, <1>4, <1>5, <1>6, <1>7 DEF IInv
-----------------------------------------------------------------------------
\* What arrives keeps the invariant.
LEMMA ArrivalSafe ==
  ASSUME IInv, NEW s \in Slots, Arrival(s)
  PROVE  IInv'
<1>1. PICK o \in Ops, u \in Users, t \in Tokens \cup {NoToken},
           p \in {"reload", "revoke", "check", "save", "delete", "done"},
           g \in Users \cup {NoUser}, r \in UserRow : Arrived(s, o, u, t, p, g, r)
  BY Arrivals
<1> USE <1>1 DEF tables, locks, Arrive, Arrived
<1>2. TypeOK'
  <2>1. pc' \in [Slots -> Stages] BY DEF IInv, TypeOK, Stages
  <2> QED BY <2>1 DEF IInv, TypeOK
<1>3. StagesFit'           BY DEF IInv, TypeOK, StagesFit
<1>4. IssuedTokensOwned'   BY DEF IInv, IssuedTokensOwned
<1>5. SubjectsKnown'       BY DEF IInv, TypeOK, SubjectsKnown
<1>6. WritersHaveRead'     BY DEF IInv, TypeOK, WritersHaveRead, Written
<1>7. LockedTokensExist'   BY DEF IInv, LockedTokensExist
<1>8. NoTokenWithoutUser'  BY DEF IInv, NoTokenWithoutUser, Present
<1> QED BY <1>2, <1>3, <1>4, <1>5, <1>6, <1>7, <1>8 DEF IInv
-----------------------------------------------------------------------------
\* Only the table of tokens changes, by one token that was issued to somebody present.
LEMMA Issues ==
  ASSUME IInv, NEW s \in Slots, NEW t \in Tokens, Issue(s, t)
  PROVE  IInv'
<1> USE DEF Issue
<1>0. user[s] \in Users BY DEF IInv, SubjectsKnown
<1>8. CASE ~Present(user[s])
  BY <1>8, QuietMove DEF Reply, Goto, tables, Stages, Written
<1>9. CASE Present(user[s])
  <2> USE <1>0, <1>9, NewToken DEF Goto, locks, subject, read, Draw
  <2>1. TypeOK'              BY DEF IInv, TypeOK, Stages, Written
  <2>2. StagesFit'           BY DEF IInv, TypeOK, StagesFit
  <2>3. IssuedTokensOwned'   BY DEF IInv, TypeOK, IssuedTokensOwned
  <2>4. SubjectsKnown'       BY DEF IInv, TypeOK, SubjectsKnown
  <2>5. WritersHaveRead'     BY DEF IInv, TypeOK, WritersHaveRead, Written
  <2>6. LockedTokensExist'   BY DEF IInv, TypeOK, LockedTokensExist
  <2>7. NoTokenWithoutUser'  BY DEF IInv, TypeOK, NoTokenWithoutUser, Present
  <2> QED BY <2>1, <2>2, <2>3, <2>4, <2>5, <2>6, <2>7 DEF IInv
<1> QED BY <1>8, <1>9

LEMMA RevokesOld ==
  ASSUME IInv, NEW s \in Slots, RevokeOld(s)
  PROVE  IInv'
<1> USE DEF RevokeOld, Goto, tables, subject, read
<1>0. token[s] \in Tokens /\ tokens[token[s]].state # "free" BY DEF IInv, SubjectsKnown
<1> USE <1>0
<1>1. TypeOK'              BY DEF IInv, TypeOK, Stages, Written
<1>2. StagesFit'           BY DEF IInv, TypeOK, StagesFit
<1>3. IssuedTokensOwned'   BY DEF IInv, TypeOK, IssuedTokensOwned
<1>4. SubjectsKnown'       BY DEF IInv, TypeOK, SubjectsKnown
<1>5. WritersHaveRead'     BY DEF IInv, TypeOK, WritersHaveRead, Written
<1>6. LockedTokensExist'   
  BY DEF IInv, TypeOK, LockedTokensExist, TokenRow
<1>7. NoTokenWithoutUser'  BY DEF IInv, TypeOK, NoTokenWithoutUser, Present
<1> QED BY <1>1, <1>2, <1>3, <1>4, <1>5, <1>6, <1>7 DEF IInv

LEMMA Rotates ==
  ASSUME IInv, NEW s \in Slots, NEW t \in Tokens, Rotate(s, t)
  PROVE  IInv'
<1>1. user[s] \in Users /\ pc[s] \notin {"idle", "done"} BY DEF IInv, SubjectsKnown, Rotate
<1>2. CASE ~Present(user[s]) BY <1>2, Aborts DEF Rotate, Rollback
<1>3. CASE Present(user[s])
  <2>1. /\ tokens' = [q \in Tokens |->
                        IF q = t THEN LiveToken(user[s])
                        ELSE IF tokenLock[q] = s THEN [tokens[q] EXCEPT !.state = "revoked"]
                        ELSE tokens[q]]
        /\ Finish(s, "ok") /\ UNCHANGED users
        /\ tokens[t].state = "free" /\ tokenLock[t] = NoSlot
    BY <1>3 DEF Rotate, Draw, IInv, TypeOK, LockedTokensExist
  <2>2. ASSUME NEW q \in Tokens
        PROVE  /\ tokens'[q] \in TokenRow
               /\ \/ tokens'[q] = tokens[q]
                  \/ q = t /\ tokens'[q] = LiveToken(user[s])
                  \/ /\ tokenLock[q] = s
                     /\ tokens'[q].state = "revoked" /\ tokens'[q].owner = tokens[q].owner
    <3>1. tokens[q] \in TokenRow BY DEF IInv, TypeOK
    <3> QED BY <1>1, <2>1, <3>1, NewToken, TokenMoves
  <2>3. tokens' \in [Tokens -> TokenRow]
    <3>1. tokens' = [q \in Tokens |-> tokens'[q]] BY <2>1
    <3> QED BY <2>2, <3>1
  <2>4. /\ pc' = [pc EXCEPT ![s] = "done"] /\ answer' = [answer EXCEPT ![s] = "ok"]
        /\ userLock' = [u \in Users |-> IF userLock[u] = s THEN NoSlot ELSE userLock[u]]
        /\ tokenLock' = [q \in Tokens |-> IF tokenLock[q] = s THEN NoSlot ELSE tokenLock[q]]
        /\ UNCHANGED <<users, op, user, token, had>>
        /\ \A q \in Slots \ {s} : snap'[q] = snap[q]
    BY <2>1, Finishes
  <2>5. TypeOK'              BY <2>1, <2>3, <2>4, Finishes DEF IInv, TypeOK
  <2>6. StagesFit'           BY <2>4 DEF IInv, TypeOK, StagesFit
  <2>7. IssuedTokensOwned'
    BY <1>1, <2>2, NewToken DEF IInv, IssuedTokensOwned, LockedTokensExist
  <2>8. SubjectsKnown'       BY <2>2, <2>4, <1>1, NewToken DEF IInv, TypeOK, SubjectsKnown
  <2>9. WritersHaveRead'     BY <2>4 DEF IInv, TypeOK, WritersHaveRead, Written
  <2>10. LockedTokensExist'  BY <2>1, <2>2, <2>4 DEF IInv, TypeOK, LockedTokensExist
  <2>11. NoTokenWithoutUser'
    BY <1>1, <1>3, <2>2, <2>4, NewToken DEF IInv, NoTokenWithoutUser, LockedTokensExist, Present
  <2> QED BY <2>5, <2>6, <2>7, <2>8, <2>9, <2>10, <2>11 DEF IInv
<1> QED BY <1>2, <1>3

\* Tokens that were issued move on to other states, users and requests aside.
LEMMA TokensMove ==
  ASSUME IInv, tokens' \in [Tokens -> TokenRow], UNCHANGED users,
         \A t \in Tokens :
           /\ tokens'[t].owner = tokens[t].owner
           /\ \/ tokens'[t].state = tokens[t].state
              \/ /\ tokens[t].state \in {"live", "expired", "revoked"}
                 /\ tokens'[t].state \in {"expired", "revoked"}
  PROVE  /\ IssuedTokensOwned' /\ NoTokenWithoutUser'
         /\ \A t \in Tokens : tokens[t].state # "free" => tokens'[t].state # "free"
         /\ \A t \in Tokens : tokens[t].state \in {"live", "expired", "revoked"}
                              => tokens'[t].state \in {"live", "expired", "revoked"}
<1>1. IssuedTokensOwned' BY DEF IInv, IssuedTokensOwned
<1>2. NoTokenWithoutUser' BY DEF IInv, NoTokenWithoutUser, Present
<1> QED BY <1>1, <1>2

LEMMA RevokesOne ==
  ASSUME IInv, NEW s \in Slots, RevokeOne(s)
  PROVE  IInv'
<1>1. token[s] \in Tokens /\ tokens[token[s]].state # "free"
  BY DEF RevokeOne, IInv, SubjectsKnown
<1>2. /\ tokens \in [Tokens -> TokenRow]
      /\ tokens' = IF tokens[token[s]].state = "gone" THEN tokens
                   ELSE [tokens EXCEPT ![token[s]] = [tokens[token[s]] EXCEPT !.state = "revoked"]]
  BY DEF RevokeOne, IInv, TypeOK
<1>3. tokens[token[s]].state \in {"free", "live", "expired", "revoked", "gone"}
  BY <1>1, <1>2 DEF TokenRow
<1>4. /\ tokens' \in [Tokens -> TokenRow]
      /\ \A t \in Tokens :
           /\ tokens'[t].owner = tokens[t].owner
           /\ \/ tokens'[t].state = tokens[t].state
              \/ /\ tokens[t].state \in {"live", "expired", "revoked"}
                 /\ tokens'[t].state \in {"expired", "revoked"}
  <2>1. CASE tokens[token[s]].state = "gone" BY <1>2, <2>1
  <2>2. CASE tokens[token[s]].state # "gone"
    <3> DEFINE row == [tokens[token[s]] EXCEPT !.state = "revoked"]
    <3>1. tokens[token[s]] \in TokenRow BY <1>1, <1>2
    <3>2. row \in TokenRow /\ row.state = "revoked" /\ row.owner = tokens[token[s]].owner
      BY <3>1, TokenMoves
    <3>3. tokens' = [tokens EXCEPT ![token[s]] = row] BY <1>2, <2>2
    <3> HIDE DEF row
    <3> QED BY <1>1, <1>2, <1>3, <2>2, <3>2, <3>3
  <2> QED BY <2>1, <2>2
<1> USE DEF RevokeOne, Reply, Goto, locks, subject, read
<1>5. TypeOK'             BY <1>4 DEF IInv, TypeOK, Stages, Written
<1>6. StagesFit'          BY DEF IInv, TypeOK, StagesFit
<1>7. SubjectsKnown'      BY <1>4, TokensMove DEF IInv, TypeOK, SubjectsKnown
<1>8. WritersHaveRead'    BY DEF IInv, TypeOK, WritersHaveRead, Written
<1>9. LockedTokensExist'  BY <1>4, TokensMove DEF IInv, LockedTokensExist
<1>10. IssuedTokensOwned' /\ NoTokenWithoutUser'
  BY <1>4, TokensMove
<1> QED BY <1>5, <1>6, <1>7, <1>8, <1>9, <1>10 DEF IInv

\* Save and RevokeAll take rows and write none.
LEMMA Saves ==
  ASSUME IInv, NEW s \in Slots, Save(s)
  PROVE  IInv'
<1>1. user[s] \in Users BY DEF Save, IInv, SubjectsKnown
<1>2. snap[s] \in UserRow /\ snap[s].status = "present"
  BY DEF Save, IInv, TypeOK, WritersHaveRead
<1>3. [snap[s] EXCEPT !.active = TRUE] \in UserRow
      /\ [snap[s] EXCEPT !.active = TRUE].status = "present"
  BY <1>2 DEF UserRow
<1>4. /\ snap' \in [Slots -> UserRow]
      /\ \A q \in Slots : snap'[q].status = snap[q].status
  <2>1. CASE Present(user[s]) BY <2>1 DEF Save, IInv, TypeOK
  <2>2. CASE ~Present(user[s])
    <3> DEFINE row == [snap[s] EXCEPT !.active = TRUE]
    <3>1. snap' = [snap EXCEPT ![s] = row] BY <2>2 DEF Save
    <3>2. row \in UserRow /\ row.status = snap[s].status BY <1>2, <1>3
    <3> HIDE DEF row
    <3> QED BY <3>1, <3>2 DEF IInv, TypeOK
  <2> QED BY <2>1, <2>2
<1>12. PICK p \in Written : pc' = [pc EXCEPT ![s] = p] BY DEF Save, AfterRow, Goto, Written
<1> USE <1>12 DEF Save, tables, subject
<1>5. TypeOK'
  <2>1. had' \in [Slots -> SUBSET Tokens] BY DEF IInv, TypeOK, TokensOf
  <2>2. pc' \in [Slots -> Stages] BY DEF IInv, TypeOK, Stages
  <2> QED BY <1>1, <1>4, <2>1, <2>2 DEF IInv, TypeOK
<1>6. StagesFit'          BY DEF IInv, TypeOK, StagesFit, Written
<1>7. IssuedTokensOwned'  BY DEF IInv, IssuedTokensOwned
<1>8. SubjectsKnown'      BY DEF IInv, TypeOK, SubjectsKnown
<1>9. WritersHaveRead'    BY <1>4 DEF IInv, TypeOK, WritersHaveRead, Written
<1>10. LockedTokensExist' BY DEF IInv, LockedTokensExist
<1>11. NoTokenWithoutUser' BY DEF IInv, NoTokenWithoutUser, Present
<1> QED BY <1>5, <1>6, <1>7, <1>8, <1>9, <1>10, <1>11 DEF IInv

LEMMA Scans ==
  ASSUME IInv, NEW s \in Slots, Scan(s)
  PROVE  IInv'
<1> USE DEF Scan, Goto, tables, locks, subject
<1>1. TypeOK'             BY DEF IInv, TypeOK, Stages, Written, TokensOf
<1>2. StagesFit'          BY DEF IInv, TypeOK, StagesFit
<1>3. IssuedTokensOwned'  BY DEF IInv, IssuedTokensOwned
<1>4. SubjectsKnown'      BY DEF IInv, TypeOK, SubjectsKnown
<1>5. WritersHaveRead'    BY DEF IInv, TypeOK, WritersHaveRead, Written
<1>6. LockedTokensExist'  BY DEF IInv, LockedTokensExist
<1>7. NoTokenWithoutUser' BY DEF IInv, NoTokenWithoutUser, Present
<1> QED BY <1>1, <1>2, <1>3, <1>4, <1>5, <1>6, <1>7 DEF IInv

LEMMA RevokesAll ==
  ASSUME IInv, NEW s \in Slots, RevokeAll(s)
  PROVE  IInv'
<1> USE DEF RevokeAll, Goto, tables, subject, read
<1>1. TypeOK'             BY DEF IInv, TypeOK, Stages, Written
<1>2. StagesFit'          BY DEF IInv, TypeOK, StagesFit
<1>3. IssuedTokensOwned'  BY DEF IInv, IssuedTokensOwned
<1>4. SubjectsKnown'      BY DEF IInv, TypeOK, SubjectsKnown
<1>5. WritersHaveRead'    BY DEF IInv, TypeOK, WritersHaveRead, Written
<1>6. LockedTokensExist'  BY DEF IInv, LockedTokensExist
<1>7. NoTokenWithoutUser' BY DEF IInv, NoTokenWithoutUser, Present
<1> QED BY <1>1, <1>2, <1>3, <1>4, <1>5, <1>6, <1>7 DEF IInv

\* The address and the roles: the row that was saved is still the one to write.
LEMMA EntersAddress ==
  ASSUME IInv, NEW s \in Slots, EnterAddress(s)
  PROVE  IInv'
<1>1. CASE Rollback(s) BY <1>1, Aborts DEF Rollback
<1>2. CASE Goto(s, AfterRow(s)) /\ UNCHANGED <<tables, locks, subject, answer, read, had>>
  <2>1. PICK p \in {"scan", "commit", "grant", "roles"} : pc' = [pc EXCEPT ![s] = p]
    BY <1>2 DEF Goto, AfterRow
  <2>2. pc[s] = "address" /\ snap[s].status = "present"
    BY DEF EnterAddress, IInv, WritersHaveRead, Written
  <2> QED BY <1>2, <2>1, <2>2, QuietMove DEF Stages, Written
<1> QED BY <1>1, <1>2 DEF EnterAddress

LEMMA ChecksAddress ==
  ASSUME IInv, NEW s \in Slots, CheckAddress(s)
  PROVE  IInv'
<1>1. CASE Finish(s, "refused") BY <1>1, Aborts DEF CheckAddress
<1>2. CASE Goto(s, "save") /\ UNCHANGED <<locks, subject, answer, read, had>>
  <2>1. pc[s] = "check" /\ snap[s].status = "present"
    BY DEF CheckAddress, IInv, WritersHaveRead
  <2> QED BY <1>2, <2>1, QuietMove DEF CheckAddress, Goto, Stages
<1> QED BY <1>1, <1>2 DEF CheckAddress

LEMMA RemovesRoles ==
  ASSUME IInv, NEW s \in Slots, RemoveRoles(s)
  PROVE  IInv'
<1> USE DEF RemoveRoles, Goto, tables, locks, subject
<1>1. TypeOK'
  <2>1. pc' \in [Slots -> Stages] BY DEF IInv, TypeOK, Stages, Written
  <2>2. stripped' \in [Slots -> SUBSET Users] BY DEF IInv, TypeOK
  <2> QED BY <2>1, <2>2 DEF IInv, TypeOK
<1>2. StagesFit'          BY DEF IInv, TypeOK, StagesFit
<1>3. IssuedTokensOwned'  BY DEF IInv, IssuedTokensOwned
<1>4. SubjectsKnown'      BY DEF IInv, TypeOK, SubjectsKnown
<1>5. WritersHaveRead'    BY DEF IInv, TypeOK, WritersHaveRead, Written
<1>6. LockedTokensExist'  BY DEF IInv, LockedTokensExist
<1>7. NoTokenWithoutUser' BY DEF IInv, NoTokenWithoutUser, Present
<1> QED BY <1>1, <1>2, <1>3, <1>4, <1>5, <1>6, <1>7 DEF IInv

\* The saved row and the revocations become visible together.
LEMMA CommitsRows ==
  ASSUME IInv, NEW s \in Slots, pc[s] \in {"commit", "grant"}, CommitRows(s)
  PROVE  IInv'
<1>1. user[s] \in Users /\ snap[s] \in UserRow /\ snap[s].status = "present"
  BY DEF IInv, TypeOK, SubjectsKnown, WritersHaveRead, Written
<1>2. /\ tokens' = [t \in Tokens |-> IF tokenLock[t] = s THEN [tokens[t] EXCEPT !.state = "revoked"]
                                     ELSE tokens[t]]
      /\ users' = [users EXCEPT ![user[s]] = snap[s]]
      /\ Finish(s, "ok")
  BY DEF CommitRows
<1>3. ASSUME NEW t \in Tokens
      PROVE  /\ tokens'[t] \in TokenRow /\ tokens'[t].owner = tokens[t].owner
             /\ \/ tokens'[t].state = tokens[t].state
                \/ tokenLock[t] = s /\ tokens'[t].state = "revoked"
  <2>1. tokens[t] \in TokenRow BY DEF IInv, TypeOK
  <2> QED BY <1>2, <2>1, TokenMoves
<1>4. tokens' \in [Tokens -> TokenRow]
  <2>1. tokens' = [t \in Tokens |-> tokens'[t]] BY <1>2
  <2> QED BY <1>3, <2>1
<1>5. \A u \in Users : Present(u) => Present(u)'
  BY <1>1, <1>2 DEF IInv, TypeOK, Present
<1>6. /\ pc' = [pc EXCEPT ![s] = "done"] /\ answer' = [answer EXCEPT ![s] = "ok"]
      /\ userLock' = [u \in Users |-> IF userLock[u] = s THEN NoSlot ELSE userLock[u]]
      /\ tokenLock' = [t \in Tokens |-> IF tokenLock[t] = s THEN NoSlot ELSE tokenLock[t]]
      /\ UNCHANGED <<op, user, token, had>>
      /\ \A q \in Slots \ {s} : snap'[q] = snap[q]
  BY <1>2, Finishes
<1>7. TypeOK'              BY <1>1, <1>2, <1>4, <1>6, Finishes DEF IInv, TypeOK
<1>8. StagesFit'           BY <1>6 DEF IInv, TypeOK, StagesFit
<1>9. IssuedTokensOwned'   BY <1>3 DEF IInv, IssuedTokensOwned, LockedTokensExist
<1>10. SubjectsKnown'      BY <1>3, <1>6 DEF IInv, TypeOK, SubjectsKnown
<1>11. WritersHaveRead'    BY <1>6 DEF IInv, TypeOK, WritersHaveRead, Written
<1>12. LockedTokensExist'  BY <1>3, <1>6 DEF IInv, LockedTokensExist
<1>13. NoTokenWithoutUser'
  BY <1>3, <1>5 DEF IInv, NoTokenWithoutUser, LockedTokensExist, IssuedTokensOwned, Present
<1> QED BY <1>7, <1>8, <1>9, <1>10, <1>11, <1>12, <1>13 DEF IInv

LEMMA GrantsRoles ==
  ASSUME IInv, NEW s \in Slots, GrantRoles(s)
  PROVE  IInv'
<1>1. CASE Rollback(s) BY <1>1, Aborts DEF Rollback
<1> QED BY <1>1, CommitsRows DEF GrantRoles

\* The delete takes the user's tokens with it.
LEMMA Cascades ==
  ASSUME IInv, NEW s \in Slots, DeleteCascade(s)
  PROVE  IInv'
<1>1. user[s] \in Users /\ pc[s] \notin {"idle", "done"}
  BY DEF DeleteCascade, IInv, SubjectsKnown
<1>2. /\ tokens' = [t \in Tokens |-> IF tokens[t].owner = user[s]
                                     THEN [tokens[t] EXCEPT !.state = "gone"] ELSE tokens[t]]
      /\ users' = [users EXCEPT ![user[s]] = GoneUser]
      /\ \A t \in Tokens : tokens[t].owner = user[s] => tokenLock[t] = NoSlot
      /\ Finish(s, "ok")
  BY DEF DeleteCascade
<1>3. ASSUME NEW t \in Tokens
      PROVE  /\ tokens'[t] \in TokenRow /\ tokens'[t].owner = tokens[t].owner
             /\ \/ tokens[t].owner = user[s] /\ tokens'[t].state = "gone"
                \/ tokens[t].owner # user[s] /\ tokens'[t] = tokens[t]
  <2>1. tokens[t] \in TokenRow BY DEF IInv, TypeOK
  <2> QED BY <1>2, <2>1, TokenMoves
<1>4. tokens' \in [Tokens -> TokenRow]
  <2>1. tokens' = [t \in Tokens |-> tokens'[t]] BY <1>2
  <2> QED BY <1>3, <2>1
<1>5. \A u \in Users \ {user[s]} : Present(u) => Present(u)'
  BY <1>2 DEF IInv, TypeOK, Present
<1>6. /\ pc' = [pc EXCEPT ![s] = "done"] /\ answer' = [answer EXCEPT ![s] = "ok"]
      /\ userLock' = [u \in Users |-> IF userLock[u] = s THEN NoSlot ELSE userLock[u]]
      /\ tokenLock' = [t \in Tokens |-> IF tokenLock[t] = s THEN NoSlot ELSE tokenLock[t]]
      /\ UNCHANGED <<op, user, token, had>>
      /\ \A q \in Slots \ {s} : snap'[q] = snap[q]
  BY <1>2, Finishes
<1>7. TypeOK'              BY <1>2, <1>4, <1>6, Finishes, NullRows DEF IInv, TypeOK
<1>8. StagesFit'           BY <1>6 DEF IInv, TypeOK, StagesFit
<1>9. IssuedTokensOwned'   BY <1>1, <1>3 DEF IInv, IssuedTokensOwned
<1>10. SubjectsKnown'      BY <1>3, <1>6 DEF IInv, TypeOK, SubjectsKnown
<1>11. WritersHaveRead'    BY <1>6 DEF IInv, TypeOK, WritersHaveRead, Written
<1>12. LockedTokensExist'  BY <1>2, <1>3, <1>6 DEF IInv, LockedTokensExist
<1>13. NoTokenWithoutUser'
  BY <1>3, <1>5 DEF IInv, NoTokenWithoutUser, IssuedTokensOwned, Present
<1> QED BY <1>7, <1>8, <1>9, <1>10, <1>11, <1>12, <1>13 DEF IInv

LEMMA DeletesRow ==
  ASSUME IInv, NEW s \in Slots, DeleteRow(s)
  PROVE  IInv'
<1>1. user[s] \in Users BY DEF DeleteRow, IInv, SubjectsKnown
<1>2. CASE ~Present(user[s])
  BY <1>2, QuietMove DEF DeleteRow, Reply, Goto, tables, locks, subject, read, Stages, Written
<1>3. CASE Present(user[s])
  <2> USE <1>1, <1>3 DEF DeleteRow, Goto, tables, subject, read
  <2>1. TypeOK'             BY DEF IInv, TypeOK, Stages, Written
  <2>2. StagesFit'          BY DEF IInv, TypeOK, StagesFit
  <2>3. IssuedTokensOwned'  BY DEF IInv, IssuedTokensOwned
  <2>4. SubjectsKnown'      BY DEF IInv, TypeOK, SubjectsKnown
  <2>5. WritersHaveRead'    BY DEF IInv, TypeOK, WritersHaveRead, Written
  <2>6. LockedTokensExist'  BY DEF IInv, LockedTokensExist
  <2>7. NoTokenWithoutUser' BY DEF IInv, NoTokenWithoutUser, Present
  <2> QED BY <2>1, <2>2, <2>3, <2>4, <2>5, <2>6, <2>7 DEF IInv
<1> QED BY <1>2, <1>3

LEMMA Returns ==
  ASSUME IInv, NEW s \in Slots, Return(s)
  PROVE  IInv'
<1> USE DEF Return, Goto, tables, locks, read
<1>1. TypeOK'             BY NullRows DEF IInv, TypeOK, Stages, Written, Ops
<1>2. StagesFit'          BY DEF IInv, TypeOK, StagesFit
<1>3. IssuedTokensOwned'  BY DEF IInv, IssuedTokensOwned
<1>4. SubjectsKnown'      BY DEF IInv, TypeOK, SubjectsKnown
<1>5. WritersHaveRead'    BY DEF IInv, TypeOK, WritersHaveRead, Written
<1>6. LockedTokensExist'  BY DEF IInv, LockedTokensExist
<1>7. NoTokenWithoutUser' BY DEF IInv, NoTokenWithoutUser, Present
<1> QED BY <1>1, <1>2, <1>3, <1>4, <1>5, <1>6, <1>7 DEF IInv

LEMMA TokenExpiresSafely ==
  ASSUME IInv, NEW t \in Tokens, TokenExpires(t)
  PROVE  IInv'
<1> DEFINE row == [tokens[t] EXCEPT !.state = "expired"]
<1>1. tokens[t] \in TokenRow /\ tokens[t].state = "live" BY DEF TokenExpires, IInv, TypeOK
<1>2. row \in TokenRow /\ row.state = "expired" /\ row.owner = tokens[t].owner
  BY <1>1, TokenMoves
<1>3. tokens' = [tokens EXCEPT ![t] = row] BY DEF TokenExpires
<1> HIDE DEF row
<1>4. /\ tokens' \in [Tokens -> TokenRow]
      /\ \A q \in Tokens :
           /\ tokens'[q].owner = tokens[q].owner
           /\ \/ tokens'[q].state = tokens[q].state
              \/ /\ tokens[q].state \in {"live", "expired", "revoked"}
                 /\ tokens'[q].state \in {"expired", "revoked"}
  BY <1>1, <1>2, <1>3 DEF IInv, TypeOK
<1>5. UNCHANGED <<users, userLock, tokenLock, pc, op, answer, user, token, granter, snap, found,
                  stripped, had>>
  BY DEF TokenExpires, locks, subject, read
<1>6. TypeOK'             BY <1>4, <1>5 DEF IInv, TypeOK
<1>7. StagesFit'          BY <1>5 DEF IInv, StagesFit
<1>8. SubjectsKnown'      BY <1>4, <1>5, TokensMove DEF IInv, SubjectsKnown
<1>9. WritersHaveRead'    BY <1>5 DEF IInv, WritersHaveRead
<1>10. LockedTokensExist' BY <1>4, <1>5, TokensMove DEF IInv, LockedTokensExist
<1>11. IssuedTokensOwned' /\ NoTokenWithoutUser' BY <1>4, <1>5, TokensMove
<1> QED BY <1>6, <1>7, <1>8, <1>9, <1>10, <1>11 DEF IInv
-----------------------------------------------------------------------------
LEMMA StepSafe ==
  ASSUME IInv, NEW s \in Slots, Step(s)
  PROVE  IInv'
<1>1. CASE Reload(s)
  <2>1. op[s] \in {"login", "refresh"} /\ pc[s] = "reload" BY <1>1 DEF Reload, IInv, StagesFit
  <2>2. PICK p \in {"done", "issue", "revoke"}, a \in {"error", "refused"} :
          /\ pc' = [pc EXCEPT ![s] = p]
          /\ answer' = answer \/ answer' = [answer EXCEPT ![s] = a]
          /\ p = "revoke" => op[s] = "refresh"
    BY <1>1, <2>1 DEF Reload, Reply, Goto
  <2>3. UNCHANGED <<tables, locks, subject, read, had>> BY <1>1 DEF Reload
  <2> QED BY <2>1, <2>2, <2>3, QuietMove DEF Stages, Written
<1>2. CASE Stamp(s)
  BY <1>2, QuietMove DEF Stamp, Reply, Goto, Stages, Written
<1>3. CASE DeadlockVictim(s)
  BY <1>3, Aborts DEF DeadlockVictim, Rollback
<1> QED
  BY <1>1, <1>2, <1>3, RevokesOld, RevokesOne, Issues, Rotates, Saves, Scans, RevokesAll,
     CommitsRows, GrantsRoles, ChecksAddress, EntersAddress, RemovesRoles, DeletesRow, Cascades,
     Returns
  DEF Step, CommitUser

LEMMA Inductive ==
  ASSUME IInv, [Next]_vars
  PROVE  IInv'
<1>1. ASSUME NEW s \in Slots, DatabaseError(s) PROVE IInv'
  BY <1>1, Aborts DEF DatabaseError, Rollback
<1>2. CASE UNCHANGED vars
  BY <1>2 DEF vars, tables, locks, subject, read, IInv, TypeOK, StagesFit, IssuedTokensOwned,
              SubjectsKnown, WritersHaveRead, LockedTokensExist, NoTokenWithoutUser, Present
<1> QED BY <1>1, <1>2, ArrivalSafe, StepSafe, TokenExpiresSafely DEF Next

LEMMA Initially ==
  ASSUME Init
  PROVE  IInv
<1> USE DEF Init
<1>1. TypeOK             BY NullRows DEF TypeOK, Stages, Ops
<1>2. StagesFit          BY DEF StagesFit
<1>3. IssuedTokensOwned  BY DEF IssuedTokensOwned, FreeToken
<1>4. SubjectsKnown      BY DEF SubjectsKnown
<1>5. WritersHaveRead    BY DEF WritersHaveRead, Written
<1>6. LockedTokensExist  BY DEF LockedTokensExist
<1>7. NoTokenWithoutUser BY DEF NoTokenWithoutUser, FreeToken
<1> QED BY <1>1, <1>2, <1>3, <1>4, <1>5, <1>6, <1>7 DEF IInv

\* The invariant of SessionInv holds in every behaviour.
THEOREM InductiveInvariant == Spec => []IInv
<1>1. Init => IInv BY Initially
<1>2. IInv /\ [Next]_vars => IInv' BY Inductive
<1> QED BY <1>1, <1>2, PTL DEF Spec

\* Every variable keeps its type, whatever the requests do to each other.
THEOREM TypeCorrect == Spec => []TypeOK
<1>1. IInv => TypeOK BY DEF IInv
<1> QED BY <1>1, InductiveInvariant, PTL

\* No refresh token is left to a user that was deleted, and none comes back
\* with a user that a late Save inserts again.
THEOREM TokensHaveUsers == Spec => []NoTokenWithoutUser
<1>1. IInv => NoTokenWithoutUser BY DEF IInv
<1> QED BY <1>1, InductiveInvariant, PTL
-----------------------------------------------------------------------------
(* A password change ends the sessions there were                          *)

\* The steps that write a table.
Writes(s) == \/ RevokeOne(s) \/ \E t \in Tokens : Issue(s, t)
             \/ \E t \in Tokens : Rotate(s, t) /\ ~Rollback(s)
             \/ pc[s] \in {"commit", "grant"} /\ CommitRows(s)
             \/ DeleteCascade(s)

LEMMA OnlyWritesWrite ==
  ASSUME IInv, NEW s \in Slots, Arrival(s) \/ Step(s) \/ DatabaseError(s)
  PROVE  UNCHANGED tables \/ Writes(s)
<1>1. CASE Arrival(s) BY <1>1, Arrivals DEF Arrived
<1>2. CASE Rollback(s) BY <1>2 DEF Rollback
<1>3. CASE DatabaseError(s) BY <1>2, <1>3 DEF DatabaseError
<1>4. CASE Step(s)
  <2>1. CASE Reload(s) \/ Stamp(s) \/ RevokeOld(s) BY <2>1 DEF Reload, Stamp, RevokeOld
  <2>2. CASE CheckAddress(s) \/ Save(s) \/ EnterAddress(s)
    BY <1>2, <2>2 DEF CheckAddress, Save, EnterAddress
  <2>3. CASE RemoveRoles(s) \/ Scan(s) \/ RevokeAll(s) BY <2>3 DEF RemoveRoles, Scan, RevokeAll
  <2>4. CASE DeleteRow(s) \/ Return(s) BY <2>4 DEF DeleteRow, Return, tables
  <2>5. CASE DeadlockVictim(s) BY <1>2, <2>5 DEF DeadlockVictim
  <2>6. CASE CommitUser(s) \/ GrantRoles(s) BY <1>2, <2>6 DEF CommitUser, GrantRoles, Writes
  <2>7. CASE \E t \in Tokens : Rotate(s, t) BY <1>2, <2>7 DEF Writes
  <2> QED BY <1>4, <2>1, <2>2, <2>3, <2>4, <2>5, <2>6, <2>7 DEF Step, Writes
<1> QED BY <1>1, <1>3, <1>4

\* A request moves its own slot and takes or releases rows for nobody else.
LEMMA OthersStay ==
  ASSUME IInv, NEW q \in Slots, Arrival(q) \/ Step(q) \/ DatabaseError(q),
         NEW s \in Slots, s # q
  PROVE  /\ pc'[s] = pc[s] /\ op'[s] = op[s] /\ answer'[s] = answer[s] /\ user'[s] = user[s]
         /\ token'[s] = token[s] /\ snap'[s] = snap[s] /\ found'[s] = found[s] /\ had'[s] = had[s]
         /\ \A t \in Tokens : tokenLock[t] = s <=> tokenLock'[t] = s
         /\ \A u \in Users : userLock[u] = s <=> userLock'[u] = s
<1> DEFINE Same ==
      /\ pc'[s] = pc[s] /\ op'[s] = op[s] /\ answer'[s] = answer[s] /\ user'[s] = user[s]
      /\ token'[s] = token[s] /\ snap'[s] = snap[s] /\ found'[s] = found[s] /\ had'[s] = had[s]
      /\ \A t \in Tokens : tokenLock[t] = s <=> tokenLock'[t] = s
      /\ \A u \in Users : userLock[u] = s <=> userLock'[u] = s
<1> SUFFICES Same OBVIOUS
<1>0. ASSUME NEW a \in {"ok", "refused", "error"}, Finish(q, a) PROVE Same
  BY <1>0, Finishes DEF IInv, TypeOK
<1>1. CASE Arrival(q)
  <2>1. PICK o \in Ops, u \in Users, t \in Tokens \cup {NoToken},
             p \in {"reload", "revoke", "check", "save", "delete", "done"},
             g \in Users \cup {NoUser}, r \in UserRow : Arrived(q, o, u, t, p, g, r)
    BY <1>1, Arrivals
  <2> QED BY <2>1 DEF Arrived, Arrive, locks, IInv, TypeOK
<1>2. CASE DatabaseError(q) BY <1>0, <1>2 DEF DatabaseError, Rollback
<1>3. CASE Step(q)
  <2> USE DEF IInv, TypeOK, Reply, Goto, tables, locks, subject, read
  <2>1. CASE Reload(q) \/ Stamp(q) \/ RevokeOld(q) \/ RevokeOne(q)
    BY <2>1 DEF Reload, Stamp, RevokeOld, RevokeOne
  <2>2. ASSUME NEW t \in Tokens, Issue(q, t) PROVE Same BY <2>2 DEF Issue
  <2>3. CASE Save(q) \/ Scan(q) BY <2>3 DEF Save, Scan
  <2>4. CASE RemoveRoles(q) \/ RevokeAll(q) BY <2>4 DEF RemoveRoles, RevokeAll
  <2>5. CASE DeleteRow(q) \/ Return(q) BY <2>5 DEF DeleteRow, Return
  <2> HIDE DEF Same, IInv, TypeOK, Reply, locks, subject, read
  <2>6. ASSUME NEW p, Goto(q, p), UNCHANGED <<locks, subject, answer, read, had>> PROVE Same
    BY <2>6 DEF Same, IInv, TypeOK, Goto, locks, subject, read
  <2>7. CASE CheckAddress(q) \/ EnterAddress(q)
    BY <1>0, <2>6, <2>7 DEF CheckAddress, EnterAddress, Rollback
  <2>8. ASSUME NEW t \in Tokens, Rotate(q, t) PROVE Same BY <1>0, <2>8 DEF Rotate, Rollback
  <2>9. CASE CommitUser(q) \/ GrantRoles(q) \/ DeleteCascade(q)
    BY <1>0, <2>9 DEF CommitUser, GrantRoles, CommitRows, DeleteCascade, Rollback
  <2>10. CASE DeadlockVictim(q) BY <1>0, <2>10 DEF DeadlockVictim, Rollback
  <2> QED BY <1>3, <2>1, <2>2, <2>3, <2>4, <2>5, <2>7, <2>8, <2>9, <2>10 DEF Step
<1> QED BY <1>1, <1>2, <1>3

\* A token that has died stays dead, and a token keeps its owner.
LEMMA NoTokenReturns ==
  ASSUME IInv, [Next]_vars, NEW t \in Tokens, tokens[t].state # "free"
  PROVE  /\ tokens'[t].state # "free" /\ tokens'[t].owner = tokens[t].owner
         /\ tokens'[t].state = "live" => tokens[t].state = "live"
<1> DEFINE Fate == /\ tokens'[t].state # "free" /\ tokens'[t].owner = tokens[t].owner
                   /\ tokens'[t].state = "live" => tokens[t].state = "live"
<1>0. tokens[t] \in TokenRow /\ tokens \in [Tokens -> TokenRow] BY DEF IInv, TypeOK
<1>1. ASSUME tokens' = tokens PROVE Fate BY <1>1
<1>2. ASSUME NEW st \in {"revoked", "gone", "expired"}, tokens'[t] = [tokens[t] EXCEPT !.state = st]
      PROVE  Fate
  BY <1>0, <1>2, TokenMoves
<1> HIDE DEF Fate
<1>3. ASSUME NEW q \in Slots, Writes(q) PROVE Fate
  <2>1. CASE RevokeOne(q)
    <3>1. token[q] \in Tokens BY <2>1 DEF RevokeOne, IInv, SubjectsKnown
    <3>2. tokens' = tokens \/ tokens' = [tokens EXCEPT ![token[q]] =
                                          [tokens[token[q]] EXCEPT !.state = "revoked"]]
      BY <2>1 DEF RevokeOne
    <3>3. tokens' = tokens \/ tokens'[t] = tokens[t]
          \/ tokens'[t] = [tokens[t] EXCEPT !.state = "revoked"]
      BY <1>0, <3>1, <3>2
    <3> QED BY <1>1, <1>2, <3>3 DEF Fate
  <2>2. CASE \E r \in Tokens : Issue(q, r)
    BY <1>0, <2>2 DEF Issue, Draw, Fate
  <2>3. CASE \E r \in Tokens : Rotate(q, r) /\ ~Rollback(q)
    <3>1. tokens'[t] = tokens[t] \/ tokens'[t] = [tokens[t] EXCEPT !.state = "revoked"]
      BY <2>3 DEF Rotate, Draw
    <3> QED BY <1>1, <1>2, <3>1 DEF Fate
  <2>4. CASE CommitRows(q)
    <3>1. tokens'[t] = tokens[t] \/ tokens'[t] = [tokens[t] EXCEPT !.state = "revoked"]
      BY <2>4 DEF CommitRows
    <3> QED BY <1>2, <3>1 DEF Fate
  <2>5. CASE DeleteCascade(q)
    <3>1. tokens'[t] = tokens[t] \/ tokens'[t] = [tokens[t] EXCEPT !.state = "gone"]
      BY <2>5 DEF DeleteCascade
    <3> QED BY <1>2, <3>1 DEF Fate
  <2> QED BY <1>3, <2>1, <2>2, <2>3, <2>4, <2>5 DEF Writes
<1>4. ASSUME NEW q \in Slots, Arrival(q) \/ Step(q) \/ DatabaseError(q) PROVE Fate
  BY <1>1, <1>3, <1>4, OnlyWritesWrite DEF tables
<1>5. ASSUME NEW r \in Tokens, TokenExpires(r) PROVE Fate
  <2>1. tokens' = [tokens EXCEPT ![r] = [tokens[r] EXCEPT !.state = "expired"]]
    BY <1>5 DEF TokenExpires
  <2>2. tokens'[t] = tokens[t] \/ tokens'[t] = [tokens[t] EXCEPT !.state = "expired"]
    BY <1>0, <2>1
  <2> QED BY <1>2, <2>2 DEF Fate
<1>6. Fate BY <1>1, <1>4, <1>5 DEF Next, vars, tables
<1> QED BY <1>6 DEF Fate

\* The tokens that a request has noted were issued, and the steps of others only
\* let them die.
LEMMA KeptByOthers ==
  ASSUME IInv, NEW s \in Slots, PasswordPart(s), [Next]_vars,
         pc'[s] = pc[s], op'[s] = op[s], answer'[s] = answer[s], user'[s] = user[s],
         found'[s] = found[s], had'[s] = had[s],
         \A t \in Tokens : tokenLock[t] = s => tokenLock'[t] = s
  PROVE  PasswordPart(s)'
<1>1. had[s] \subseteq Tokens BY DEF IInv, TypeOK
<1>2. \A t \in had[s] : /\ tokens'[t].state # "free" /\ tokens'[t].owner = tokens[t].owner
                        /\ tokens'[t].state = "live" => tokens[t].state = "live"
  BY <1>1, NoTokenReturns DEF PasswordPart
<1> USE DEF PasswordPart, PasswordChangeCovers
<1>3. CASE op[s] # "password" BY <1>2, <1>3
<1>4. CASE op[s] = "password" /\ pc[s] \in {"save", "address", "scan"} BY <1>2, <1>4
<1>5. CASE op[s] = "password" /\ pc[s] = "revokeall" BY <1>2, <1>5
<1>6. CASE op[s] = "password" /\ pc[s] = "commit" BY <1>1, <1>2, <1>6
<1>7. CASE op[s] = "password" /\ pc[s] = "done" BY <1>2, <1>7
<1> QED BY <1>3, <1>4, <1>5, <1>6, <1>7

LEMMA KeptByArrival ==
  ASSUME IInv, NEW s \in Slots, PasswordPart(s), Arrival(s)
  PROVE  PasswordPart(s)'
<1>1. PICK o \in Ops, u \in Users, t \in Tokens \cup {NoToken},
           p \in {"reload", "revoke", "check", "save", "delete", "done"},
           g \in Users \cup {NoUser}, r \in UserRow : Arrived(s, o, u, t, p, g, r)
  BY Arrivals
<1>2. /\ UNCHANGED <<tokens, had>> /\ pc'[s] = p /\ op'[s] = o
      /\ p = "done" /\ o = "password" => answer'[s] = "refused"
      /\ o = "password" => p \in {"save", "done"}
  BY <1>1 DEF Arrived, Arrive, tables, IInv, TypeOK
<1> QED BY <1>2 DEF PasswordPart, PasswordChangeCovers

\* A request that is not answered "ok" goes back on nothing it has promised.
LEMMA KeptByFailure ==
  ASSUME IInv, NEW s \in Slots, PasswordPart(s), NEW a \in {"refused", "error"}, Finish(s, a),
         UNCHANGED tables
  PROVE  PasswordPart(s)'
<1>1. pc'[s] = "done" /\ answer'[s] = a /\ UNCHANGED <<op, had, tokens>>
  BY Finishes DEF tables, IInv, TypeOK
<1> QED BY <1>1 DEF PasswordPart, PasswordChangeCovers

LEMMA KeptByStep ==
  ASSUME IInv, NEW s \in Slots, PasswordPart(s), Step(s) \/ DatabaseError(s)
  PROVE  PasswordPart(s)'
<1>0. /\ had[s] \subseteq Tokens
      /\ \A t \in had[s] : /\ tokens'[t].state # "free" /\ tokens'[t].owner = tokens[t].owner
                           /\ tokens'[t].state = "live" => tokens[t].state = "live"
  BY NoTokenReturns DEF Next, IInv, TypeOK, PasswordPart
<1>3. CASE Rollback(s) BY <1>3, KeptByFailure DEF Rollback
<1>5. CASE Save(s)
  <2>1. /\ pc[s] = "save" /\ UNCHANGED <<tokens, op, user>>
        /\ had'[s] = IF op[s] = "password" THEN TokensOf(user[s], {"live"}) ELSE had[s]
        /\ pc'[s] \in {"address", AfterRow(s)}
    BY <1>5 DEF Save, Goto, tables, subject, IInv, TypeOK
  <2> QED BY <1>0, <2>1 DEF PasswordPart, PasswordChangeCovers, TokensOf, AfterRow, tables
<1>8. CASE CommitRows(s) /\ pc[s] \in {"commit", "grant"}
  <2>1. \A t \in Tokens : tokenLock[t] = s => tokens'[t].state = "revoked"
    BY <1>8, TokenMoves DEF CommitRows, IInv, TypeOK
  <2>2. pc'[s] = "done" /\ UNCHANGED <<op, had>>
    BY <1>8, Finishes DEF CommitRows, IInv, TypeOK
  <2> QED BY <1>0, <1>8, <2>1, <2>2 DEF PasswordPart, PasswordChangeCovers
<1>11. CASE EnterAddress(s)
  <2>1. CASE Goto(s, AfterRow(s)) /\ UNCHANGED <<tables, locks, subject, answer, read, had>>
    <3>1. pc[s] = "address" /\ pc'[s] = AfterRow(s) /\ UNCHANGED <<tables, subject, had>>
      BY <1>11, <2>1 DEF EnterAddress, Goto, IInv, TypeOK
    <3> QED BY <1>0, <3>1 DEF PasswordPart, PasswordChangeCovers, AfterRow, tables, subject
  <2> QED BY <1>3, <1>11, <2>1 DEF EnterAddress
<1>12. CASE CheckAddress(s)
  <2>1. CASE Finish(s, "refused") BY <1>12, <2>1, KeptByFailure DEF CheckAddress
  <2>2. CASE Goto(s, "save") /\ UNCHANGED <<locks, subject, answer, read, had>>
    <3>1. pc[s] = "check" /\ pc'[s] = "save" /\ UNCHANGED <<tables, subject, had>>
      BY <1>12, <2>2 DEF CheckAddress, Goto, IInv, TypeOK
    <3> QED BY <1>0, <3>1 DEF PasswordPart, PasswordChangeCovers, subject
  <2> QED BY <1>12, <2>1, <2>2 DEF CheckAddress
<1>13. CASE \E t \in Tokens : Rotate(s, t)
  <2>1. CASE Finish(s, "ok")
    <3>1. pc[s] = "rotate" /\ pc'[s] = "done" /\ UNCHANGED <<op, had>>
      BY <1>13, <2>1, Finishes DEF Rotate, IInv, TypeOK
    <3> QED BY <1>0, <3>1 DEF PasswordPart
  <2> QED BY <1>3, <1>13, <2>1 DEF Rotate
<1>9. CASE DeleteCascade(s)
  <2>1. pc[s] = "cascade" /\ pc'[s] = "done" /\ UNCHANGED <<op, had>>
    BY <1>9, Finishes DEF DeleteCascade, IInv, TypeOK
  <2> QED BY <1>0, <2>1 DEF PasswordPart
<1>14. CASE RemoveRoles(s)
  <2>1. pc[s] = "roles" /\ pc'[s] \in {"grant", "commit"} /\ UNCHANGED <<op, had>>
    BY <1>14 DEF RemoveRoles, Goto, subject, IInv, TypeOK
  <2> QED BY <1>0, <2>1 DEF PasswordPart
<1> USE DEF IInv, TypeOK, PasswordPart, PasswordChangeCovers, Reply, Goto, tables, locks, subject, read
<1>1. CASE Reload(s) \/ Stamp(s) \/ RevokeOld(s) \/ RevokeOne(s)
  BY <1>0, <1>1 DEF Reload, Stamp, RevokeOld, RevokeOne, StagesFit
<1>2. CASE \E t \in Tokens : Issue(s, t)
  BY <1>0, <1>2 DEF Issue
<1>6. CASE Scan(s)
  <2>1. found'[s] = TokensOf(user[s], {"live", "expired"}) BY <1>6 DEF Scan
  <2> QED BY <1>0, <1>6, <2>1 DEF Scan, TokensOf
<1>7. CASE RevokeAll(s)
  BY <1>0, <1>7 DEF RevokeAll
<1>10. CASE DeleteRow(s) \/ Return(s) BY <1>0, <1>10 DEF DeleteRow, Return
<1> HIDE DEF IInv, TypeOK, PasswordPart, PasswordChangeCovers, Reply, Goto, tables, locks, subject, read
<1> QED BY <1>1, <1>2, <1>3, <1>5, <1>6, <1>7, <1>8, <1>9, <1>10, <1>11, <1>12, <1>13, <1>14
        DEF Step, CommitUser, GrantRoles, DeadlockVictim, DatabaseError

LEMMA PasswordInductive ==
  ASSUME IInv, PasswordInv, [Next]_vars
  PROVE  PasswordInv'
<1> SUFFICES ASSUME NEW s \in Slots PROVE PasswordPart(s)'
  BY DEF PasswordInv
<1>1. PasswordPart(s) BY DEF PasswordInv
<1>2. CASE Arrival(s) BY <1>1, <1>2, KeptByArrival
<1>3. CASE Step(s) \/ DatabaseError(s) BY <1>1, <1>3, KeptByStep
<1>4. ASSUME NEW q \in Slots, q # s, Arrival(q) \/ Step(q) \/ DatabaseError(q)
      PROVE  PasswordPart(s)'
  BY <1>1, <1>4, OthersStay, KeptByOthers
<1>5. ASSUME NEW t \in Tokens, TokenExpires(t) PROVE PasswordPart(s)'
  BY <1>1, <1>5, KeptByOthers DEF TokenExpires, locks, subject, read
<1>6. CASE UNCHANGED vars BY <1>1, <1>6, KeptByOthers DEF vars, locks, subject, read
<1> QED BY <1>2, <1>3, <1>4, <1>5, <1>6 DEF Next

\* Whatever session a user had when a new password was saved is over when the
\* change is answered, for any number of refreshes, logouts and deletes that
\* hold or rotate its tokens meanwhile, and whichever of them fail.
THEOREM PasswordChangeIsEffective == Spec => []PasswordChangeEndsSessions
<1>1. Init => PasswordInv
  BY DEF Init, PasswordInv, PasswordPart
<1>2. IInv /\ PasswordInv /\ [Next]_vars => PasswordInv' BY PasswordInductive
<1>3. PasswordInv => PasswordChangeEndsSessions
  BY DEF PasswordInv, PasswordPart, PasswordChangeCovers, PasswordChangeEndsSessions
<1> QED BY <1>1, <1>2, <1>3, InductiveInvariant, PTL DEF Spec
-----------------------------------------------------------------------------
(* Sessions end for a reason                                               *)

LEMMA ReasonKeptByOthers ==
  ASSUME IInv, NEW s \in Slots, ReasonPart(s), [Next]_vars,
         pc'[s] = pc[s], op'[s] = op[s], user'[s] = user[s], token'[s] = token[s],
         found'[s] = found[s], \A t \in Tokens : tokenLock[t] = s <=> tokenLock'[t] = s
  PROVE  ReasonPart(s)'
<1>1. found[s] \subseteq Tokens BY DEF IInv, TypeOK
<1>2. \A t \in Tokens : tokens[t].state # "free" =>
        tokens'[t].state # "free" /\ tokens'[t].owner = tokens[t].owner
  BY NoTokenReturns
<1>3. op[s] \in {"refresh", "logout"} => token[s] \in Tokens /\ tokens[token[s]].state # "free"
  BY DEF IInv, SubjectsKnown
<1>4. \A t \in Tokens : tokenLock[t] = s => tokens[t].state # "free"
  BY DEF IInv, LockedTokensExist
<1> QED BY <1>1, <1>2, <1>3, <1>4 DEF ReasonPart

\* A request that arrives holds nothing, and a token it presents is its user's.
LEMMA ReasonKeptByArrival ==
  ASSUME IInv, NEW s \in Slots, ReasonPart(s), Arrival(s)
  PROVE  ReasonPart(s)'
<1>1. PICK o \in Ops, u \in Users, t \in Tokens \cup {NoToken},
           p \in {"reload", "revoke", "check", "save", "delete", "done"},
           g \in Users \cup {NoUser}, r \in UserRow : Arrived(s, o, u, t, p, g, r)
  BY Arrivals
<1>2. /\ pc[s] = "idle" /\ UNCHANGED <<tokens, tokenLock>> /\ op'[s] = o
      /\ pc'[s] = p /\ p \in {"reload", "revoke", "check", "save", "delete", "done"}
      /\ user'[s] = u /\ token'[s] = t
      /\ p = "delete" => o = "delete"
      /\ o \in {"refresh", "logout"} => u = tokens[t].owner
  BY <1>1 DEF Arrived, Arrive, tables, locks, IInv, TypeOK
<1> QED BY <1>2 DEF ReasonPart

\* An answer gives back the tokens.
LEMMA ReasonKeptByFinish ==
  ASSUME IInv, NEW s \in Slots, ReasonPart(s), Step(s) \/ DatabaseError(s),
         NEW a \in {"ok", "refused", "error"}, Finish(s, a)
  PROVE  ReasonPart(s)'
<1>1. \A t \in Tokens : tokens[t].state # "free" =>
        tokens'[t].state # "free" /\ tokens'[t].owner = tokens[t].owner
  BY NoTokenReturns DEF Next
<1>2. op[s] \in {"refresh", "logout"} => token[s] \in Tokens /\ tokens[token[s]].state # "free"
  BY DEF IInv, SubjectsKnown
<1>3. /\ UNCHANGED <<op, user, token>> /\ pc'[s] = "done" /\ \A t \in Tokens : tokenLock'[t] # s
  BY Finishes DEF IInv, TypeOK
<1> QED BY <1>1, <1>2, <1>3 DEF ReasonPart

\* A transaction takes the token it revokes, or those a password change has found.
LEMMA ReasonKeptByStep ==
  ASSUME IInv, NEW s \in Slots, PasswordPart(s), ReasonPart(s), Step(s) \/ DatabaseError(s)
  PROVE  ReasonPart(s)'
<1> USE DEF Goto, Reply, tables, locks, subject, read
<1>1. ASSUME NEW a \in {"ok", "refused", "error"}, Finish(s, a) PROVE ReasonPart(s)'
  BY <1>1, ReasonKeptByFinish
<1>2. \A t \in Tokens : tokens[t].state # "free" =>
        tokens'[t].state # "free" /\ tokens'[t].owner = tokens[t].owner
  BY NoTokenReturns DEF Next
<1>3. op[s] \in {"refresh", "logout"} => token[s] \in Tokens /\ tokens[token[s]].state # "free"
  BY DEF IInv, SubjectsKnown
<1>4. \A t \in Tokens : tokenLock[t] = s => tokens[t].state # "free"
  BY DEF IInv, LockedTokensExist
<1>5. ASSUME UNCHANGED <<op, user, token, tokenLock>>,
             pc'[s] \in {"issue", "stamp", "revoke", "save", "scan", "roles", "grant", "commit", "done"},
             pc[s] \in {"reload", "issue", "stamp", "revoke", "check", "address", "roles"}
      PROVE  ReasonPart(s)'
  BY <1>2, <1>3, <1>4, <1>5 DEF ReasonPart
<1>6. CASE Reload(s) \/ Stamp(s) \/ RevokeOne(s)
  BY <1>5, <1>6 DEF Reload, Stamp, RevokeOne, IInv, TypeOK
<1>7. CASE \E t \in Tokens : Issue(s, t) BY <1>5, <1>7 DEF Issue, IInv, TypeOK
<1>8. CASE CheckAddress(s) \/ EnterAddress(s)
  BY <1>1, <1>5, <1>8 DEF CheckAddress, EnterAddress, Rollback, AfterRow, IInv, TypeOK
<1>9. CASE RemoveRoles(s) BY <1>5, <1>9 DEF RemoveRoles, IInv, TypeOK
<1>10. CASE CommitUser(s) \/ GrantRoles(s) \/ DeleteCascade(s)
  BY <1>1, <1>10 DEF CommitUser, GrantRoles, CommitRows, DeleteCascade, Rollback
<1>11. CASE \E t \in Tokens : Rotate(s, t) BY <1>1, <1>11 DEF Rotate, Rollback
<1>12. CASE DeadlockVictim(s) \/ DatabaseError(s)
  BY <1>1, <1>12 DEF DeadlockVictim, DatabaseError, Rollback
<1> USE DEF IInv, TypeOK
<1>13. CASE RevokeOld(s) BY <1>13 DEF RevokeOld, ReasonPart
<1>14. CASE Save(s) BY <1>14 DEF Save, AfterRow, ReasonPart
<1>15. CASE Scan(s)
  <2>1. /\ pc[s] = "scan" /\ pc'[s] = "revokeall"
        /\ found'[s] = TokensOf(user[s], {"live", "expired"})
        /\ UNCHANGED <<tokens, tokenLock, op, user, token>>
    BY <1>15 DEF Scan
  <2> QED BY <2>1 DEF ReasonPart, TokensOf
<1>16. CASE RevokeAll(s)
  <2>1. op[s] = "password" BY <1>16 DEF RevokeAll, PasswordPart
  <2>2. /\ pc[s] = "revokeall" /\ pc'[s] = "commit"
        /\ \A t \in Tokens : tokenLock'[t] = s => tokenLock[t] = s \/ t \in found[s]
        /\ UNCHANGED <<tokens, op, user, token>>
    BY <1>16 DEF RevokeAll
  <2> QED BY <2>1, <2>2 DEF ReasonPart
<1>17. CASE DeleteRow(s) BY <1>17 DEF DeleteRow, ReasonPart
<1>18. CASE Return(s) BY <1>18 DEF Return, ReasonPart
<1> HIDE DEF IInv, TypeOK, Goto, Reply, tables, locks, subject, read
<1> QED BY <1>6, <1>7, <1>8, <1>9, <1>10, <1>11, <1>12, <1>13, <1>14, <1>15, <1>16, <1>17, <1>18
        DEF Step

LEMMA ReasonInductive ==
  ASSUME IInv, PasswordInv, ReasonInv, [Next]_vars
  PROVE  ReasonInv'
<1> SUFFICES ASSUME NEW s \in Slots PROVE ReasonPart(s)'
  BY DEF ReasonInv
<1>1. ReasonPart(s) /\ PasswordPart(s) BY DEF ReasonInv, PasswordInv
<1>2. CASE Arrival(s) BY <1>1, <1>2, ReasonKeptByArrival
<1>3. CASE Step(s) \/ DatabaseError(s) BY <1>1, <1>3, ReasonKeptByStep
<1>4. ASSUME NEW q \in Slots, q # s, Arrival(q) \/ Step(q) \/ DatabaseError(q)
      PROVE  ReasonPart(s)'
  BY <1>1, <1>4, OthersStay, ReasonKeptByOthers
<1>5. ASSUME NEW t \in Tokens, TokenExpires(t) PROVE ReasonPart(s)'
  BY <1>1, <1>5, ReasonKeptByOthers DEF TokenExpires, locks, subject, read
<1>6. CASE UNCHANGED vars BY <1>1, <1>6, ReasonKeptByOthers DEF vars, locks, subject, read
<1> QED BY <1>2, <1>3, <1>4, <1>5, <1>6 DEF Next

\* What the step of s that ends token t must be.
EndedBy(s, t) ==
  /\ pc[s] # "done" /\ pc'[s] = "done" /\ answer'[s] = "ok"
  /\ user[s] = tokens[t].owner
  /\ \/ op[s] = "refresh" /\ token[s] = t /\ tokens'[t].state = "revoked"
        /\ \E q \in Tokens : tokens[q].state = "free" /\ tokens'[q] = LiveToken(user[s])
     \/ op[s] = "logout" /\ token[s] = t /\ tokens'[t].state = "revoked"
     \/ op[s] = "password" /\ tokens'[t].state = "revoked"
     \/ op[s] = "delete" /\ tokens'[t].state = "gone"

LEMMA WriteHasReason ==
  ASSUME IInv, NEW s \in Slots, ReasonPart(s), Writes(s), NEW t \in Tokens,
         tokens[t].state = "live", tokens'[t].state \in {"revoked", "gone"}
  PROVE  EndedBy(s, t)
<1>0. tokens[t] \in TokenRow BY DEF IInv, TypeOK
<1>1. CASE RevokeOne(s)
  <2> USE DEF IInv, TypeOK, Reply, Goto
  <2>1. token[s] \in Tokens BY <1>1 DEF RevokeOne, SubjectsKnown
  <2>2. t = token[s] BY <1>1, <2>1 DEF RevokeOne
  <2>3. tokens'[t] = [tokens[t] EXCEPT !.state = "revoked"] BY <1>1, <2>2 DEF RevokeOne
  <2>4. tokens'[t].state = "revoked" BY <1>0, <2>3, TokenMoves
  <2> QED BY <1>1, <2>2, <2>4 DEF RevokeOne, ReasonPart, EndedBy
<1>2. ASSUME NEW r \in Tokens, Issue(s, r) PROVE EndedBy(s, t)
  BY <1>2 DEF Issue, Draw, IInv, TypeOK
<1>3. ASSUME Finish(s, "ok") PROVE pc'[s] = "done" /\ answer'[s] = "ok"
  BY <1>3, Finishes DEF IInv, TypeOK
<1>4. ASSUME NEW r \in Tokens, Rotate(s, r), ~Rollback(s) PROVE EndedBy(s, t)
  <2>1. /\ pc[s] = "rotate" /\ pc'[s] = "done" /\ answer'[s] = "ok"
        /\ tokens[r].state = "free" /\ r # t /\ tokens'[r] = LiveToken(user[s])
        /\ tokens'[t] = IF tokenLock[t] = s THEN [tokens[t] EXCEPT !.state = "revoked"]
                        ELSE tokens[t]
    BY <1>3, <1>4 DEF Rotate, Draw
  <2>2. tokenLock[t] = s BY <2>1
  <2>3. tokens'[t].state = "revoked" BY <1>0, <2>1, <2>2, TokenMoves
  <2> QED BY <2>1, <2>2, <2>3 DEF ReasonPart, EndedBy
<1>5. CASE pc[s] \in {"commit", "grant"} /\ CommitRows(s)
  <2>1. /\ pc'[s] = "done" /\ answer'[s] = "ok"
        /\ tokens'[t] = IF tokenLock[t] = s THEN [tokens[t] EXCEPT !.state = "revoked"]
                        ELSE tokens[t]
    BY <1>3, <1>5 DEF CommitRows
  <2>2. tokenLock[t] = s BY <2>1
  <2>3. tokens'[t].state = "revoked" BY <1>0, <2>1, <2>2, TokenMoves
  <2> QED BY <1>5, <2>1, <2>2, <2>3 DEF ReasonPart, EndedBy
<1>6. CASE DeleteCascade(s)
  <2>1. /\ pc[s] = "cascade" /\ pc'[s] = "done" /\ answer'[s] = "ok"
        /\ tokens'[t] = IF tokens[t].owner = user[s] THEN [tokens[t] EXCEPT !.state = "gone"]
                        ELSE tokens[t]
    BY <1>3, <1>6 DEF DeleteCascade
  <2>2. tokens[t].owner = user[s] BY <2>1
  <2>3. tokens'[t].state = "gone" BY <1>0, <2>1, <2>2, TokenMoves
  <2> QED BY <2>1, <2>2, <2>3 DEF ReasonPart, EndedBy
<1> QED BY <1>1, <1>2, <1>4, <1>5, <1>6 DEF Writes

LEMMA EndHasReason ==
  ASSUME IInv, ReasonInv, [Next]_vars, NEW t \in Tokens,
         tokens[t].state = "live", tokens'[t].state \in {"revoked", "gone"}
  PROVE  \E s \in Slots : EndedBy(s, t)
<1>1. ASSUME NEW r \in Tokens, TokenExpires(r) PROVE tokens'[t].state \in {"live", "expired"}
  <2>1. tokens \in [Tokens -> TokenRow] BY DEF IInv, TypeOK
  <2>2. tokens' = [tokens EXCEPT ![r] = [tokens[r] EXCEPT !.state = "expired"]]
    BY <1>1 DEF TokenExpires
  <2>3. tokens'[t] = tokens[t] \/ tokens'[t] = [tokens[t] EXCEPT !.state = "expired"]
    BY <2>1, <2>2
  <2> QED BY <2>1, <2>3, TokenMoves
<1>2. ~UNCHANGED tables BY DEF tables
<1>3. PICK s \in Slots : Arrival(s) \/ Step(s) \/ DatabaseError(s)
  BY <1>1, <1>2 DEF Next, vars
<1>4. Writes(s) BY <1>2, <1>3, OnlyWritesWrite
<1> QED BY <1>4, WriteHasReason DEF ReasonInv

\* No session ends behind its owner's back: whatever revokes a live token is the
\* refresh that hands it on, in the same commit, a logout with it, or a password
\* change of its owner, and only the delete of its owner removes it.
THEOREM SessionsEndForAReason == Spec => SessionEndsForAReason
<1>1. Init => IInv /\ PasswordInv /\ ReasonInv
  BY Initially DEF Init, PasswordInv, PasswordPart, ReasonInv, ReasonPart, FreeToken
<1>2. IInv /\ PasswordInv /\ ReasonInv /\ [Next]_vars => (IInv /\ PasswordInv /\ ReasonInv)'
  BY Inductive, PasswordInductive, ReasonInductive
<1>3. IInv /\ ReasonInv /\ [Next]_vars
        => [\A t \in Tokens :
              tokens[t].state = "live" /\ tokens'[t].state \in {"revoked", "gone"}
                => \E s \in Slots : EndedBy(s, t)]_vars
  BY EndHasReason
<1> QED BY <1>1, <1>2, <1>3, PTL DEF Spec, SessionEndsForAReason, EndedBy
(* Users rows and who holds them                                           *)

\* A users row is written by a request about that user, from the stages of a
\* transaction, and never becomes one that was not drawn yet.
LEMMA UsersWritten ==
  ASSUME IInv, NEW q \in Slots, Arrival(q) \/ Step(q) \/ DatabaseError(q), NEW u \in Users
  PROVE  \/ users'[u] = users[u]
         \/ /\ user[q] = u /\ pc'[q] = "done" /\ users'[u].status # "free"
            /\ \/ pc[q] \in {"commit", "grant"} /\ users'[u].status = "present"
               \/ pc[q] = "cascade"
<1>1. CASE Writes(q)
  <2>0. ASSUME Finish(q, "ok") PROVE pc'[q] = "done" BY <2>0, Finishes DEF IInv, TypeOK
  <2>1. CASE pc[q] \in {"commit", "grant"} /\ CommitRows(q)
    <3>1. snap[q].status = "present" /\ user[q] \in Users
      BY <2>1 DEF IInv, WritersHaveRead, SubjectsKnown, Written
    <3>2. users' = [users EXCEPT ![user[q]] = snap[q]] /\ pc'[q] = "done"
      BY <2>0, <2>1 DEF CommitRows
    <3> QED BY <2>1, <3>1, <3>2 DEF IInv, TypeOK
  <2>2. CASE DeleteCascade(q)
    <3>1. user[q] \in Users BY <2>2 DEF DeleteCascade, IInv, SubjectsKnown
    <3>2. users' = [users EXCEPT ![user[q]] = GoneUser] /\ pc'[q] = "done" /\ pc[q] = "cascade"
      BY <2>0, <2>2 DEF DeleteCascade
    <3>3. GoneUser.status # "free" BY DEF GoneUser, FreeUser
    <3> QED BY <3>1, <3>2, <3>3 DEF IInv, TypeOK
  <2> QED BY <1>1, <2>1, <2>2 DEF Writes, RevokeOne, Issue, Rotate
<1> QED BY <1>1, OnlyWritesWrite DEF tables

\* An id that was drawn stays drawn.
LEMMA KnownStays ==
  ASSUME IInv, [Next]_vars, NEW u \in Users, users[u].status # "free"
  PROVE  users'[u].status # "free"
<1>1. CASE UNCHANGED users BY <1>1
<1>2. ASSUME NEW t \in Tokens, TokenExpires(t) PROVE UNCHANGED users BY <1>2 DEF TokenExpires
<1> QED BY <1>1, <1>2, UsersWritten DEF Next, vars, tables

LEMMA RowKeptByArrival ==
  ASSUME IInv, NEW s \in Slots, RowPart(s), Arrival(s)
  PROVE  RowPart(s)'
<1>1. PICK o \in Ops, u \in Users, t \in Tokens \cup {NoToken},
           p \in {"reload", "revoke", "check", "save", "delete", "done"},
           g \in Users \cup {NoUser}, r \in UserRow : Arrived(s, o, u, t, p, g, r)
  BY Arrivals
<1>2. pc[s] = "idle" /\ UNCHANGED userLock /\ pc'[s] \notin Written \cup {"cascade"}
  BY <1>1 DEF Arrived, Arrive, locks, IInv, TypeOK, Written
<1> QED BY <1>2 DEF RowPart, Written

LEMMA RowKeptByStep ==
  ASSUME IInv, NEW s \in Slots, RowPart(s), Step(s) \/ DatabaseError(s)
  PROVE  RowPart(s)'
<1>1. ASSUME NEW a \in {"ok", "refused", "error"}, Finish(s, a) PROVE RowPart(s)'
  <2>1. pc'[s] = "done" /\ \A u \in Users : userLock'[u] # s
    <3>1. /\ pc' = [pc EXCEPT ![s] = "done"]
          /\ userLock' = [u \in Users |-> IF userLock[u] = s THEN NoSlot ELSE userLock[u]]
      BY <1>1, Finishes
    <3> QED BY <3>1, SessionAssumption DEF IInv, TypeOK
  <2> QED BY <2>1 DEF RowPart, Written
<1>2. ASSUME UNCHANGED userLock, pc[s] \notin Written \cup {"cascade"},
             pc'[s] \notin Written \cup {"cascade"}
      PROVE  RowPart(s)'
  BY <1>2 DEF RowPart, Written
<1>3. ASSUME UNCHANGED <<userLock, user>>, pc[s] \in Written, pc'[s] \in Written \ {"address"}
      PROVE  RowPart(s)'
  BY <1>3 DEF RowPart, Written
<1> USE DEF Goto, Reply, tables, locks, subject, read
<1>4. CASE Reload(s) \/ Stamp(s) \/ RevokeOld(s) \/ RevokeOne(s)
  BY <1>2, <1>4 DEF Reload, Stamp, RevokeOld, RevokeOne, Written, IInv, TypeOK
<1>5. CASE \E t \in Tokens : Issue(s, t) BY <1>2, <1>5 DEF Issue, Written, IInv, TypeOK
<1>6. CASE CheckAddress(s) BY <1>1, <1>2, <1>6 DEF CheckAddress, Written, IInv, TypeOK
<1>7. CASE EnterAddress(s)
  BY <1>1, <1>3, <1>7 DEF EnterAddress, Rollback, AfterRow, Written, IInv, TypeOK
<1>8. CASE RemoveRoles(s) \/ Scan(s) \/ RevokeAll(s)
  BY <1>3, <1>8 DEF RemoveRoles, Scan, RevokeAll, Written, IInv, TypeOK
<1>9. CASE CommitUser(s) \/ GrantRoles(s) \/ DeleteCascade(s)
  BY <1>1, <1>9 DEF CommitUser, GrantRoles, CommitRows, DeleteCascade, Rollback
<1>10. CASE \E t \in Tokens : Rotate(s, t) BY <1>1, <1>10 DEF Rotate, Rollback
<1>11. CASE DeadlockVictim(s) \/ DatabaseError(s)
  BY <1>1, <1>11 DEF DeadlockVictim, DatabaseError, Rollback
<1>12. CASE Save(s)
  <2>1. user[s] \in Users /\ snap[s] \in UserRow /\ pc[s] = "save" /\ \A u \in Users : userLock[u] # s
    BY <1>12 DEF Save, IInv, TypeOK, SubjectsKnown, RowPart, Written
  <2>2. /\ userLock' = [userLock EXCEPT ![user[s]] = s] /\ UNCHANGED <<users, user>>
        /\ pc'[s] = IF snap[s].email # users[user[s]].email THEN "address" ELSE AfterRow(s)
        /\ snap' = IF Present(user[s]) THEN snap ELSE [snap EXCEPT ![s].active = TRUE]
    BY <1>12 DEF Save, IInv, TypeOK
  <2>3. snap'[s].email = snap[s].email
    <3>1. snap'[s] = snap[s] \/ snap'[s] = [snap[s] EXCEPT !.active = TRUE]
      BY <2>2 DEF IInv, TypeOK
    <3> QED BY <2>1, <3>1 DEF UserRow
  <2>4. \A u \in Users : userLock'[u] = s <=> u = user[s]
    BY <2>1, <2>2 DEF IInv, TypeOK
  <2>5. pc'[s] \in Written BY <2>2 DEF AfterRow, Written
  <2>6. pc'[s] = "address" => snap[s].email # users[user[s]].email BY <2>2 DEF AfterRow
  <2> QED BY <2>1, <2>2, <2>3, <2>4, <2>5, <2>6 DEF RowPart
<1>13. CASE DeleteRow(s)
  <2>1. user[s] \in Users BY <1>13 DEF DeleteRow, IInv, SubjectsKnown
  <2>2. CASE UNCHANGED userLock
    BY <1>2, <1>13, <2>1, <2>2, SessionAssumption DEF DeleteRow, Written, IInv, TypeOK
  <2>3. CASE userLock' = [userLock EXCEPT ![user[s]] = s] /\ pc'[s] = "cascade"
    BY <1>13, <2>1, <2>3 DEF DeleteRow, RowPart, Written, IInv, TypeOK
  <2> QED BY <1>13, <2>2, <2>3 DEF DeleteRow, IInv, TypeOK
<1>14. CASE Return(s) BY <1>2, <1>14 DEF Return, Written, IInv, TypeOK
<1> HIDE DEF Goto, Reply, tables, locks, subject, read
<1> QED BY <1>4, <1>5, <1>6, <1>7, <1>8, <1>9, <1>10, <1>11, <1>12, <1>13, <1>14 DEF Step

LEMMA RowKeptByOthers ==
  ASSUME IInv, NEW s \in Slots, RowPart(s), NEW q \in Slots, q # s, RowPart(q),
         Arrival(q) \/ Step(q) \/ DatabaseError(q)
  PROVE  RowPart(s)'
<1>1. /\ pc'[s] = pc[s] /\ user'[s] = user[s] /\ snap'[s] = snap[s]
      /\ \A u \in Users : userLock[u] = s <=> userLock'[u] = s
  BY OthersStay
<1>2. pc[s] \notin {"idle", "done"} => user[s] \in Users BY DEF IInv, SubjectsKnown
<1>3. pc[s] = "address" => users'[user[s]] = users[user[s]]
  BY <1>2, UsersWritten DEF RowPart, Written
<1>4. pc[s] \in Written \cup {"cascade"} => user[s] \in Users BY <1>2 DEF Written
<1> QED BY <1>1, <1>3, <1>4 DEF RowPart

LEMMA UserLocksInductive ==
  ASSUME IInv, UserLocksHeld, [Next]_vars
  PROVE  UserLocksHeld'
<1> SUFFICES ASSUME NEW s \in Slots PROVE RowPart(s)'
  BY DEF UserLocksHeld
<1>1. \A q \in Slots : RowPart(q) BY DEF UserLocksHeld
<1>2. CASE Arrival(s) BY <1>1, <1>2, RowKeptByArrival
<1>3. CASE Step(s) \/ DatabaseError(s) BY <1>1, <1>3, RowKeptByStep
<1>4. ASSUME NEW q \in Slots, q # s, Arrival(q) \/ Step(q) \/ DatabaseError(q)
      PROVE  RowPart(s)'
  BY <1>1, <1>4, RowKeptByOthers
<1>5. CASE UNCHANGED <<users, locks, pc, subject, read>>
  BY <1>1, <1>5 DEF RowPart, locks, subject, read
<1>6. ASSUME NEW t \in Tokens, TokenExpires(t) PROVE RowPart(s)'
  BY <1>5, <1>6 DEF TokenExpires
<1>7. CASE UNCHANGED vars BY <1>5, <1>7 DEF vars, tables
<1> QED BY <1>2, <1>3, <1>4, <1>6, <1>7 DEF Next
-----------------------------------------------------------------------------
(* Whom a request is about                                                 *)

\* Who arrives is about the user of a token that was issued, about one that was
\* drawn, or about one that nobody has.
LEMMA ArrivesFresh ==
  ASSUME IInv, FreshInv, NEW q \in Slots, Arrival(q)
  PROVE  /\ pc[q] = "idle" /\ UNCHANGED <<tables, locks>>
         /\ \A s \in Slots \ {q} : UNCHANGED <<op[s], user[s], pc[s]>>
         /\ \/ op'[q] = "create" /\ users[user'[q]].status = "free"
                 /\ \A s \in Slots : user[s] # user'[q]
            \/ op'[q] # "create" /\ users[user'[q]].status # "free"
<1>1. PICK o \in Ops, u \in Users, t \in Tokens \cup {NoToken},
           p \in {"reload", "revoke", "check", "save", "delete", "done"},
           g \in Users \cup {NoUser}, r \in UserRow : Arrived(q, o, u, t, p, g, r)
  BY Arrivals
<1>2. /\ pc[q] = "idle" /\ op'[q] = o /\ user'[q] = u /\ UNCHANGED <<tables, locks>>
      /\ \A s \in Slots \ {q} : UNCHANGED <<op[s], user[s], pc[s]>>
  BY <1>1 DEF Arrived, Arrive, IInv, TypeOK
<1>3. CASE o \in {"refresh", "logout"}
  <2>1. t \in Tokens /\ tokens[t].state # "free" /\ u = tokens[t].owner
    BY <1>1, <1>3 DEF Arrived
  <2> QED BY <1>2, <1>3, <2>1 DEF FreshInv
<1>4. CASE o = "create" BY <1>1, <1>2, <1>4 DEF Arrived
<1>5. CASE o \notin {"refresh", "logout", "create"} BY <1>1, <1>2, <1>5 DEF Arrived
<1> QED BY <1>3, <1>4, <1>5

\* A token that was issued went to a user that is there.
LEMMA OwnersKnown ==
  ASSUME IInv, FreshInv, [Next]_vars, NEW t \in Tokens, tokens'[t].state # "free"
  PROVE  users'[tokens'[t].owner].status # "free"
<1>1. CASE tokens[t].state # "free"
  <2>1. tokens[t].owner \in Users /\ users[tokens[t].owner].status # "free"
    BY <1>1 DEF IInv, IssuedTokensOwned, FreshInv
  <2>2. tokens'[t].owner = tokens[t].owner BY <1>1, NoTokenReturns
  <2> QED BY <2>1, <2>2, KnownStays
<1>2. CASE tokens[t].state = "free"
  <2>0. tokens[t] \in TokenRow /\ tokens \in [Tokens -> TokenRow] BY DEF IInv, TypeOK
  <2>1. tokens'[t] # tokens[t] BY <1>2
  <2>2. ASSUME NEW r \in Tokens, TokenExpires(r) PROVE FALSE
    BY <1>2, <2>0, <2>1, <2>2 DEF TokenExpires
  <2>3. ~UNCHANGED tables BY <2>1 DEF tables
  <2>4. PICK q \in Slots : Arrival(q) \/ Step(q) \/ DatabaseError(q)
    BY <2>2, <2>3 DEF Next, vars
  <2>5. \A s \in Slots : tokenLock[t] # s
    BY <1>2, SessionAssumption DEF IInv, LockedTokensExist
  <2>6. CASE RevokeOne(q)
    <3>1. token[q] \in Tokens /\ tokens[token[q]].state # "free"
      BY <2>6 DEF RevokeOne, IInv, SubjectsKnown
    <3> QED BY <1>2, <2>0, <2>1, <2>6, <3>1 DEF RevokeOne
  <2>7. CASE \E r \in Tokens : Issue(q, r) \/ (Rotate(q, r) /\ ~Rollback(q))
    <3>1. PICK r \in Tokens : Issue(q, r) \/ (Rotate(q, r) /\ ~Rollback(q)) BY <2>7
    <3>2. /\ user[q] \in Users /\ Present(user[q]) /\ UNCHANGED users
          /\ tokens'[t] = LiveToken(user[q])
      BY <2>0, <2>1, <2>5, <3>1 DEF Issue, Rotate, IInv, SubjectsKnown
    <3> QED BY <3>2, NewToken DEF Present
  <2>8. CASE CommitRows(q) BY <2>1, <2>5, <2>8 DEF CommitRows
  <2>9. CASE DeleteCascade(q)
    <3>1. tokens[t].owner = user[q] /\ user[q] \in Users
      BY <2>1, <2>9 DEF DeleteCascade, IInv, SubjectsKnown
    <3>2. /\ users' = [users EXCEPT ![user[q]] = GoneUser]
          /\ tokens'[t] = [tokens[t] EXCEPT !.state = "gone"]
      BY <2>9, <3>1 DEF DeleteCascade
    <3>3. tokens'[t].owner = user[q] BY <2>0, <3>1, <3>2, TokenMoves
    <3>4. GoneUser.status # "free" BY DEF GoneUser, FreeUser
    <3> QED BY <3>1, <3>2, <3>3, <3>4 DEF IInv, TypeOK
  <2>10. Writes(q) BY <2>3, <2>4, OnlyWritesWrite
  <2> QED BY <2>6, <2>7, <2>8, <2>9, <2>10 DEF Writes
<1> QED BY <1>1, <1>2

\* Only with its return a request forgets whom it was about.
LEMMA StepKeepsSubject ==
  ASSUME IInv, NEW q \in Slots, Step(q) \/ DatabaseError(q)
  PROVE  \/ UNCHANGED subject /\ pc[q] \notin {"idle", "done"}
         \/ Return(q)
<1>1. ASSUME NEW a \in {"ok", "refused", "error"}, Finish(q, a) PROVE UNCHANGED subject
  BY <1>1 DEF Finish
<1>2. CASE Reload(q) \/ Stamp(q) \/ RevokeOld(q) \/ RevokeOne(q)
  BY <1>2 DEF Reload, Stamp, RevokeOld, RevokeOne
<1>3. CASE \E t \in Tokens : Issue(q, t) \/ Rotate(q, t)
  BY <1>1, <1>3 DEF Issue, Rotate, Rollback
<1>4. CASE CheckAddress(q) \/ Save(q) \/ EnterAddress(q)
  BY <1>1, <1>4 DEF CheckAddress, Save, EnterAddress, Rollback
<1>5. CASE RemoveRoles(q) \/ Scan(q) \/ RevokeAll(q) BY <1>5 DEF RemoveRoles, Scan, RevokeAll
<1>6. CASE CommitUser(q) \/ GrantRoles(q)
  BY <1>1, <1>6 DEF CommitUser, GrantRoles, CommitRows, Rollback
<1>7. CASE DeleteRow(q) \/ DeleteCascade(q) BY <1>1, <1>7 DEF DeleteRow, DeleteCascade
<1>8. CASE DeadlockVictim(q) \/ DatabaseError(q)
  BY <1>1, <1>8 DEF DeadlockVictim, Deadlocked, DatabaseError, Rollback
<1> QED BY <1>2, <1>3, <1>4, <1>5, <1>6, <1>7, <1>8 DEF Step

LEMMA FreshKept ==
  ASSUME IInv, FreshInv, NEW q \in Slots, Arrival(q) \/ Step(q) \/ DatabaseError(q), NEW s \in Slots
  PROVE  FreshPart(s)'
<1>0. FreshPart(s) BY DEF FreshInv
<1>1. CASE Arrival(q)
  <2>1. UNCHANGED users BY <1>1, ArrivesFresh DEF tables
  <2>2. CASE s = q BY <1>1, <2>1, <2>2, ArrivesFresh DEF FreshPart
  <2>3. CASE s # q BY <1>0, <1>1, <2>1, <2>3, ArrivesFresh DEF FreshPart
  <2> QED BY <2>2, <2>3
<1>2. CASE Step(q) \/ DatabaseError(q)
  <2>1. /\ \A r \in Slots \ {q} : op'[r] = op[r] /\ user'[r] = user[r] /\ pc'[r] = pc[r]
        /\ \/ op'[q] = op[q] /\ user'[q] = user[q] /\ pc[q] \notin {"idle", "done"}
           \/ user'[q] = NoUser /\ pc'[q] = "idle"
    BY <1>2, OthersStay, StepKeepsSubject DEF subject, Return, Goto, IInv, TypeOK
  <2>2. CASE pc'[s] \in {"idle", "done"} BY <2>2 DEF FreshPart
  <2>3. CASE pc'[s] \notin {"idle", "done"}
    <3>1. pc[s] \notin {"idle", "done"} /\ op'[s] = op[s] /\ user'[s] = user[s]
      BY <2>1, <2>3
    <3>2. user[s] \in Users BY <3>1 DEF IInv, SubjectsKnown
    <3>3. CASE op[s] # "create"
      <4>1. users[user[s]].status # "free" BY <1>0, <3>1, <3>3 DEF FreshPart
      <4>2. users'[user[s]].status # "free" BY <1>2, <3>2, <4>1, KnownStays DEF Next
      <4> QED BY <3>1, <3>3, <4>2 DEF FreshPart
    <3>4. CASE op[s] = "create"
      <4>1. users[user[s]].status = "free" /\ \A r \in Slots \ {s} : user[r] # user[s]
        BY <1>0, <3>1, <3>4 DEF FreshPart
      <4>2. users'[user[s]] = users[user[s]]
        BY <1>2, <2>3, <3>2, <4>1, UsersWritten
      <4>3. \A r \in Slots \ {s} : user'[r] # user[s]
        BY <2>1, <3>2, <4>1, SessionAssumption
      <4> QED BY <3>1, <3>4, <4>1, <4>2, <4>3 DEF FreshPart
    <3> QED BY <3>3, <3>4
  <2> QED BY <2>2, <2>3
<1> QED BY <1>1, <1>2

LEMMA FreshInductive ==
  ASSUME IInv, FreshInv, [Next]_vars
  PROVE  FreshInv'
<1>1. \A t \in Tokens : tokens'[t].state # "free" => users'[tokens'[t].owner].status # "free"
  BY OwnersKnown
<1>2. ASSUME NEW s \in Slots PROVE FreshPart(s)'
  <2>1. ASSUME NEW q \in Slots, Arrival(q) \/ Step(q) \/ DatabaseError(q) PROVE FreshPart(s)'
    BY <2>1, FreshKept
  <2>2. CASE UNCHANGED <<users, pc, subject>> BY <2>2 DEF FreshInv, FreshPart, subject
  <2> QED BY <2>1, <2>2 DEF Next, TokenExpires, vars, tables
<1> QED BY <1>1, <1>2 DEF FreshInv
-----------------------------------------------------------------------------
(* Every request takes effect in one step                                  *)

\* A token that went with its user stays away.
LEMMA GoneStays ==
  ASSUME IInv, [Next]_vars, NEW t \in Tokens, tokens[t].state = "gone"
  PROVE  tokens'[t].state = "gone"
<1>0. tokens[t] \in TokenRow /\ tokens \in [Tokens -> TokenRow] BY DEF IInv, TypeOK
<1>1. \A q \in Slots : tokenLock[t] # q
  BY SessionAssumption DEF IInv, LockedTokensExist
<1>2. ASSUME NEW q \in Slots, Writes(q) PROVE tokens'[t].state = "gone"
  <2>2. CASE RevokeOne(q)
    BY <1>0, <2>2 DEF RevokeOne, IInv, SubjectsKnown
  <2>3. CASE \E r \in Tokens : Issue(q, r) BY <1>0, <2>3 DEF Issue, Draw
  <2>4. CASE \E r \in Tokens : Rotate(q, r) /\ ~Rollback(q)
    BY <1>0, <1>1, <2>4 DEF Rotate, Draw
  <2>5. CASE CommitRows(q) BY <1>1, <2>5 DEF CommitRows
  <2>6. CASE DeleteCascade(q)
    <3>1. tokens'[t] = tokens[t] \/ tokens'[t] = [tokens[t] EXCEPT !.state = "gone"]
      BY <2>6 DEF DeleteCascade
    <3>2. [tokens[t] EXCEPT !.state = "gone"].state = "gone" BY <1>0, TokenMoves
    <3> QED BY <3>1, <3>2
  <2> QED BY <1>2, <2>2, <2>3, <2>4, <2>5, <2>6 DEF Writes
<1>3. ASSUME NEW r \in Tokens, TokenExpires(r) PROVE tokens'[t].state = "gone"
  BY <1>0, <1>3 DEF TokenExpires
<1>4. CASE UNCHANGED tables BY <1>4 DEF tables
<1> QED BY <1>2, <1>3, <1>4, OnlyWritesWrite DEF Next, vars

LEMMA StoreKeptByArrival ==
  ASSUME IInv, NEW s \in Slots, StorePart(s), Arrival(s)
  PROVE  StorePart(s)'
<1>1. PICK o \in Ops, u \in Users, t \in Tokens \cup {NoToken},
           p \in {"reload", "revoke", "check", "save", "delete", "done"},
           g \in Users \cup {NoUser}, r \in UserRow : Arrived(s, o, u, t, p, g, r)
  BY Arrivals
<1>2. /\ op'[s] = o
      /\ pc'[s] = p /\ p \in {"reload", "revoke", "check", "save", "delete", "done"}
      /\ p = "done" => answer'[s] # "none"
      /\ p = "check" => o \in {"update", "create"}
      /\ p = "save" => o \in {"update", "password"}
  BY <1>1 DEF Arrived, Arrive, IInv, TypeOK
<1> QED BY <1>2 DEF StorePart

LEMMA StoreKeptByFinish ==
  ASSUME IInv, NEW s \in Slots, NEW a \in {"ok", "refused", "error"}, Finish(s, a)
  PROVE  StorePart(s)'
<1>1. pc'[s] = "done" /\ answer'[s] = a BY Finishes DEF IInv, TypeOK
<1> QED BY <1>1 DEF StorePart

LEMMA StoreKeptByStep ==
  ASSUME IInv, NEW s \in Slots, PasswordPart(s), StorePart(s), Step(s) \/ DatabaseError(s)
  PROVE  StorePart(s)'
<1>1. ASSUME NEW a \in {"ok", "refused", "error"}, Finish(s, a) PROVE StorePart(s)'
  BY <1>1, StoreKeptByFinish
<1> USE DEF Goto, Reply, tables, locks, subject, read
<1>2. CASE Reload(s) BY <1>2 DEF Reload, StagesFit, StorePart, IInv, TypeOK
<1>3. CASE Stamp(s) \/ RevokeOld(s) \/ RevokeOne(s)
  BY <1>3 DEF Stamp, RevokeOld, RevokeOne, StorePart, SubjectsKnown, IInv, TypeOK
<1>4. CASE \E t \in Tokens : Issue(s, t) BY <1>4 DEF Issue, StorePart, IInv, TypeOK
<1>5. CASE CheckAddress(s)
  BY <1>1, <1>5 DEF CheckAddress, StorePart, IInv, TypeOK
<1>6. CASE Save(s)
  <2>1. /\ pc[s] = "save" /\ UNCHANGED op
        /\ pc'[s] \in {"address", AfterRow(s)}
    BY <1>6 DEF Save, IInv, TypeOK
  <2> QED BY <2>1 DEF AfterRow, StorePart
<1>7. CASE EnterAddress(s)
  <2>1. CASE pc[s] = "address" /\ UNCHANGED op /\ pc'[s] = AfterRow(s)
    BY <2>1 DEF AfterRow, StorePart
  <2> QED BY <1>1, <1>7, <2>1 DEF EnterAddress, Rollback, IInv, TypeOK
<1>8. CASE RemoveRoles(s) BY <1>8 DEF RemoveRoles, StorePart, IInv, TypeOK
<1>9. CASE Scan(s) \/ RevokeAll(s)
  BY <1>9 DEF Scan, RevokeAll, StorePart, PasswordPart, IInv, TypeOK
<1>10. CASE CommitUser(s) \/ GrantRoles(s) \/ DeleteCascade(s)
  BY <1>1, <1>10 DEF CommitUser, GrantRoles, CommitRows, DeleteCascade, Rollback
<1>11. CASE \E t \in Tokens : Rotate(s, t) BY <1>1, <1>11 DEF Rotate, Rollback
<1>12. CASE DeadlockVictim(s) \/ DatabaseError(s)
  BY <1>1, <1>12 DEF DeadlockVictim, DatabaseError, Rollback
<1>13. CASE DeleteRow(s)
  BY <1>13 DEF DeleteRow, StorePart, SubjectsKnown, Present, IInv, TypeOK
<1>14. CASE Return(s) BY <1>14 DEF Return, StorePart, IInv, TypeOK
<1> HIDE DEF Goto, Reply, tables, locks, subject, read
<1> QED BY <1>2, <1>3, <1>4, <1>5, <1>6, <1>7, <1>8, <1>9, <1>10, <1>11, <1>12, <1>13, <1>14
        DEF Step

\* A delete in its cascade holds the row, so that nobody else deletes it.
LEMMA StoreKeptByOthers ==
  ASSUME IInv, UserLocksHeld, NEW s \in Slots, StorePart(s), ReasonPart(s),
         NEW q \in Slots, q # s, Arrival(q) \/ Step(q) \/ DatabaseError(q)
  PROVE  StorePart(s)'
<1>1. /\ UNCHANGED <<pc[s], op[s], answer[s], user[s], token[s]>>
      /\ \A t \in Tokens : tokenLock[t] = s <=> tokenLock'[t] = s
  BY OthersStay
<1>2. pc[s] = "rotate" => token[s] \in Tokens BY DEF IInv, SubjectsKnown, ReasonPart
<1>3. \A t \in Tokens : tokens[t].state = "gone" => tokens'[t].state = "gone"
  BY GoneStays DEF Next
<1>4. pc[s] = "cascade" => users'[user[s]].status = "present"
  <2> SUFFICES ASSUME pc[s] = "cascade" PROVE users'[user[s]].status = "present"
    OBVIOUS
  <2>1. user[s] \in Users /\ userLock[user[s]] = s /\ users[user[s]].status = "present"
    BY DEF IInv, SubjectsKnown, UserLocksHeld, RowPart, StorePart, Present
  <2>2. pc[q] = "cascade" => userLock[user[q]] = q BY DEF UserLocksHeld, RowPart
  <2> QED BY <2>1, <2>2, UsersWritten
<1> QED BY <1>1, <1>2, <1>3, <1>4 DEF StorePart, Present

LEMMA StoreInductive ==
  ASSUME IInv, PasswordInv, ReasonInv, UserLocksHeld, StoreInv, [Next]_vars
  PROVE  StoreInv'
<1> SUFFICES ASSUME NEW s \in Slots PROVE StorePart(s)'
  BY DEF StoreInv
<1>1. StorePart(s) /\ PasswordPart(s) /\ ReasonPart(s)
  BY DEF StoreInv, PasswordInv, ReasonInv
<1>2. CASE Arrival(s) BY <1>1, <1>2, StoreKeptByArrival
<1>3. CASE Step(s) \/ DatabaseError(s) BY <1>1, <1>3, StoreKeptByStep
<1>4. ASSUME NEW q \in Slots, q # s, Arrival(q) \/ Step(q) \/ DatabaseError(q)
      PROVE  StorePart(s)'
  BY <1>1, <1>4, StoreKeptByOthers
<1>5. CASE UNCHANGED <<users, locks, pc, answer, subject>>
  <2>1. pc[s] = "rotate" => token[s] \in Tokens
    BY <1>1 DEF IInv, SubjectsKnown, ReasonPart
  <2>2. \A t \in Tokens : tokens[t].state = "gone" => tokens'[t].state = "gone" BY GoneStays
  <2> QED BY <1>1, <1>5, <2>1, <2>2 DEF StorePart, Present, locks, subject
<1> QED BY <1>2, <1>3, <1>4, <1>5 DEF Next, TokenExpires, vars, tables

LEMMA StoreInitially ==
  ASSUME Init
  PROVE  Store!Init
<1> USE DEF Init
<1>1. Accounts \in [Users -> {"free", "present"}]
  <2>1. FreeUser.status = "free" /\ \A e \in Emails : OAuthUser(e).status = "present"
    BY DEF FreeUser, OAuthUser
  <2>2. \A u \in Users : users[u].status \in {"free", "present"} BY <2>1
  <2> QED BY <2>2 DEF Accounts
<1>2. Calls = [s \in Slots |-> Store!Idle]
  BY DEF Calls, Outcome, Store!Idle
<1> QED BY <1>1, <1>2 DEF Store!Init, FreeToken

\* The request of s gets an outcome; the others are where they were.
LEMMA Answers ==
  ASSUME NEW s \in Slots, NEW a, UNCHANGED subject,
         \A q \in Slots : q # s => pc'[q] = pc[q] /\ answer'[q] = answer[q],
         Outcome(s)' = a
  PROVE  Store!Answer(s, a)
<1>1. \A q \in Slots : q # s => Outcome(q)' = Outcome(q) BY DEF Outcome
<1>2. Calls' = [q \in Slots |-> IF q = s THEN [Calls[s] EXCEPT !.outcome = a] ELSE Calls[q]]
  BY <1>1 DEF Calls, subject
<1>3. Calls = [q \in Slots |-> Calls[q]] BY DEF Calls
<1> QED BY <1>2, <1>3 DEF Store!Answer

\* A request goes on without having taken effect, or after it has.
LEMMA GoesOn ==
  ASSUME NEW s \in Slots, UNCHANGED subject,
         \A q \in Slots : q # s => pc'[q] = pc[q] /\ answer'[q] = answer[q],
         Outcome(s)' = Outcome(s)
  PROVE  UNCHANGED Calls
<1>1. \A q \in Slots : Outcome(q)' = Outcome(q) BY DEF Outcome
<1> QED BY <1>1 DEF Calls, subject

\* A request begins in an idle slot.
LEMMA Begins ==
  ASSUME IInv, NEW s \in Slots, StorePart(s), NEW o, NEW u, NEW t, NEW a, Arrive(s, o, u, t),
         \A q \in Slots : q # s => pc'[q] = pc[q] /\ answer'[q] = answer[q],
         Outcome(s)' = a
  PROVE  Store!Begin(s, o, u, t, a)
<1>1. \A q \in Slots : q # s => Outcome(q)' = Outcome(q) BY DEF Outcome
<1>2. Calls[s] = Store!Idle
  BY DEF Calls, Outcome, Store!Idle, StorePart, Arrive
<1>3. Calls' = [q \in Slots |-> IF q = s THEN [op |-> o, user |-> u, token |-> t, outcome |-> a]
                                ELSE Calls[q]]
  BY <1>1 DEF Calls, Arrive, IInv, TypeOK
<1>4. Calls = [q \in Slots |-> Calls[q]] BY DEF Calls
<1> QED BY <1>2, <1>3, <1>4 DEF Store!Begin

LEMMA CallFields ==
  ASSUME NEW s \in Slots
  PROVE  /\ Calls[s].op = op[s] /\ Calls[s].user = user[s] /\ Calls[s].token = token[s]
         /\ Calls[s].outcome = Outcome(s)
BY DEF Calls

LEMMA AccountFields ==
  /\ \A u \in Users : Accounts[u] = users[u].status /\ Accounts'[u] = users'[u].status
  /\ UNCHANGED users => UNCHANGED Accounts
BY DEF Accounts

\* A request about an account or a token arrives and may be refused at once.
LEMMA ArrivalRefines ==
  ASSUME IInv, NEW s \in Slots, StorePart(s), Arrival(s)
  PROVE  Store!Serve(s)
<1>1. PICK o \in Ops, u \in Users, t \in Tokens \cup {NoToken},
           p \in {"reload", "revoke", "check", "save", "delete", "done"},
           g \in Users \cup {NoUser}, r \in UserRow : Arrived(s, o, u, t, p, g, r)
  BY Arrivals
<1> DEFINE a == IF p # "done" THEN "pending" ELSE IF o = "logout" THEN "ok" ELSE "refused"
<1>2. \A q \in Slots : q # s => pc'[q] = pc[q] /\ answer'[q] = answer[q]
  BY <1>1 DEF Arrived, IInv, TypeOK
<1>3. Outcome(s)' = a
  <2>1. pc'[s] = p /\ p = "done" => answer'[s] = a
    BY <1>1 DEF Arrived, IInv, TypeOK
  <2>2. pc'[s] = p BY <1>1 DEF Arrived, IInv, TypeOK
  <2> QED BY <2>1, <2>2, <1>1 DEF Outcome
<1>4. Arrive(s, o, u, t) BY <1>1 DEF Arrived
<1>5. Store!Begin(s, o, u, t, a)
  <2> HIDE DEF a
  <2> QED BY <1>2, <1>3, <1>4, Begins
<1>6. UNCHANGED <<Accounts, tokens, had>> BY <1>1, AccountFields DEF Arrived, tables
<1>7. CASE o = "create"
  <2>1. p # "done" /\ t = NoToken /\ users[u].status = "free" /\ \A q \in Slots : user[q] # u
    BY <1>1, <1>7 DEF Arrived
  <2>2. Store!CallCreate(s, u)
    BY <1>5, <1>6, <1>7, <2>1, AccountFields, CallFields DEF Store!CallCreate
  <2> QED BY <2>2 DEF Store!Serve
<1>8. CASE o \in {"refresh", "logout"}
  <2>1. t \in Tokens /\ tokens[t].state # "free" /\ u = tokens[t].owner
    BY <1>1, <1>8 DEF Arrived
  <2>2. Store!CallToken(s, o, t) BY <1>5, <1>6, <1>8, <2>1 DEF Store!CallToken
  <2> QED BY <1>8, <2>1, <2>2 DEF Store!Serve
<1>9. CASE o \in {"login", "update", "password", "delete"}
  <2>1. t = NoToken /\ users[u].status # "free" BY <1>1, <1>9 DEF Arrived
  <2>2. Store!CallAccount(s, o, u)
    BY <1>5, <1>6, <1>9, <2>1, AccountFields DEF Store!CallAccount
  <2> QED BY <1>9, <2>2 DEF Store!Serve
<1> QED BY <1>1, <1>7, <1>8, <1>9 DEF Arrived

\* What a rollback or a refusal looks like from outside.
LEMMA Fails ==
  ASSUME IInv, NEW s \in Slots, pc[s] \notin {"idle", "stamp", "done"},
         NEW a \in {"refused", "error"}, UNCHANGED <<tables, subject, had>>,
         Reply(s, a) \/ Finish(s, a)
  PROVE  Store!Serve(s)
<1>0. Reply(s, a) BY DEF Finish
<1> USE <1>0 DEF Reply, Goto, IInv, TypeOK
<1>1. \A q \in Slots : q # s => pc'[q] = pc[q] /\ answer'[q] = answer[q] OBVIOUS
<1>2. Outcome(s) = "pending" /\ Outcome(s)' = a BY DEF Outcome
<1>3. Store!Answer(s, a) BY <1>1, <1>2, Answers
<1>4. Store!Fail(s) BY <1>2, <1>3, CallFields, AccountFields DEF Store!Fail, tables
<1> QED BY <1>4 DEF Store!Serve

LEMMA Stutters ==
  ASSUME IInv, NEW s \in Slots, NEW p \in Stages \ {"idle", "stamp", "done"},
         pc[s] \notin {"idle", "stamp", "done"}, Goto(s, p),
         UNCHANGED <<tables, subject, answer, had>>
  PROVE  UNCHANGED Store!storeVars
<1>1. \A q \in Slots : q # s => pc'[q] = pc[q] /\ answer'[q] = answer[q]
  BY DEF Goto, IInv, TypeOK
<1>2. Outcome(s)' = Outcome(s) BY DEF Outcome, Goto, IInv, TypeOK
<1>3. UNCHANGED Calls BY <1>1, <1>2, GoesOn
<1> QED BY <1>3, AccountFields DEF Store!storeVars, tables

\* The step in which a request takes effect.
LEMMA Succeeds ==
  ASSUME IInv, NEW s \in Slots, pc[s] \notin {"idle", "stamp", "done"},
         NEW p \in {"stamp", "done"}, Goto(s, p),
         answer' = answer \/ answer' = [answer EXCEPT ![s] = "ok"],
         p = "done" => answer' = [answer EXCEPT ![s] = "ok"], UNCHANGED subject
  PROVE  Store!Pending(s, op[s]) /\ Store!Answer(s, "ok")
<1> USE DEF Goto, IInv, TypeOK
<1>1. \A q \in Slots : q # s => pc'[q] = pc[q] /\ answer'[q] = answer[q] OBVIOUS
<1>2. Outcome(s) = "pending" /\ Outcome(s)' = "ok" BY DEF Outcome
<1>3. Store!Answer(s, "ok") BY <1>1, <1>2, Answers
<1> QED BY <1>2, <1>3, CallFields DEF Store!Pending

LEMMA LoginRefines ==
  ASSUME IInv, NEW s \in Slots, StorePart(s), NEW n \in Tokens, Issue(s, n)
  PROVE  Store!Serve(s)
<1>1. CASE Reply(s, "error") /\ UNCHANGED tokens
  BY <1>1, Fails DEF Issue, tables, read
<1>2. CASE ~(Reply(s, "error") /\ UNCHANGED tokens)
  <2>1. /\ pc[s] = "issue" /\ op[s] = "login" /\ tokens[n].state = "free"
        /\ user[s] \in Users /\ users[user[s]].status = "present"
        /\ tokens' = [tokens EXCEPT ![n] = LiveToken(user[s])]
        /\ Goto(s, "stamp") /\ UNCHANGED <<users, subject, answer, had>>
    BY <1>2 DEF Issue, Draw, Present, StorePart, IInv, SubjectsKnown, read
  <2>2. tokens' = Store!After(user[s], n, {})
    BY <2>1 DEF Store!After, LiveToken, IInv, TypeOK
  <2>3. Store!Pending(s, "login") /\ Store!Answer(s, "ok") BY <2>1, Succeeds
  <2>4. Store!Login(s, n)
    BY <2>1, <2>2, <2>3, CallFields, AccountFields DEF Store!Login
  <2> QED BY <2>4 DEF Store!Serve
<1> QED BY <1>1, <1>2

\* The transaction of a refresh holds the token it was asked with, unless that
\* went with its user.
LEMMA RefreshRefines ==
  ASSUME IInv, NEW s \in Slots, ReasonPart(s), StorePart(s), NEW n \in Tokens, Rotate(s, n)
  PROVE  Store!Serve(s)
<1>1. CASE Rollback(s)
  BY <1>1, Fails DEF Rollback, Rotate, Finish
<1>2. CASE ~Rollback(s)
  <2>1. /\ pc[s] = "rotate" /\ op[s] = "refresh" /\ tokens[n].state = "free"
        /\ user[s] \in Users /\ users[user[s]].status = "present"
        /\ token[s] \in Tokens /\ tokens[token[s]].state # "free"
        /\ tokens' = [q \in Tokens |->
                        IF q = n THEN LiveToken(user[s])
                        ELSE IF tokenLock[q] = s THEN [tokens[q] EXCEPT !.state = "revoked"]
                        ELSE tokens[q]]
        /\ Reply(s, "ok") /\ UNCHANGED <<users, subject, had>>
    BY <1>2 DEF Rotate, Draw, Finish, Present, ReasonPart, IInv, SubjectsKnown
  <2> DEFINE T == {t \in {token[s]} : Store!Issued(t)}
  <2>2. \A q \in Tokens : tokenLock[q] = s <=> q \in T
    BY <2>1 DEF ReasonPart, StorePart, Store!Issued, IInv, TypeOK, LockedTokensExist
  <2> HIDE DEF T
  <2>3. tokens' = Store!After(user[s], n, T)
    BY <2>1, <2>2 DEF Store!After, LiveToken
  <2>4. Store!Pending(s, "refresh") /\ Store!Answer(s, "ok")
    BY <2>1, Succeeds DEF Reply
  <2>5. Store!Refresh(s, n)
    BY <2>1, <2>3, <2>4, CallFields, AccountFields DEF Store!Refresh, T
  <2> QED BY <2>5 DEF Store!Serve
<1> QED BY <1>1, <1>2

LEMMA LogoutRefines ==
  ASSUME IInv, NEW s \in Slots, RevokeOne(s)
  PROVE  Store!Serve(s)
<1>1. /\ pc[s] = "revoke" /\ op[s] = "logout" /\ Reply(s, "ok")
      /\ token[s] \in Tokens /\ tokens[token[s]].state # "free"
      /\ tokens' = IF tokens[token[s]].state = "gone" THEN tokens
                   ELSE [tokens EXCEPT ![token[s]].state = "revoked"]
      /\ UNCHANGED <<users, subject, had>>
  BY DEF RevokeOne, IInv, SubjectsKnown, read
<1> DEFINE T == {t \in {token[s]} : Store!Issued(t)}
<1>2. tokens \in [Tokens -> TokenRow] BY DEF IInv, TypeOK
<1>3. tokens[token[s]].state \in {"live", "expired", "revoked", "gone"}
  BY <1>1, <1>2 DEF TokenRow
<1>4. tokens' = Store!After(NoUser, NoToken, T)
  <2>1. CASE tokens[token[s]].state = "gone"
    BY <1>1, <1>2, <2>1 DEF Store!After, Store!Issued
  <2>2. CASE tokens[token[s]].state # "gone"
    <3>1. T = {token[s]} BY <1>3, <2>2 DEF Store!Issued
    <3> HIDE DEF T
    <3> QED BY <1>1, <1>2, <2>2, <3>1 DEF Store!After
  <2> QED BY <2>1, <2>2
<1> HIDE DEF T
<1>5. Store!Pending(s, "logout") /\ Store!Answer(s, "ok") BY <1>1, Succeeds DEF Reply
<1>6. Store!Logout(s)
  BY <1>1, <1>4, <1>5, CallFields, AccountFields DEF Store!Logout, T
<1> QED BY <1>6 DEF Store!Serve

LEMMA SaveRefines ==
  ASSUME IInv, NEW s \in Slots, Save(s)
  PROVE  Store!Serve(s) \/ UNCHANGED Store!storeVars
<1>1. CASE op[s] # "password"
  <2>1. PICK p \in {"address", "commit", "roles", "grant"} : Goto(s, p)
    BY <1>1 DEF Save, AfterRow
  <2> QED BY <1>1, <2>1, Stutters DEF Save, Stages, Written
<1>2. CASE op[s] = "password"
  <2>1. /\ pc[s] = "save" /\ UNCHANGED <<tables, subject, answer>>
        /\ \E p \in {"address", "scan"} : Goto(s, p)
        /\ had' = [had EXCEPT ![s] = TokensOf(user[s], {"live"})]
    BY <1>2 DEF Save, AfterRow
  <2>2. TokensOf(user[s], {"live"}) = Store!Live(user[s])
    BY DEF TokensOf, Store!Live, IInv, TypeOK, TokenRow
  <2>3. \A q \in Slots : q # s => pc'[q] = pc[q] /\ answer'[q] = answer[q]
    BY <2>1 DEF Goto, IInv, TypeOK
  <2>4. Outcome(s)' = Outcome(s) /\ Outcome(s) = "pending"
    BY <2>1 DEF Outcome, Goto, IInv, TypeOK
  <2>5. UNCHANGED Calls BY <2>1, <2>3, <2>4, GoesOn
  <2>6. Store!NoteSessions(s)
    BY <1>2, <2>1, <2>2, <2>4, <2>5, CallFields, AccountFields
    DEF Store!NoteSessions, Store!Pending, tables
  <2> QED BY <2>6 DEF Store!Serve
<1> QED BY <1>1, <1>2

\* The transaction commits what it has written, as its request's one step.
LEMMA CommitRefines ==
  ASSUME IInv, NEW s \in Slots, FreshPart(s), PasswordPart(s), ReasonPart(s), StorePart(s),
         pc[s] \in {"commit", "grant"}, CommitRows(s)
  PROVE  Store!Serve(s)
<1> DEFINE T == {t \in Tokens : tokenLock[t] = s}
<1>1. /\ Reply(s, "ok") /\ UNCHANGED <<subject, had>>
      /\ user[s] \in Users /\ op[s] \in {"update", "password", "create"}
      /\ users[user[s]].status = "free" <=> op[s] = "create"
      /\ pc[s] = "grant" => op[s] # "password"
  BY DEF CommitRows, Finish, FreshPart, PasswordPart, StorePart, IInv, SubjectsKnown
<1>2. tokens' = Store!After(NoUser, NoToken, T)
  BY DEF CommitRows, Store!After
<1>3. Accounts' = [Accounts EXCEPT ![user[s]] = "present"]
  BY <1>1 DEF CommitRows, Accounts, IInv, TypeOK, WritersHaveRead, Written
<1>4. Store!Pending(s, op[s]) /\ Store!Answer(s, "ok") BY <1>1, Succeeds DEF Reply
<1>5. CASE op[s] # "password"
  <2>1. T = {} BY <1>5 DEF ReasonPart
  <2>2. UNCHANGED tokens
    BY <1>2, <2>1 DEF Store!After, IInv, TypeOK
  <2>3. Store!Update(s) \/ Store!Create(s)
    BY <1>1, <1>3, <1>4, <1>5, <2>2, CallFields, AccountFields DEF Store!Update, Store!Create
  <2> QED BY <2>3 DEF Store!Serve
<1>6. CASE op[s] = "password"
  <2>1. \A t \in T : Store!Issued(t) /\ tokens[t].owner = user[s]
    BY <1>1, <1>6 DEF ReasonPart, Store!Issued, IInv, LockedTokensExist
  <2>2. \A t \in had[s] : tokens[t].state = "live" => t \in T
    BY <1>1, <1>6 DEF PasswordPart, PasswordChangeCovers, IInv, TypeOK
  <2>3. T \in SUBSET Tokens OBVIOUS
  <2> HIDE DEF T
  <2>4. Store!ChangePassword(s, T)
    BY <1>1, <1>2, <1>3, <1>4, <1>6, <2>1, <2>2, CallFields, AccountFields
    DEF Store!ChangePassword
  <2> QED BY <2>3, <2>4 DEF Store!Serve
<1> QED BY <1>5, <1>6

LEMMA DeleteRefines ==
  ASSUME IInv, NEW s \in Slots, ReasonPart(s), StorePart(s), DeleteRow(s) \/ DeleteCascade(s)
  PROVE  Store!Serve(s) \/ UNCHANGED Store!storeVars
<1>0. op[s] = "delete" /\ user[s] \in Users
  BY DEF DeleteRow, DeleteCascade, ReasonPart, IInv, SubjectsKnown
<1>1. CASE DeleteRow(s) /\ ~Present(user[s])
  <2>1. pc[s] = "delete" /\ Reply(s, "ok") /\ UNCHANGED <<tables, subject, had>>
    BY <1>1 DEF DeleteRow, read
  <2>2. Store!Pending(s, op[s]) /\ Store!Answer(s, "ok") BY <2>1, Succeeds DEF Reply
  <2>3. Store!Delete(s)
    BY <1>0, <1>1, <2>1, <2>2, CallFields, AccountFields DEF Store!Delete, Present, tables
  <2> QED BY <2>3 DEF Store!Serve
<1>2. CASE DeleteRow(s) /\ Present(user[s])
  BY <1>2, Stutters DEF DeleteRow, read, Stages
<1>3. CASE DeleteCascade(s)
  <2>1. pc[s] = "cascade" /\ Reply(s, "ok") /\ UNCHANGED <<subject, had>>
    BY <1>3 DEF DeleteCascade, Finish
  <2>2. Store!Pending(s, op[s]) /\ Store!Answer(s, "ok") BY <2>1, Succeeds DEF Reply
  <2>3. users[user[s]].status = "present" BY <2>1 DEF StorePart, Present
  <2>4. Accounts' = [Accounts EXCEPT ![user[s]] = "deleted"]
    BY <1>0, <1>3 DEF DeleteCascade, Accounts, GoneUser, FreeUser, IInv, TypeOK
  <2>5. Store!Delete(s)
    BY <1>0, <1>3, <2>1, <2>2, <2>3, <2>4, CallFields, AccountFields
    DEF Store!Delete, DeleteCascade
  <2> QED BY <2>5 DEF Store!Serve
<1> QED BY <1>1, <1>2, <1>3

LEMMA ReturnRefines ==
  ASSUME IInv, NEW s \in Slots, StorePart(s), Return(s)
  PROVE  Store!Serve(s)
<1> USE DEF Return, Goto, IInv, TypeOK
<1>1. \A q \in Slots : q # s => Outcome(q)' = Outcome(q) BY DEF Outcome
<1>2. Outcome(s) \in {"refused", "error", "ok"} /\ Outcome(s)' = "none"
  BY DEF Outcome, StorePart
<1>3. Calls' = [q \in Slots |-> IF q = s THEN Store!Idle ELSE Calls[q]]
  BY <1>1, <1>2 DEF Calls, Store!Idle
<1>4. Calls = [q \in Slots |-> Calls[q]] BY DEF Calls
<1>5. Store!Return(s)
  BY <1>2, <1>3, <1>4, CallFields, AccountFields DEF Store!Return, Store!Outcomes, tables
<1> QED BY <1>5 DEF Store!Serve

\* Whatever a request does on its way is its one step, or nothing.
LEMMA StepRefines ==
  ASSUME IInv, NEW s \in Slots, PasswordPart(s), ReasonPart(s), FreshPart(s), StorePart(s),
         Step(s) \/ DatabaseError(s)
  PROVE  Store!Serve(s) \/ UNCHANGED Store!storeVars
<1>1. CASE Reload(s)
  <2>1. CASE \E a \in {"refused", "error"} : Reply(s, a)
    BY <1>1, <2>1, Fails DEF Reload
  <2>2. CASE \E p \in {"issue", "revoke"} : Goto(s, p) /\ UNCHANGED answer
    BY <1>1, <2>2, Stutters DEF Reload, Stages
  <2> QED BY <1>1, <2>1, <2>2 DEF Reload
<1>2. CASE Stamp(s)
  <2>1. \A q \in Slots : q # s => pc'[q] = pc[q] /\ answer'[q] = answer[q]
    BY <1>2 DEF Stamp, Reply, Goto, IInv, TypeOK
  <2>2. Outcome(s)' = Outcome(s)
    BY <1>2 DEF Stamp, Reply, Goto, Outcome, IInv, TypeOK
  <2>3. UNCHANGED Calls BY <1>2, <2>1, <2>2, GoesOn DEF Stamp
  <2> QED BY <1>2, <2>3, AccountFields DEF Stamp, Store!storeVars, tables
<1>3. CASE RevokeOld(s) \/ Scan(s) \/ RevokeAll(s)
  BY <1>3, Stutters DEF RevokeOld, Scan, RevokeAll, Stages, Written
<1>4. CASE Rollback(s) /\ pc[s] \notin {"idle", "stamp", "done"}
  BY <1>4, Fails DEF Rollback, Finish
<1>5. CASE DeadlockVictim(s) \/ DatabaseError(s)
  BY <1>4, <1>5 DEF DeadlockVictim, Deadlocked, DatabaseError
<1>6. CASE CheckAddress(s)
  <2>1. CASE Finish(s, "refused")
    BY <1>6, <2>1, Fails DEF CheckAddress, Finish
  <2>2. CASE Goto(s, "save") /\ UNCHANGED <<locks, subject, answer, read, had>>
    BY <1>6, <2>2, Stutters DEF CheckAddress, Stages
  <2> QED BY <1>6, <2>1, <2>2 DEF CheckAddress
<1>7. CASE EnterAddress(s)
  <2>1. CASE Goto(s, AfterRow(s)) /\ UNCHANGED <<tables, locks, subject, answer, read, had>>
    <3>1. PICK p \in {"scan", "commit", "roles", "grant"} : Goto(s, p)
      BY <2>1 DEF AfterRow
    <3> QED BY <1>7, <2>1, <3>1, Stutters DEF EnterAddress, Stages, Written
  <2> QED BY <1>4, <1>7, <2>1 DEF EnterAddress
<1>8. CASE RemoveRoles(s) BY <1>8, Stutters DEF RemoveRoles, Stages, Written
<1>9. CASE CommitUser(s) \/ GrantRoles(s)
  BY <1>4, <1>9, CommitRefines DEF CommitUser, GrantRoles
<1> QED BY <1>1, <1>2, <1>3, <1>5, <1>6, <1>7, <1>8, <1>9, LoginRefines, RefreshRefines,
           LogoutRefines, SaveRefines, DeleteRefines, ReturnRefines
        DEF Step

\* Before the first request all invariants hold.
LEMMA AllInitially ==
  Init => IInv /\ PasswordInv /\ ReasonInv /\ UserLocksHeld /\ FreshInv /\ StoreInv
BY Initially, SessionAssumption
DEF Init, PasswordInv, PasswordPart, ReasonInv, ReasonPart, UserLocksHeld, RowPart, Written,
    FreshInv, FreshPart, StoreInv, StorePart, FreeToken

\* Login, refresh, logout, password changes and the administration of users, as
\* transactions over rows with checks made outside them, are requests that each
\* take effect in one step: for any number of slots, users, tokens and passwords,
\* with statements that fail and deadlocks that Postgres breaks.
THEOREM SessionsAreAtomic == Spec => ImplementsStore
<1> DEFINE I == IInv /\ PasswordInv /\ ReasonInv /\ UserLocksHeld /\ FreshInv /\ StoreInv
<1>1. Init => Store!Init BY StoreInitially
<1>2. Init => I BY AllInitially
<1>3. I /\ [Next]_vars => I'
  BY Inductive, PasswordInductive, ReasonInductive, UserLocksInductive, FreshInductive,
     StoreInductive
<1>4. I /\ [Next]_vars => [Store!Next]_(Store!storeVars)
  <2> SUFFICES ASSUME I, [Next]_vars
               PROVE  Store!Next \/ UNCHANGED Store!storeVars
    OBVIOUS
  <2>1. ASSUME NEW s \in Slots, Arrival(s) PROVE Store!Next
    BY <2>1, ArrivalRefines DEF StoreInv, Store!Next
  <2>2. ASSUME NEW s \in Slots, Step(s) \/ DatabaseError(s)
        PROVE  Store!Next \/ UNCHANGED Store!storeVars
    BY <2>2, StepRefines DEF PasswordInv, ReasonInv, FreshInv, StoreInv, Store!Next
  <2>3. ASSUME NEW t \in Tokens, TokenExpires(t) PROVE Store!Next
    BY <2>3, AccountFields
    DEF TokenExpires, Store!Next, Store!Expire, Calls, Outcome, subject
  <2>4. CASE UNCHANGED vars
    BY <2>4, AccountFields DEF vars, tables, subject, Store!storeVars, Calls, Outcome
  <2> QED BY <2>1, <2>2, <2>3, <2>4 DEF Next
<1> QED BY <1>1, <1>2, <1>3, <1>4, PTL DEF Spec, ImplementsStore, Store!Spec
-----------------------------------------------------------------------------
(* Requests that wait for one another                                      *)

\* A transaction that holds tokens, or a users row without changing its key, waits
\* for nobody but one that changes a key: it is at its insert or at its commit, or
\* it is a password change that waits for tokens.
LEMMA CirclesNeedAKey ==
  ASSUME IInv, ReasonInv, UserLocksHeld
  PROVE  CirclesChangeAKey
<1> SUFFICES ASSUME NEW W \in SUBSET Slots, W # {}, \A s \in W : \E q \in W : Waits(s, q),
                    \A s \in W : ~ChangesKey(s)
             PROVE  FALSE
  BY DEF CirclesChangeAKey
<1>1. ASSUME NEW s \in W, NEW q \in W, WaitsForKey(s, q) PROVE FALSE
  BY <1>1 DEF WaitsForKey, KeyHeld
<1>2. ASSUME NEW s \in W, NEW q \in W, WaitsForAddress(s, q) \/ WaitsForGrants(s, q) PROVE FALSE
  BY <1>2 DEF WaitsForAddress, HoldsAddress, WaitsForGrants, ChangesKey
<1>3. ASSUME NEW s \in W, NEW q \in W, WaitsForToken(s, q) PROVE FALSE
  <2>1. pc[q] \in {"rotate", "commit"}
    BY <1>3 DEF WaitsForToken, ReasonInv, ReasonPart
  <2>2. PICK r \in W : Waits(q, r) OBVIOUS
  <2>3. WaitsForKey(q, r)
    BY <2>1, <2>2 DEF Waits, WaitsForUser, WaitsForToken, WaitsForAddress, WaitsForGrants
  <2> QED BY <1>1, <2>3
<1>4. ASSUME NEW s \in W, NEW q \in W, WaitsForUser(s, q) PROVE FALSE
  <2>1. user[s] \in Users BY <1>4 DEF WaitsForUser, IInv, SubjectsKnown
  <2>2. pc[q] \in Written \cup {"cascade"}
    BY <1>4, <2>1 DEF WaitsForUser, UserLocksHeld, RowPart
  <2>3. PICK r \in W : Waits(q, r) OBVIOUS
  <2>4. ~WaitsForUser(q, r) BY <2>2 DEF WaitsForUser, Written
  <2> QED BY <1>1, <1>2, <1>3, <2>3, <2>4 DEF Waits
<1>5. PICK s \in W : TRUE OBVIOUS
<1>6. PICK q \in W : Waits(s, q) OBVIOUS
<1> QED BY <1>1, <1>2, <1>3, <1>4, <1>6 DEF Waits

\* Among requests that wait for one another there is always one that changes a key
\* of a users row: a delete, an insert, or an UPDATE with another address, which may
\* be the stale one that a password change writes back.  Without them, any number of
\* logins, refreshes, logouts, password changes and role grants never stand still.
THEOREM NoOtherDeadlock == Spec => []CirclesChangeAKey
<1> DEFINE I == IInv /\ PasswordInv /\ ReasonInv /\ UserLocksHeld
<1>1. Init => I BY AllInitially
<1>2. I /\ [Next]_vars => I'
  BY Inductive, PasswordInductive, ReasonInductive, UserLocksInductive
<1>3. I => CirclesChangeAKey BY CirclesNeedAKey
<1> QED BY <1>1, <1>2, <1>3, PTL DEF Spec
=============================================================================

---------------------------- MODULE SessionStore ----------------------------
(***************************************************************************)
(* What a caller of the authentication service relies on: every request    *)
(* works on accounts and refresh tokens in one step between its call and   *)
(* its answer, whatever else is being served.  A request that is refused   *)
(* or fails has changed nothing.                                           *)
(*                                                                         *)
(* The checks that a request makes before its step may be out of date when *)
(* it takes the step; what still holds then is written in its guard.       *)
(***************************************************************************)
CONSTANTS Clients, Users, Tokens, NoUser, NoToken

VARIABLES
  account,   \* account[u]: "free" (id not drawn yet), "present" or "deleted"
  session,   \* session[t]: the owner of a refresh token and its state
  call,      \* call[c]: operation, subject and outcome of the client's request
  due        \* due[c]: the sessions that the password change of c has to end

storeVars == <<account, session, call, due>>

Outcomes == {"refused", "error", "ok"}

Idle == [op |-> "none", user |-> NoUser, token |-> NoToken, outcome |-> "none"]

Init == /\ account \in [Users -> {"free", "present"}]
        /\ session = [t \in Tokens |-> [owner |-> NoUser, state |-> "free"]]
        /\ call = [c \in Clients |-> Idle]
        /\ due = [c \in Clients |-> {}]

Pending(c, o) == call[c].op = o /\ call[c].outcome = "pending"

Answer(c, a) == call' = [call EXCEPT ![c].outcome = a]

Begin(c, o, u, t, a) ==
  /\ call[c] = Idle
  /\ call' = [call EXCEPT ![c] = [op |-> o, user |-> u, token |-> t, outcome |-> a]]

Live(u) == {t \in Tokens : session[t] = [owner |-> u, state |-> "live"]}

\* A session that has an owner: it may have expired or ended.
Issued(t) == session[t].state \in {"live", "expired", "revoked"}

\* session with the tokens of T ended and, unless it is NoToken, n given to u.
After(u, n, T) == [t \in Tokens |->
                     IF t = n THEN [owner |-> u, state |-> "live"]
                     ELSE IF t \in T THEN [session[t] EXCEPT !.state = "revoked"]
                     ELSE session[t]]
-----------------------------------------------------------------------------
\* A request about an account, or about a token and its owner, may be refused
\* at once.  Who logs out with a token that has ended is told that it worked;
\* so may be who logs out while the token cannot be looked up.
CallAccount(c, o, u) ==
  /\ o \in {"login", "update", "password", "delete"}
  /\ account[u] # "free"
  /\ \E a \in {"pending", "refused"} : Begin(c, o, u, NoToken, a)
  /\ UNCHANGED <<account, session, due>>

CallToken(c, o, t) ==
  /\ session[t].state # "free"
  /\ \/ o = "refresh" /\ \E a \in {"pending", "refused"} : Begin(c, o, session[t].owner, t, a)
     \/ o = "logout" /\ \E a \in {"pending", "ok"} : Begin(c, o, session[t].owner, t, a)
  /\ UNCHANGED <<account, session, due>>

\* The account u that will be made is nobody else's.
CallCreate(c, u) ==
  /\ account[u] = "free" /\ \A d \in Clients : call[d].user # u
  /\ Begin(c, "create", u, NoToken, "pending")
  /\ UNCHANGED <<account, session, due>>

Fail(c) ==
  /\ call[c].outcome = "pending"
  /\ \E a \in {"refused", "error"} : Answer(c, a)
  /\ UNCHANGED <<account, session, due>>

Login(c, n) ==
  /\ Pending(c, "login")
  /\ account[call[c].user] = "present" /\ session[n].state = "free"
  /\ session' = After(call[c].user, n, {})
  /\ Answer(c, "ok")
  /\ UNCHANGED <<account, due>>

\* The session passes from the token that was presented to a new one.
Refresh(c, n) ==
  /\ Pending(c, "refresh")
  /\ account[call[c].user] = "present" /\ session[n].state = "free"
  /\ session' = After(call[c].user, n, {t \in {call[c].token} : Issued(t)})
  /\ Answer(c, "ok")
  /\ UNCHANGED <<account, due>>

Logout(c) ==
  /\ Pending(c, "logout")
  /\ session' = After(NoUser, NoToken, {t \in {call[c].token} : Issued(t)})
  /\ Answer(c, "ok")
  /\ UNCHANGED <<account, due>>

Create(c) ==
  /\ Pending(c, "create")
  /\ account[call[c].user] = "free"
  /\ account' = [account EXCEPT ![call[c].user] = "present"]
  /\ Answer(c, "ok")
  /\ UNCHANGED <<session, due>>

\* An account that was deleted since the request read it is there again.
Update(c) ==
  /\ Pending(c, "update")
  /\ account[call[c].user] # "free"
  /\ account' = [account EXCEPT ![call[c].user] = "present"]
  /\ Answer(c, "ok")
  /\ UNCHANGED <<session, due>>

\* From here on the old password opens no session that the change will not end.
NoteSessions(c) ==
  /\ Pending(c, "password")
  /\ due' = [due EXCEPT ![c] = Live(call[c].user)]
  /\ UNCHANGED <<account, session, call>>

ChangePassword(c, T) ==
  /\ Pending(c, "password")
  /\ account[call[c].user] # "free"
  /\ \A t \in T : Issued(t) /\ session[t].owner = call[c].user
  /\ \A t \in due[c] : session[t].state = "live" => t \in T
  /\ account' = [account EXCEPT ![call[c].user] = "present"]
  /\ session' = After(NoUser, NoToken, T)
  /\ Answer(c, "ok")
  /\ UNCHANGED due

\* The account goes with all its sessions; deleting nobody is no error.
Delete(c) ==
  /\ Pending(c, "delete")
  /\ \/ account[call[c].user] # "present" /\ UNCHANGED <<account, session>>
     \/ /\ account[call[c].user] = "present"
        /\ account' = [account EXCEPT ![call[c].user] = "deleted"]
        /\ session' = [t \in Tokens |-> IF session[t].owner = call[c].user
                                        THEN [session[t] EXCEPT !.state = "gone"]
                                        ELSE session[t]]
  /\ Answer(c, "ok")
  /\ UNCHANGED due

Return(c) ==
  /\ call[c].outcome \in Outcomes
  /\ call' = [call EXCEPT ![c] = Idle]
  /\ due' = [due EXCEPT ![c] = {}]
  /\ UNCHANGED <<account, session>>

Expire(t) ==
  /\ session[t].state = "live"
  /\ session' = [session EXCEPT ![t].state = "expired"]
  /\ UNCHANGED <<account, call, due>>

Serve(c) ==
  \/ \E u \in Users, o \in {"login", "update", "password", "delete"} : CallAccount(c, o, u)
  \/ \E t \in Tokens, o \in {"refresh", "logout"} : CallToken(c, o, t)
  \/ \E u \in Users : CallCreate(c, u)
  \/ \E n \in Tokens : Login(c, n) \/ Refresh(c, n)
  \/ Logout(c) \/ Create(c) \/ Update(c) \/ NoteSessions(c) \/ Delete(c)
  \/ \E T \in SUBSET Tokens : ChangePassword(c, T)
  \/ Fail(c) \/ Return(c)

Next == (\E c \in Clients : Serve(c)) \/ (\E t \in Tokens : Expire(t))

Spec == Init /\ [][Next]_storeVars
=============================================================================

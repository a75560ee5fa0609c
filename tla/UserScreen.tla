----------------------------- MODULE UserScreen -----------------------------
(***************************************************************************)
(* The users page.                                                         *)
(*   fe-itts-community/app/admin/users/page.tsx, _components.tsx           *)
(*   fe-itts-community/feature/auth/hooks.ts, api.ts                       *)
(* The edit form and the question share selectedUser, the target, and the  *)
(* form takes it away when it is closed: the question behind it asks about *)
(* "this user" then, and its button does nothing. The edit modal is there  *)
(* while there is a selectedUser, and its mutations with it: what an       *)
(* earlier one has sent does not disable its buttons.                      *)
(***************************************************************************)
EXTENDS Screen

UserFilter(f) == Free("users") /\ Switch(1, f)
UserTurn(p)   == Free("users") /\ Turn(p)

UserOpenCreate == Free("users") /\ Show("create", NoRow)

handleEditClick(r) == Free("users") /\ r \in Listed /\ Show("edit", r)

UserDeleteClick(r) ==
  /\ Free("users") /\ r \in Listed /\ LooksLike(r, "member")
  /\ AskDelete(r)

\* From the edit dialog to the roles and back.
UserOpenRoles ==
  /\ At("users", "edit")
  /\ dialog' = "userRoles"
  /\ UNCHANGED <<target, shown, asked>>
  /\ Keep

UserRolesCancel ==
  /\ At("users", "userRoles")
  /\ dialog' = "edit"
  /\ UNCHANGED <<target, shown, asked>>
  /\ Keep

\* Slip: the edit form leaves the user it was opened for selected.
UserCancelKeeping ==
  /\ \/ At("users", "create") /\ Close /\ UNCHANGED <<target, asked, calls>>
     \/ /\ At("users", "edit")
        /\ Close /\ UNCHANGED <<target, asked>>
        /\ calls' = Unmount({"update", "userRoles"})
     \/ /\ ConfirmIdle("users")
        /\ asked' = NoRow /\ target' = NoRow /\ UNCHANGED <<dialog, shown, calls>>
  /\ UNCHANGED <<scene, db, list>>

\* Cancel; saving a form without changes does the same.
UserCancel ==
  /\ \/ At("users", "create") /\ Close /\ UNCHANGED <<target, asked, calls>>
     \/ /\ At("users", "edit")
        /\ Close /\ target' = NoRow /\ UNCHANGED asked
        /\ calls' = Unmount({"update", "userRoles"})
     \/ /\ ConfirmIdle("users")
        /\ asked' = NoRow /\ target' = NoRow /\ UNCHANGED <<dialog, shown, calls>>
  /\ UNCHANGED <<scene, db, list>>

UserCreate ==
  /\ At("users", "create") /\ ~Pending("create")
  /\ \E value \in Holds : Send("create", NoRow, NoRow, value)
  /\ UNCHANGED modal

UserUpdate ==
  /\ At("users", "edit") /\ ~Pending("update")
  /\ Send("update", target, shown, Edited)
  /\ UNCHANGED modal

handleRolesUpdate ==
  /\ At("users", "userRoles") /\ ~Pending("userRoles")
  /\ Send("userRoles", target, shown, Edited)
  /\ UNCHANGED modal

\* The question is closed at once.
UserDelete ==
  /\ ConfirmIdle("users") /\ target # NoRow
  /\ Send("delete", target, asked, Gone)
  /\ asked' = NoRow /\ target' = NoRow /\ UNCHANGED <<dialog, shown>>

\* An update closes the edit modal of whichever user is in it by now, and takes the row
\* from a question that is open.
UserAnswered(c) ==
  /\ scene = "users" /\ Answered(c)
  /\ CASE c.op = "create" -> /\ CloseIf({"create"}) /\ UNCHANGED <<target, asked>>
                             /\ calls' = calls \ {c}
       [] c.op = "update" -> /\ CloseIf({"edit", "userRoles"})
                             /\ target' = NoRow /\ UNCHANGED asked
                             /\ calls' = Unmount({"update", "userRoles"})
                                           \ {Orphan(c)}
       [] c.op = "userRoles" -> /\ dialog' = IF c.by = "mounted" /\ dialog = "userRoles"
                                             THEN "edit" ELSE dialog
                                /\ UNCHANGED <<target, shown, asked>>
                                /\ calls' = calls \ {c}
       [] OTHER -> UNCHANGED modal /\ calls' = calls \ {c}

UserNext ==
  \/ \E f \in {"all", Contents["users"][1]} : UserFilter(f)
  \/ \E r \in Rows : UserTurn(r) \/ handleEditClick(r) \/ UserDeleteClick(r)
  \/ \E c \in calls : UserAnswered(c)
  \/ UserOpenCreate \/ UserOpenRoles \/ UserRolesCancel \/ UserCancel
  \/ UserCreate \/ UserUpdate \/ handleRolesUpdate \/ UserDelete
=============================================================================

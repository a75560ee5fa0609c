----------------------------- MODULE RoleScreen -----------------------------
(***************************************************************************)
(* The roles page.                                                         *)
(*   fe-itts-community/app/admin/roles/page.tsx                            *)
(*   fe-itts-community/feature/auth/hooks.ts, api.ts                       *)
(* A modal is on the screen while it is open, its mutation with it.        *)
(* selectedRole, the target, is set and never cleared.                     *)
(***************************************************************************)
EXTENDS Screen

RoleFilter(f) == Free("roles") /\ Switch(1, f)
RoleTurn(p)   == Free("roles") /\ Turn(p)

RoleOpenCreate ==
  /\ Free("roles")
  /\ dialog' = "create" /\ UNCHANGED <<target, shown, asked>>
  /\ Keep

handleEdit(r) == Free("roles") /\ r \in Listed /\ LooksLike(r, "custom") /\ Show("edit", r)

handleManagePermissions(r) == Free("roles") /\ r \in Listed /\ Show("permissions", r)

\* The operation of the mutation that each modal holds.
RoleOp(name) == CASE name = "create" -> "create" [] name = "edit" -> "update" [] OTHER -> name

RoleCancel ==
  /\ scene = "roles" /\ dialog # "none"
  /\ Close /\ UNCHANGED <<target, asked>>
  /\ calls' = Unmount({RoleOp(dialog)})
  /\ UNCHANGED <<scene, db, list>>

RoleCreate ==
  /\ At("roles", "create") /\ ~Pending("create")
  /\ Send("create", NoRow, NoRow, "custom")
  /\ UNCHANGED modal

RoleUpdate ==
  /\ At("roles", "edit") /\ ~Pending("update")
  /\ Send("update", target, shown, Edited)
  /\ UNCHANGED modal

\* Saving does not wait for the permissions the role has: what is ticked is sent.
RolePermissions ==
  /\ At("roles", "permissions") /\ ~Pending("permissions")
  /\ Send("permissions", target, shown, Edited)
  /\ UNCHANGED modal

\* window.confirm stops the page: the row is the one that was clicked.
RoleDelete(r) ==
  /\ Free("roles") /\ r \in Listed /\ LooksLike(r, "custom") /\ ~Pending("delete")
  /\ Send("delete", r, r, Gone)
  /\ UNCHANGED modal

\* onClose closes the modal of that kind that is open by now.
RoleAnswered(c) ==
  /\ scene = "roles" /\ Answered(c)
  /\ LET closes == IF RoleOp(dialog) = c.op THEN {dialog} ELSE {}
     IN /\ CloseIf(closes) /\ UNCHANGED <<target, asked>>
        /\ calls' = IF closes = {} THEN calls \ {c}
                    ELSE Unmount({c.op}) \ {Orphan(c)}

RoleNext ==
  \/ \E f \in {"all", Contents["roles"][1]} : RoleFilter(f)
  \/ \E r \in Rows : \/ RoleTurn(r) \/ handleEdit(r) \/ handleManagePermissions(r)
                     \/ RoleDelete(r)
  \/ \E c \in calls : RoleAnswered(c)
  \/ RoleOpenCreate \/ RoleCancel \/ RoleCreate \/ RoleUpdate \/ RolePermissions
=============================================================================

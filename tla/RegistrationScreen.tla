------------------------- MODULE RegistrationScreen -------------------------
(***************************************************************************)
(* The page of member registrations.                                       *)
(*   fe-itts-community/app/admin/registrations/page.tsx                    *)
(*   fe-itts-community/feature/registration/hooks.ts, api.ts               *)
(* Forms and question share selectedRegistration, the target: leaving the  *)
(* reject and the detail form keeps it. The question names it.             *)
(***************************************************************************)
EXTENDS Screen

RegistrationFilter(f) == Free("registrations") /\ Switch(1, f)
RegistrationTurn(p)   == Free("registrations") /\ Turn(p)

\* window.confirm stops the page: the row is the one that was clicked.
handleApprove(r) ==
  /\ Free("registrations") /\ r \in Listed /\ LooksLike(r, "pending") /\ ~Pending("approve")
  /\ Send("approve", r, r, "decided")
  /\ UNCHANGED modal

\* Slip: another one while the first is waiting for its answer.
handleRejectClickAnytime(r) ==
  /\ Free("registrations") /\ r \in Listed /\ LooksLike(r, "pending")
  /\ Show("reject", r)

handleRejectClick(r) ==
  /\ Free("registrations") /\ r \in Listed /\ LooksLike(r, "pending") /\ ~Pending("reject")
  /\ Show("reject", r)

RegistrationDeleteClick(r) ==
  /\ Free("registrations") /\ r \in Listed /\ ~Pending("delete")
  /\ AskDelete(r)

handleViewDetail(r) ==
  /\ Free("registrations") /\ r \in Listed
  /\ Show("detail", r)

RegistrationCancel ==
  /\ \/ /\ scene = "registrations" /\ dialog # "none"
        /\ Close /\ UNCHANGED <<target, asked>>
     \/ /\ ConfirmIdle("registrations")
        /\ asked' = NoRow /\ target' = NoRow /\ UNCHANGED <<dialog, shown>>
  /\ Keep

\* The form stays until the answer.
handleRejectConfirm ==
  /\ At("registrations", "reject") /\ target # NoRow /\ ~Pending("reject")
  /\ Send("reject", target, shown, "decided")
  /\ UNCHANGED modal

\* The question is closed at once.
RegistrationDelete ==
  /\ ConfirmIdle("registrations") /\ target # NoRow
  /\ Send("delete", target, asked, Gone)
  /\ asked' = NoRow /\ target' = NoRow /\ UNCHANGED <<dialog, shown>>

RegistrationAnswered(c) ==
  /\ scene = "registrations" /\ Answered(c)
  /\ calls' = calls \ {c}
  /\ IF c.op = "reject"
     THEN CloseIf({"reject"}) /\ target' = NoRow /\ UNCHANGED asked
     ELSE UNCHANGED modal

RegistrationNext ==
  \/ \E f \in {"all", Contents["registrations"][1]} : RegistrationFilter(f)
  \/ \E r \in Rows : \/ RegistrationTurn(r) \/ handleApprove(r) \/ handleRejectClick(r)
                     \/ RegistrationDeleteClick(r) \/ handleViewDetail(r)
  \/ \E c \in calls : RegistrationAnswered(c)
  \/ RegistrationCancel \/ handleRejectConfirm \/ RegistrationDelete
=============================================================================

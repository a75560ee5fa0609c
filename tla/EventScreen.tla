---------------------------- MODULE EventScreen -----------------------------
(***************************************************************************)
(* The events page.                                                        *)
(*   fe-itts-community/app/admin/event/page.tsx                            *)
(*   fe-itts-community/feature/events/events.ts                            *)
(* Forms and question hold their rows in states of their own, null while   *)
(* they are closed: target is the open form's, asked is deleteEvent.       *)
(***************************************************************************)
EXTENDS Screen

EventFilter(f) == Free("events") /\ Switch(1, f)          \* Clear Filters is "all"
EventTurn(p)   == Free("events") /\ Turn(p)

EventOpenCreate == Free("events") /\ Show("create", NoRow)

EventOpen(r) ==
  /\ Free("events") /\ r \in Listed
  /\ Show("edit", r) \/ Show("speaker", r)

EventDeleteClick(r) ==
  /\ Free("events") /\ r \in Listed
  /\ asked' = r
  /\ UNCHANGED <<dialog, target, shown>>
  /\ Keep

\* The forms may be left at any time, the question not while its request is pending.
EventCancel ==
  /\ scene = "events"
  /\ \/ dialog # "none" /\ Close /\ target' = NoRow /\ UNCHANGED asked
     \/ ConfirmIdle("events") /\ asked' = NoRow /\ UNCHANGED <<dialog, target, shown>>
  /\ Keep

\* The forms, whose button waits for the answer to what they have sent. That of a row is
\* filled from the row when it is opened.
EventFormDialog(mode, op) == At("events", mode) /\ ~Pending(op)
SpeakerFormDialog         == At("events", "speaker") /\ ~Pending("speaker")

handleCreateSubmit ==
  /\ EventFormDialog("create", "create")
  /\ \E value \in Holds : Send("create", NoRow, NoRow, value)
  /\ UNCHANGED modal

handleEditSubmit ==
  /\ EventFormDialog("edit", "update")
  /\ \E value \in Holds : Send("update", target, shown, value)
  /\ UNCHANGED modal

handleSpeakerSubmit ==
  /\ SpeakerFormDialog
  /\ Send("speaker", target, shown, Edited)
  /\ UNCHANGED modal

EventDelete ==
  /\ ConfirmIdle("events")
  /\ Send("delete", asked, asked, Gone)
  /\ UNCHANGED modal

\* The select in the row: choosing the status it shows sends nothing.
StatusSelect(r, status) == ~Pending("status") /\ (view = "old" \/ db[r] # status)

handleStatusChange(r, status) ==
  /\ Free("events") /\ r \in Listed
  /\ StatusSelect(r, status)
  /\ Send("status", r, r, status)
  /\ UNCHANGED modal

\* createOpen, editEvent and deleteEvent are cleared whatever they are by now.
EventAnswered(c) ==
  /\ scene = "events" /\ Answered(c)
  /\ calls' = calls \ {c}
  /\ LET closes == CASE c.op = "create" -> {"create"}
                     [] c.op = "update" -> {"edit"}
                     [] OTHER           -> {}
     IN /\ CloseIf(closes)
        /\ target' = IF dialog \in closes THEN NoRow ELSE target
  /\ asked' = IF c.op = "delete" THEN NoRow ELSE asked

EventNext ==
  \/ \E f \in {"all", Contents["events"][1]} : EventFilter(f)
  \/ \E r \in Rows : EventTurn(r) \/ EventOpen(r) \/ EventDeleteClick(r)
  \/ \E r \in Rows, status \in Holds : handleStatusChange(r, status)
  \/ \E c \in calls : EventAnswered(c)
  \/ EventOpenCreate \/ EventCancel \/ EventDelete
  \/ handleCreateSubmit \/ handleEditSubmit \/ handleSpeakerSubmit
=============================================================================

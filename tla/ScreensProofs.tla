--------------------------- MODULE ScreensProofs ---------------------------
(***************************************************************************)
(* The dialogs of the admin pages, proved for every number of rows and of  *)
(* requests in flight: a request names the row its form was opened for,    *)
(* and an answered rejection closes no other form. Then the list: it shows *)
(* the tab's own writes once their answers are in.                         *)
(***************************************************************************)
EXTENDS Screens, TLAPS

USE ScreenAssumption

(***************************************************************************)
(* The list changes within its types.                                      *)
(***************************************************************************)
ListTypes ==
  /\ page \in Rows \cup {1} /\ filter \in Filters
  /\ view \in {"none", "current", "old", "failed"}
  /\ fetch \in {"idle", "asked", "current", "old"}
  /\ missed \in BOOLEAN /\ behind \in BOOLEAN

TableTypes == scene \in Scenes /\ db \in [Rows -> Values]

DialogTypes ==
  /\ dialog \in DialogsOf[scene] /\ target \in AnyRow /\ shown \in AnyRow
  /\ asked \in AnyRow /\ (scene = "roles" => asked = NoRow)

(***************************************************************************)
(* The type invariant, by what it is about.                                *)
(***************************************************************************)
LEMMA Parts ==
  TypeOK <=> ListTypes /\ TableTypes /\ DialogTypes /\ calls \subseteq Call
BY DEF TypeOK, ListTypes, TableTypes, DialogTypes

(***************************************************************************)
(* The same after a step.                                                  *)
(***************************************************************************)
LEMMA PartsNext ==
  TypeOK' <=> ListTypes' /\ TableTypes' /\ DialogTypes' /\ (calls \subseteq Call)'
BY DEF TypeOK, ListTypes, TableTypes, DialogTypes

(***************************************************************************)
(* What is listed are rows.                                                *)
(***************************************************************************)
LEMMA ListedRows == Listed \subseteq Rows
BY DEF Listed, Matching, Stored

(***************************************************************************)
(* Turning to another list leaves the dialogs and the requests alone.      *)
(***************************************************************************)
LEMMA SwitchKeeps ==
  ASSUME IInv, NEW p \in Rows \cup {1}, NEW f \in Filters, Switch(p, f)
  PROVE  IInv' /\ RejectStep
<1>1. ListTypes'
  BY Parts DEF IInv, Switch, ListTypes
<1>2. QED
  BY <1>1, Parts, PartsNext
  DEF IInv, Switch, TableTypes, DialogTypes, DialogKnowsItsRow, StaysMounted, RejectWaits,
      RequestsNameTheirRow, RejectStep, modal

(***************************************************************************)
(* Opening a form on the row that was clicked: one for another rejection   *)
(* only while none waits for its answer.                                   *)
(***************************************************************************)
LEMMA ShowKeeps ==
  ASSUME IInv, dialog = "none", NEW name \in DialogsOf[scene] \ {"none"}, NEW r \in AnyRow,
         name = "create" => r = NoRow,
         name = "reject" => ~Pending("reject") /\ scene = "registrations", Show(name, r)
  PROVE  IInv' /\ RejectStep
<1>1. /\ ListTypes' /\ TableTypes' /\ scene' = scene
      /\ UNCHANGED <<calls, asked>> /\ dialog' = name /\ target' = r /\ shown' = r
  BY Parts DEF Show, list, IInv, ListTypes, TableTypes
<1>2. DialogTypes'
  BY <1>1, Parts DEF DialogTypes, IInv
<1>3. DialogKnowsItsRow'
  BY <1>1 DEF DialogKnowsItsRow, DialogsOf, Contents, IInv, TypeOK
<1>4. StaysMounted'
  BY <1>1 DEF StaysMounted, IInv
<1>5. RejectWaits'
  <2>1. CASE name = "reject"
    BY <1>1, <2>1 DEF RejectWaits, StaysMounted, Pending, IInv
  <2>2. CASE name # "reject"
    BY <1>1, <2>2 DEF RejectWaits, IInv
  <2>3. QED
    BY <2>1, <2>2
<1>6. RequestsNameTheirRow' /\ RejectStep
  BY <1>1 DEF IInv, RequestsNameTheirRow, RejectStep
<1>7. QED
  BY <1>1, <1>2, <1>3, <1>4, <1>5, <1>6, Parts, PartsNext DEF IInv

(***************************************************************************)
(* The question before a delete is asked, about a row or another one, or   *)
(* is left. On the users page it takes its row along.                      *)
(***************************************************************************)
LEMMA QuestionKeeps ==
  ASSUME IInv, dialog = "none", scene # "roles", UNCHANGED <<dialog, shown>>, Keep,
         target' \in AnyRow, asked' \in AnyRow,
         scene = "users" => target' = asked'
  PROVE  IInv' /\ RejectStep
<1>1. /\ ListTypes' /\ TableTypes' /\ scene' = scene /\ calls' = calls
  BY Parts DEF Keep, list, IInv, ListTypes, TableTypes
<1>2. DialogTypes' /\ DialogKnowsItsRow'
  BY <1>1, Parts DEF DialogTypes, DialogKnowsItsRow, IInv
<1>3. StaysMounted' /\ RejectWaits'
  BY <1>1 DEF StaysMounted, RejectWaits, IInv
<1>4. RequestsNameTheirRow' /\ RejectStep
  BY <1>1 DEF IInv, RequestsNameTheirRow, RejectStep
<1>5. QED
  BY <1>1, <1>2, <1>3, <1>4, Parts, PartsNext DEF IInv

(***************************************************************************)
(* A request about the row that was clicked, or a delete about the row     *)
(* that is selected.                                                       *)
(***************************************************************************)
ClickedOrSelected(op, r, clicked) == r = clicked \/ (op = "delete" /\ scene \in Selecting)

LEMMA SendCalls ==
  ASSUME IInv, NEW op \in Ops, NEW r \in AnyRow, NEW clicked \in AnyRow,
         NEW value \in Values \cup {Edited},
         ClickedOrSelected(op, r, clicked), Send(op, r, clicked, value)
  PROVE  /\ (calls \subseteq Call)' /\ RequestsNameTheirRow'
         /\ ListTypes' /\ TableTypes' /\ scene' = scene
         /\ \E new : /\ calls' = calls \cup {new}
                     /\ new.op = op /\ new.row = r /\ new.by = "mounted"
<1>1. PICK new \in Call :
        /\ calls' = calls \cup {new}
        /\ new.row = r /\ new.shown = clicked /\ new.op = op /\ new.by = "mounted"
  <2>1. [op |-> op, row |-> r, shown |-> clicked, sent |-> value, at |-> "sent",
         by |-> "mounted"] \in Call
    BY DEF Call
  <2>2. QED
    BY <2>1 DEF Send
<1>2. ListTypes' /\ TableTypes' /\ scene' = scene
  BY Parts DEF IInv, Send, list, ListTypes, TableTypes
<1>3. RequestsNameTheirRow'
  BY <1>1, <1>2 DEF IInv, RequestsNameTheirRow, ClickedOrSelected
<1>4. QED
  BY <1>1, <1>2, <1>3, Parts DEF IInv

(***************************************************************************)
(* Such a request leaves the invariant; a rejection concerns the row of    *)
(* its form.                                                               *)
(***************************************************************************)
LEMMA SendKeeps ==
  ASSUME IInv, NEW op \in Ops, NEW r \in AnyRow, NEW clicked \in AnyRow,
         NEW value \in Values \cup {Edited},
         ClickedOrSelected(op, r, clicked), op = "reject" => r = shown,
         ~Pending(op), Send(op, r, clicked, value), UNCHANGED modal
  PROVE  IInv' /\ RejectStep
<1>1. /\ (calls \subseteq Call)' /\ RequestsNameTheirRow'
      /\ ListTypes' /\ TableTypes' /\ scene' = scene
  BY SendCalls
<1>2. PICK new : /\ calls' = calls \cup {new}
                 /\ new.op = op /\ new.row = r /\ new.by = "mounted"
  BY SendCalls
<1>3. DialogTypes' /\ DialogKnowsItsRow'
  BY <1>1, Parts DEF IInv, DialogTypes, DialogKnowsItsRow, modal
<1>4. StaysMounted'
  BY <1>1, <1>2 DEF IInv, StaysMounted
<1>5. RejectWaits'
  <2>1. CASE op # "reject" \/ scene # "registrations"
    BY <1>1, <1>2, <2>1 DEF RejectWaits, modal, IInv
  <2>2. CASE op = "reject" /\ scene = "registrations"
    <3>1. \A c \in calls : c.op # "reject"
      BY <2>2 DEF StaysMounted, Pending, IInv
    <3>2. QED
      BY <1>1, <1>2, <2>2, <3>1 DEF RejectWaits, modal
  <2>3. QED
    BY <2>1, <2>2
<1>6. RejectStep
  BY DEF RejectStep, modal
<1>7. QED
  BY <1>1, <1>3, <1>4, <1>5, <1>6, PartsNext DEF IInv

(***************************************************************************)
(* Requests that are answered or lose their modal are what they were.      *)
(***************************************************************************)
LEMMA FewerCalls ==
  ASSUME IInv, NEW ops, scene' = scene,
         calls' \subseteq calls \/ calls' \subseteq Unmount(ops)
  PROVE  (calls \subseteq Call)' /\ RequestsNameTheirRow'
<1>1. ASSUME NEW c \in Call
      PROVE  /\ Orphan(c) \in Call
             /\ Orphan(c).op = c.op
             /\ Orphan(c).row = c.row /\ Orphan(c).shown = c.shown
  BY DEF Call, Orphan
<1>2. QED
  BY <1>1, Parts DEF IInv, Unmount, RequestsNameTheirRow

(***************************************************************************)
(* The answer of a request that was done.                                  *)
(***************************************************************************)
LEMMA AnsweredTypes ==
  ASSUME IInv, NEW c, Answered(c)
  PROVE  ListTypes' /\ TableTypes' /\ scene' = scene /\ c \in calls
BY Parts DEF IInv, Answered, Invalidate, Ask, ListTypes, TableTypes

(***************************************************************************)
(* A step of the list or of the table alone.                               *)
(***************************************************************************)
LEMMA FrameKeeps ==
  ASSUME IInv, ListTypes', TableTypes', scene' = scene, UNCHANGED <<modal, calls>>
  PROVE  IInv' /\ RejectStep
BY Parts, PartsNext
   DEF IInv, DialogTypes, DialogKnowsItsRow, StaysMounted, RejectWaits,
       RequestsNameTheirRow, RejectStep, modal

(***************************************************************************)
(* What the pages send are values of rows.                                 *)
(***************************************************************************)
LEMMA SentValues ==
  ASSUME IInv
  PROVE  /\ Holds \subseteq Values /\ Gone \in Values
         /\ scene = "registrations" => "decided" \in Values
         /\ scene = "roles" => "custom" \in Values
<1>1. scene \in Scenes
  BY DEF IInv, TypeOK
<1>2. Holds \subseteq Values /\ Gone \in Values
  BY <1>1 DEF Holds, Values, Content
<1>3. Contents["registrations"][2] = "decided" /\ Contents["roles"][1] = "custom"
  BY DEF Contents
<1>4. QED
  BY <1>1, <1>2, <1>3 DEF Holds

(***************************************************************************)
(* An empty form leaves the row of the dialog before it selected.          *)
(***************************************************************************)
LEMMA CreateOpens ==
  ASSUME IInv, dialog = "none", dialog' = "create", "create" \in DialogsOf[scene],
         UNCHANGED <<target, shown, asked>>, Keep
  PROVE  IInv' /\ RejectStep
<1>1. /\ ListTypes' /\ TableTypes' /\ scene' = scene /\ calls' = calls
  BY Parts DEF Keep, list, IInv, ListTypes, TableTypes
<1>2. DialogTypes' /\ DialogKnowsItsRow'
  BY <1>1, Parts DEF DialogTypes, DialogKnowsItsRow, IInv
<1>3. StaysMounted' /\ RejectWaits'
  BY <1>1 DEF StaysMounted, RejectWaits, IInv
<1>4. RequestsNameTheirRow' /\ RejectStep
  BY <1>1 DEF IInv, RequestsNameTheirRow, RejectStep
<1>5. QED
  BY <1>1, <1>2, <1>3, <1>4, Parts, PartsNext DEF IInv

(***************************************************************************)
(* Registrations and users: the question is closed when the delete is sent. *)
(***************************************************************************)
LEMMA DeleteAndClose ==
  ASSUME IInv, scene \in {"registrations", "users"}, ConfirmIdle(scene), target # NoRow,
         Send("delete", target, asked, Gone),
         asked' = NoRow, target' = NoRow, UNCHANGED <<dialog, shown>>
  PROVE  IInv' /\ RejectStep
<1>1. dialog = "none" /\ target \in AnyRow /\ asked \in AnyRow
  BY Parts DEF ConfirmIdle, Free, At, IInv, DialogTypes
<1>2. ClickedOrSelected("delete", target, asked)
  BY <1>1 DEF ClickedOrSelected, Selecting, IInv, DialogKnowsItsRow, ConfirmIdle
<1>3. /\ (calls \subseteq Call)' /\ RequestsNameTheirRow'
      /\ ListTypes' /\ TableTypes' /\ scene' = scene
      /\ \E new : /\ calls' = calls \cup {new}
                  /\ new.op = "delete" /\ new.row = target /\ new.by = "mounted"
  BY <1>1, <1>2, SendCalls, SentValues DEF Ops
<1>4. DialogTypes' /\ DialogKnowsItsRow'
  BY <1>1, <1>3, Parts DEF DialogTypes, DialogKnowsItsRow, AnyRow, IInv
<1>5. StaysMounted' /\ RejectWaits' /\ RejectStep
  BY <1>3 DEF StaysMounted, RejectWaits, RejectStep, IInv
<1>6. QED
  BY <1>3, <1>4, <1>5, PartsNext DEF IInv

(***************************************************************************)
(* A modal that goes leaves the requests to reject as they were.           *)
(***************************************************************************)
LEMMA RejectionsStay ==
  ASSUME NEW ops, "reject" \notin ops, calls' = Unmount(ops)
  PROVE  \A c \in calls : c.op = "reject" => c \in calls'
BY DEF Unmount

(***************************************************************************)
(* So does the answer to another request.                                  *)
(***************************************************************************)
LEMMA AnsweredAlone ==
  ASSUME calls \subseteq Call, NEW c \in calls, NEW ops, "reject" \notin ops, c.op # "reject",
         calls' = calls \ {c} \/ calls' = Unmount(ops) \ {Orphan(c)}
  PROVE  \A d \in calls : d.op = "reject" => d \in calls'
<1>1. Orphan(c).op = c.op
  BY DEF Orphan, Call
<1>2. QED
  BY <1>1 DEF Unmount

(***************************************************************************)
(* A step of the events page.                                              *)
(***************************************************************************)
LEMMA EventStep ==
  ASSUME IInv, EventNext
  PROVE  IInv' /\ RejectStep
<1>1. CASE \E f \in {"all", Contents["events"][1]} : EventFilter(f)
  BY <1>1, SwitchKeeps DEF EventFilter, Free, At, Turn, IInv, TypeOK, Filters
<1>2. CASE \E r \in Rows : EventTurn(r)
  BY <1>2, SwitchKeeps DEF EventTurn, Free, At, Turn, IInv, TypeOK, Filters
<1>3. CASE \E r \in Rows : EventOpen(r)
  <2>1. PICK r \in Rows : EventOpen(r)
    BY <1>3
  <2>2. dialog = "none" /\ {"edit", "speaker"} \subseteq DialogsOf[scene] \ {"none"}
    BY <2>1 DEF EventOpen, Free, At, DialogsOf
  <2>3. Show("edit", r) \/ Show("speaker", r)
    BY <2>1 DEF EventOpen
  <2>4. QED
    BY <2>2, <2>3, ShowKeeps DEF AnyRow
<1>4. CASE EventOpenCreate
  BY <1>4, ShowKeeps DEF EventOpenCreate, Free, At, Listed, AnyRow, DialogsOf, IInv, TypeOK
<1>5. CASE EventCancel
  <2>1. CASE ConfirmIdle("events") /\ asked' = NoRow /\ UNCHANGED <<dialog, target, shown>>
    BY <1>5, <2>1, QuestionKeeps
    DEF EventCancel, ConfirmIdle, Free, At, AnyRow, IInv, TypeOK
  <2>2. CASE dialog # "none" /\ Close /\ target' = NoRow /\ UNCHANGED asked
    <3>1. /\ ListTypes' /\ TableTypes' /\ scene' = scene /\ calls' = calls
      BY <1>5, Parts DEF EventCancel, Keep, list, IInv, ListTypes, TableTypes
    <3>2. DialogTypes' /\ DialogKnowsItsRow'
      BY <1>5, <2>2, <3>1, Parts
      DEF EventCancel, Close, DialogTypes, DialogsOf, DialogKnowsItsRow, AnyRow, IInv
    <3>3. StaysMounted' /\ RejectWaits' /\ RequestsNameTheirRow' /\ RejectStep
      BY <1>5, <3>1
      DEF EventCancel, StaysMounted, RejectWaits, RequestsNameTheirRow, RejectStep, IInv
    <3>4. QED
      BY <3>1, <3>2, <3>3, Parts, PartsNext DEF IInv
  <2>3. QED
    BY <1>5, <2>1, <2>2 DEF EventCancel
<1>6. CASE handleCreateSubmit
  BY <1>6, SendKeeps, SentValues
  DEF handleCreateSubmit, EventFormDialog, At, Ops, AnyRow, ClickedOrSelected
<1>7. CASE handleEditSubmit
  BY <1>7, SendKeeps, SentValues
  DEF handleEditSubmit, EventFormDialog, At, Ops, IInv, TypeOK, DialogKnowsItsRow,
      Selecting, ClickedOrSelected
<1>8. CASE handleSpeakerSubmit
  BY <1>8, SendKeeps, SentValues
  DEF handleSpeakerSubmit, SpeakerFormDialog, At, Ops, IInv, TypeOK, DialogKnowsItsRow,
      ClickedOrSelected
<1>9. CASE EventDelete
  BY <1>9, SendKeeps, SentValues
  DEF EventDelete, ConfirmIdle, Ops, IInv, TypeOK, ClickedOrSelected
<1>10. CASE \E r \in Rows, status \in Holds : handleStatusChange(r, status)
  BY <1>10, SendKeeps, SentValues
  DEF handleStatusChange, StatusSelect, Ops, AnyRow, ClickedOrSelected
<1>11. CASE \E c \in calls : EventAnswered(c)
  <2>1. PICK c \in calls : EventAnswered(c)
    BY <1>11
  <2>2. ListTypes' /\ TableTypes' /\ scene' = scene
    BY <2>1, AnsweredTypes DEF EventAnswered
  <2>3. (calls \subseteq Call)' /\ RequestsNameTheirRow'
    BY <2>1, <2>2, FewerCalls DEF EventAnswered
  <2>4. DialogTypes' /\ DialogKnowsItsRow'
    BY <2>1, <2>2, Parts
    DEF EventAnswered, CloseIf, DialogTypes, DialogsOf, DialogKnowsItsRow, AnyRow, IInv
  <2>5. StaysMounted' /\ RejectWaits'
    BY <2>1, <2>2 DEF EventAnswered, StaysMounted, RejectWaits, IInv
  <2>6. RejectStep
    BY <2>1 DEF EventAnswered, CloseIf, RejectStep
  <2>7. QED
    BY <2>2, <2>3, <2>4, <2>5, <2>6, PartsNext DEF IInv
<1>12. CASE \E r \in Rows : EventDeleteClick(r)
  BY <1>12, QuestionKeeps DEF EventDeleteClick, Free, At, AnyRow, IInv, TypeOK
<1>13. QED
  BY <1>1, <1>2, <1>3, <1>4, <1>5, <1>6, <1>7, <1>8, <1>9, <1>10, <1>11, <1>12 DEF EventNext

(***************************************************************************)
(* A step of the page of registrations.                                    *)
(***************************************************************************)
LEMMA RegistrationStep ==
  ASSUME IInv, RegistrationNext
  PROVE  IInv' /\ RejectStep
<1>1. CASE \E f \in {"all", Contents["registrations"][1]} : RegistrationFilter(f)
  BY <1>1, SwitchKeeps DEF RegistrationFilter, Free, At, Turn, IInv, TypeOK, Filters
<1>2. CASE \E r \in Rows : RegistrationTurn(r)
  BY <1>2, SwitchKeeps DEF RegistrationTurn, Free, At, Turn, IInv, TypeOK, Filters
<1>3. CASE \E r \in Rows : handleApprove(r)
  BY <1>3, SendKeeps, SentValues
  DEF handleApprove, At, Free, Ops, AnyRow, ClickedOrSelected
<1>4. CASE \E r \in Rows : handleRejectClick(r)
  BY <1>4, ShowKeeps DEF handleRejectClick, Free, At, AnyRow, DialogsOf
<1>5. CASE \E r \in Rows : RegistrationDeleteClick(r)
  BY <1>5, QuestionKeeps DEF RegistrationDeleteClick, AskDelete, Free, At, AnyRow
<1>6. CASE \E r \in Rows : handleViewDetail(r)
  BY <1>6, ShowKeeps DEF handleViewDetail, Free, At, AnyRow, DialogsOf
<1>7. CASE RegistrationCancel
  <2>1. CASE /\ ConfirmIdle("registrations")
             /\ asked' = NoRow /\ target' = NoRow /\ UNCHANGED <<dialog, shown>>
    BY <1>7, <2>1, QuestionKeeps DEF RegistrationCancel, ConfirmIdle, Free, At, AnyRow
  <2>2. CASE /\ scene = "registrations" /\ dialog # "none"
             /\ Close /\ UNCHANGED <<target, asked>>
    <3>1. /\ ListTypes' /\ TableTypes' /\ scene' = scene /\ calls' = calls
      BY <1>7, Parts DEF RegistrationCancel, Keep, list, IInv, ListTypes, TableTypes
    <3>2. DialogTypes' /\ DialogKnowsItsRow'
      BY <2>2, <3>1, Parts
      DEF Close, DialogTypes, DialogsOf, DialogKnowsItsRow, AnyRow, IInv
    <3>3. StaysMounted' /\ RejectWaits' /\ RequestsNameTheirRow' /\ RejectStep
      BY <2>2, <3>1
      DEF Close, StaysMounted, RejectWaits, RequestsNameTheirRow, RejectStep, IInv
    <3>4. QED
      BY <3>1, <3>2, <3>3, Parts, PartsNext DEF IInv
  <2>3. QED
    BY <1>7, <2>1, <2>2 DEF RegistrationCancel
<1>8. CASE handleRejectConfirm
  BY <1>8, SendKeeps, SentValues
  DEF handleRejectConfirm, At, Ops, IInv, TypeOK, DialogKnowsItsRow, ClickedOrSelected
<1>9. CASE RegistrationDelete
  BY <1>9, DeleteAndClose DEF RegistrationDelete, ConfirmIdle, Free, At
<1>10. CASE \E c \in calls : RegistrationAnswered(c)
  <2>1. PICK c \in calls : RegistrationAnswered(c)
    BY <1>10
  <2>2. ListTypes' /\ TableTypes' /\ scene' = scene
    BY <2>1, AnsweredTypes DEF RegistrationAnswered
  <2>3. (calls \subseteq Call)' /\ RequestsNameTheirRow'
    BY <2>1, <2>2, FewerCalls DEF RegistrationAnswered
  <2>4. DialogTypes' /\ DialogKnowsItsRow'
    BY <2>1, <2>2, Parts
    DEF RegistrationAnswered, CloseIf, DialogTypes, DialogsOf, DialogKnowsItsRow, Selecting,
        AnyRow, IInv, modal
  <2>5. StaysMounted' /\ RejectWaits'
    BY <2>1, <2>2
    DEF RegistrationAnswered, CloseIf, StaysMounted, RejectWaits, IInv, modal
  <2>6. RejectStep
    BY <2>1
    DEF RegistrationAnswered, CloseIf, RejectStep, RejectWaits, DialogKnowsItsRow, IInv, modal
  <2>7. QED
    BY <2>2, <2>3, <2>4, <2>5, <2>6, PartsNext DEF IInv
<1>11. QED
  BY <1>1, <1>2, <1>3, <1>4, <1>5, <1>6, <1>7, <1>8, <1>9, <1>10 DEF RegistrationNext

(***************************************************************************)
(* A step of the users page.                                               *)
(***************************************************************************)
LEMMA UserStep ==
  ASSUME IInv, UserNext
  PROVE  IInv' /\ RejectStep
<1>1. CASE \E f \in {"all", Contents["users"][1]} : UserFilter(f)
  BY <1>1, SwitchKeeps DEF UserFilter, Free, At, Turn, IInv, TypeOK, Filters
<1>2. CASE \E r \in Rows : UserTurn(r)
  BY <1>2, SwitchKeeps DEF UserTurn, Free, At, Turn, IInv, TypeOK, Filters
<1>3. CASE \E r \in Rows : handleEditClick(r)
  BY <1>3, ShowKeeps DEF handleEditClick, Free, At, AnyRow, DialogsOf
<1>4. CASE UserOpenCreate
  BY <1>4, ShowKeeps DEF UserOpenCreate, Free, At, AnyRow, DialogsOf
<1>5. CASE UserOpenRoles \/ UserRolesCancel
  <2>1. /\ ListTypes' /\ TableTypes' /\ scene' = scene /\ calls' = calls
    BY <1>5, Parts DEF UserOpenRoles, UserRolesCancel, Keep, list, IInv, ListTypes, TableTypes
  <2>2. DialogTypes' /\ DialogKnowsItsRow'
    BY <1>5, <2>1, Parts
    DEF UserOpenRoles, UserRolesCancel, At, DialogTypes, DialogsOf, DialogKnowsItsRow,
        Selecting, IInv
  <2>3. StaysMounted' /\ RejectWaits'
    BY <1>5, <2>1 DEF UserOpenRoles, UserRolesCancel, At, StaysMounted, RejectWaits
  <2>4. RequestsNameTheirRow' /\ RejectStep
    BY <2>1 DEF IInv, RequestsNameTheirRow, RejectStep
  <2>5. QED
    BY <2>1, <2>2, <2>3, <2>4, Parts, PartsNext DEF IInv
<1>6. CASE UserCancel
  <2>1. CASE /\ ConfirmIdle("users") /\ asked' = NoRow /\ target' = NoRow
             /\ UNCHANGED <<dialog, shown, calls>>
    BY <1>6, <2>1, QuestionKeeps DEF UserCancel, ConfirmIdle, Free, At, AnyRow, Keep
  <2>2. CASE /\ At("users", "create") \/ At("users", "edit")
             /\ Close /\ UNCHANGED asked
             /\ \/ dialog = "create" /\ UNCHANGED <<target, calls>>
                \/ target' = NoRow /\ calls' = Unmount({"update", "userRoles"})
    <3>1. /\ ListTypes' /\ TableTypes' /\ scene' = scene /\ scene = "users"
          /\ calls' = calls \/ calls' = Unmount({"update", "userRoles"})
      BY <1>6, <2>2, Parts DEF UserCancel, At, list, IInv, ListTypes, TableTypes
    <3>2. (calls \subseteq Call)' /\ RequestsNameTheirRow'
      BY <3>1, FewerCalls
    <3>3. DialogTypes' /\ DialogKnowsItsRow'
      BY <2>2, <3>1, Parts
      DEF Close, DialogTypes, DialogsOf, DialogKnowsItsRow, AnyRow, IInv
    <3>4. StaysMounted' /\ RejectWaits'
      BY <3>1 DEF StaysMounted, RejectWaits
    <3>5. RejectStep
      BY <3>1, RejectionsStay DEF RejectStep
    <3>6. QED
      BY <3>1, <3>2, <3>3, <3>4, <3>5, PartsNext DEF IInv
  <2>3. QED
    BY <1>6, <2>1, <2>2 DEF UserCancel, At
<1>7. CASE UserCreate
  BY <1>7, SendKeeps, SentValues DEF UserCreate, At, Ops, AnyRow, ClickedOrSelected
<1>8. CASE UserUpdate
  BY <1>8, SendKeeps, SentValues
  DEF UserUpdate, At, Ops, IInv, TypeOK, DialogKnowsItsRow, Selecting, ClickedOrSelected
<1>9. CASE handleRolesUpdate
  BY <1>9, SendKeeps, SentValues
  DEF handleRolesUpdate, At, Ops, IInv, TypeOK, DialogKnowsItsRow, Selecting, ClickedOrSelected
<1>10. CASE UserDelete
  BY <1>10, DeleteAndClose DEF UserDelete, ConfirmIdle, Free, At
<1>11. CASE \E c \in calls : UserAnswered(c)
  <2>1. PICK c \in calls : UserAnswered(c)
    BY <1>11
  <2>2. ListTypes' /\ TableTypes' /\ scene' = scene
    BY <2>1, AnsweredTypes DEF UserAnswered
  <2>3. \/ calls' = calls \ {c} /\ (c.op = "reject" => dialog' = dialog)
        \/ calls' = Unmount({"update", "userRoles"}) \ {Orphan(c)} /\ c.op = "update"
    BY <2>1 DEF UserAnswered, modal
  <2>4. (calls \subseteq Call)' /\ RequestsNameTheirRow'
    BY <2>2, <2>3, FewerCalls
  <2>5. DialogTypes' /\ DialogKnowsItsRow'
    BY <2>1, <2>2, Parts
    DEF UserAnswered, CloseIf, DialogTypes, DialogsOf, DialogKnowsItsRow, AnyRow, IInv, modal
  <2>6. StaysMounted' /\ RejectWaits'
    BY <2>1, <2>2 DEF UserAnswered, StaysMounted, RejectWaits
  <2>7. RejectStep
    BY <2>3, Parts, AnsweredAlone DEF RejectStep, IInv
  <2>8. QED
    BY <2>2, <2>4, <2>5, <2>6, <2>7, PartsNext DEF IInv
<1>12. CASE \E r \in Rows : UserDeleteClick(r)
  BY <1>12, QuestionKeeps DEF UserDeleteClick, AskDelete, Free, At, AnyRow
<1>13. QED
  BY <1>1, <1>2, <1>3, <1>4, <1>5, <1>6, <1>7, <1>8, <1>9, <1>10, <1>11, <1>12 DEF UserNext

(***************************************************************************)
(* A step of the roles page.                                               *)
(***************************************************************************)
LEMMA RoleStep ==
  ASSUME IInv, RoleNext
  PROVE  IInv' /\ RejectStep
<1>1. CASE \E f \in {"all", Contents["roles"][1]} : RoleFilter(f)
  BY <1>1, SwitchKeeps DEF RoleFilter, Free, At, Turn, IInv, TypeOK, Filters
<1>2. CASE \E r \in Rows : RoleTurn(r)
  BY <1>2, SwitchKeeps DEF RoleTurn, Free, At, Turn, IInv, TypeOK, Filters
<1>3. CASE \E r \in Rows : handleEdit(r) \/ handleManagePermissions(r)
  <2>1. PICK r \in Rows : handleEdit(r) \/ handleManagePermissions(r)
    BY <1>3
  <2>2. dialog = "none" /\ {"edit", "permissions"} \subseteq DialogsOf[scene] \ {"none"}
    BY <2>1 DEF handleEdit, handleManagePermissions, Free, At, DialogsOf
  <2>3. Show("edit", r) \/ Show("permissions", r)
    BY <2>1 DEF handleEdit, handleManagePermissions
  <2>4. QED
    BY <2>2, <2>3, ShowKeeps DEF AnyRow
<1>4. CASE RoleOpenCreate
  BY <1>4, CreateOpens DEF RoleOpenCreate, Free, At, DialogsOf
<1>5. CASE RoleCancel
  <2>1. /\ ListTypes' /\ TableTypes' /\ scene' = scene
        /\ calls' = Unmount({RoleOp(dialog)})
    BY <1>5, Parts DEF RoleCancel, list, IInv, ListTypes, TableTypes
  <2>2. (calls \subseteq Call)' /\ RequestsNameTheirRow'
    BY <2>1, FewerCalls
  <2>3. DialogTypes' /\ DialogKnowsItsRow'
    BY <1>5, <2>1, Parts
    DEF RoleCancel, Close, DialogTypes, DialogsOf, DialogKnowsItsRow, AnyRow, IInv
  <2>4. StaysMounted' /\ RejectWaits'
    BY <1>5, <2>1 DEF RoleCancel, StaysMounted, RejectWaits
  <2>5. RoleOp(dialog) # "reject"
    BY <1>5, Parts DEF RoleCancel, RoleOp, DialogTypes, DialogsOf, IInv
  <2>6. RejectStep
    BY <2>1, <2>5, RejectionsStay DEF RejectStep
  <2>7. QED
    BY <2>1, <2>2, <2>3, <2>4, <2>6, PartsNext DEF IInv
<1>6. CASE RoleCreate
  BY <1>6, SendKeeps, SentValues DEF RoleCreate, At, Ops, AnyRow, ClickedOrSelected
<1>7. CASE RoleUpdate
  BY <1>7, SendKeeps, SentValues
  DEF RoleUpdate, At, Ops, IInv, TypeOK, DialogKnowsItsRow, Selecting, ClickedOrSelected
<1>8. CASE RolePermissions
  BY <1>8, SendKeeps, SentValues
  DEF RolePermissions, At, Ops, IInv, TypeOK, DialogKnowsItsRow, Selecting, ClickedOrSelected
<1>9. CASE \E r \in Rows : RoleDelete(r)
  BY <1>9, SendKeeps, SentValues DEF RoleDelete, Ops, AnyRow, ClickedOrSelected
<1>10. CASE \E c \in calls : RoleAnswered(c)
  <2>1. PICK c \in calls : RoleAnswered(c)
    BY <1>10
  <2>2. ListTypes' /\ TableTypes' /\ scene' = scene
    BY <2>1, AnsweredTypes DEF RoleAnswered
  <2>3. RoleOp(dialog) # "reject"
    BY <2>1, Parts DEF RoleAnswered, RoleOp, DialogTypes, DialogsOf, IInv
  <2>4. \/ calls' = calls \ {c} /\ dialog' = dialog
        \/ calls' = Unmount({c.op}) \ {Orphan(c)} /\ c.op # "reject"
    BY <2>1, <2>3 DEF RoleAnswered, CloseIf
  <2>5. (calls \subseteq Call)' /\ RequestsNameTheirRow'
    BY <2>2, <2>4, FewerCalls
  <2>6. DialogTypes' /\ DialogKnowsItsRow'
    BY <2>1, <2>2, Parts
    DEF RoleAnswered, CloseIf, DialogTypes, DialogsOf, DialogKnowsItsRow, AnyRow, IInv
  <2>7. StaysMounted' /\ RejectWaits'
    BY <2>1, <2>2 DEF RoleAnswered, StaysMounted, RejectWaits
  <2>8. RejectStep
    BY <2>4, Parts, AnsweredAlone DEF RejectStep, IInv
  <2>9. QED
    BY <2>2, <2>5, <2>6, <2>7, <2>8, PartsNext DEF IInv
<1>11. QED
  BY <1>1, <1>2, <1>3, <1>4, <1>5, <1>6, <1>7, <1>8, <1>9, <1>10 DEF RoleNext

(***************************************************************************)
(* What a step of the roadmaps page does, on either of the two pages.      *)
(***************************************************************************)
LEMMA RoadmapSteps ==
  ASSUME IInv, NEW s \in {"roadmaps", "roadmap_items"}
  PROVE  /\ \A f \in Filters : RoadmapFilter(s, f) => IInv' /\ RejectStep
         /\ \A r \in Rows : RoadmapTurn(s, r) => IInv' /\ RejectStep
         /\ \A r \in Rows : RoadmapOpenEdit(s, r) \/ RoadmapOpenDelete(s, r)
                              => IInv' /\ RejectStep
         /\ RoadmapOpenCreate(s) => IInv' /\ RejectStep
         /\ RoadmapCancel(s) => IInv' /\ RejectStep
         /\ handleCreate(s) \/ handleUpdate(s) \/ handleDelete(s) => IInv' /\ RejectStep
         /\ \A c \in calls : RoadmapAnswered(s, c) => IInv' /\ RejectStep
<1>1. ASSUME NEW f \in Filters, RoadmapFilter(s, f)
      PROVE  IInv' /\ RejectStep
  BY <1>1, SwitchKeeps DEF RoadmapFilter, IInv, TypeOK
<1>2. ASSUME NEW r \in Rows, RoadmapTurn(s, r)
      PROVE  IInv' /\ RejectStep
  BY <1>2, SwitchKeeps DEF RoadmapTurn, Turn, IInv, TypeOK
<1>3. ASSUME NEW r \in Rows, RoadmapOpenEdit(s, r) \/ RoadmapOpenDelete(s, r)
      PROVE  IInv' /\ RejectStep
  <2>1. CASE RoadmapOpenEdit(s, r)
    BY <2>1, ShowKeeps DEF RoadmapOpenEdit, Free, At, DialogsOf, AnyRow
  <2>2. CASE RoadmapOpenDelete(s, r)
    BY <2>2, QuestionKeeps DEF RoadmapOpenDelete, AskDelete, Free, At, AnyRow
  <2>3. QED
    BY <1>3, <2>1, <2>2
<1>4. ASSUME RoadmapOpenCreate(s)
      PROVE  IInv' /\ RejectStep
  BY <1>4, CreateOpens DEF RoadmapOpenCreate, Free, At, DialogsOf
<1>5. ASSUME RoadmapCancel(s)
      PROVE  IInv' /\ RejectStep
  <2>1. CASE ConfirmIdle(s) /\ asked' = NoRow /\ UNCHANGED <<dialog, target, shown>>
    BY <1>5, <2>1, QuestionKeeps
    DEF RoadmapCancel, ConfirmIdle, Free, At, AnyRow, IInv, TypeOK
  <2>2. CASE /\ At(s, "create") \/ At(s, "edit")
             /\ Close /\ target' \in {target, NoRow} /\ UNCHANGED asked
    <3>1. /\ ListTypes' /\ TableTypes' /\ scene' = scene /\ scene = s /\ calls' = calls
      BY <1>5, <2>2, Parts DEF RoadmapCancel, At, Keep, list, IInv, ListTypes, TableTypes
    <3>2. DialogTypes' /\ DialogKnowsItsRow'
      BY <2>2, <3>1, Parts
      DEF Close, DialogTypes, DialogsOf, DialogKnowsItsRow, AnyRow, IInv
    <3>3. StaysMounted' /\ RejectWaits' /\ RequestsNameTheirRow' /\ RejectStep
      BY <3>1
      DEF StaysMounted, RejectWaits, RequestsNameTheirRow, RejectStep, IInv
    <3>4. QED
      BY <3>1, <3>2, <3>3, Parts, PartsNext DEF IInv
  <2>3. QED
    BY <1>5, <2>1, <2>2 DEF RoadmapCancel
<1>6. ASSUME handleCreate(s)
      PROVE  IInv' /\ RejectStep
  BY <1>6, SendKeeps, SentValues DEF handleCreate, Ops, AnyRow, ClickedOrSelected
<1>7. ASSUME handleUpdate(s)
      PROVE  IInv' /\ RejectStep
  BY <1>7, SendKeeps, SentValues
  DEF handleUpdate, At, Ops, IInv, TypeOK, DialogKnowsItsRow, ClickedOrSelected
<1>8. ASSUME handleDelete(s)
      PROVE  IInv' /\ RejectStep
  BY <1>8, SendKeeps, SentValues
  DEF handleDelete, ConfirmIdle, Free, At, Ops, IInv, TypeOK, Selecting, ClickedOrSelected
<1>9. ASSUME NEW c \in calls, RoadmapAnswered(s, c)
      PROVE  IInv' /\ RejectStep
  <2>1. ListTypes' /\ TableTypes' /\ scene' = scene
    BY <1>9, AnsweredTypes DEF RoadmapAnswered
  <2>2. (calls \subseteq Call)' /\ RequestsNameTheirRow'
    BY <1>9, <2>1, FewerCalls DEF RoadmapAnswered
  <2>3. DialogTypes' /\ DialogKnowsItsRow'
    BY <1>9, <2>1, Parts
    DEF RoadmapAnswered, CloseIf, DialogTypes, DialogsOf, DialogKnowsItsRow, Selecting,
        AnyRow, IInv, modal
  <2>4. StaysMounted' /\ RejectWaits'
    BY <1>9, <2>1
    DEF RoadmapAnswered, StaysMounted, RejectWaits, IInv
  <2>5. RejectStep
    BY <1>9 DEF RoadmapAnswered, CloseIf, RejectStep, modal
  <2>6. QED
    BY <2>1, <2>2, <2>3, <2>4, <2>5, PartsNext DEF IInv
<1>10. QED
  BY <1>1, <1>2, <1>3, <1>4, <1>5, <1>6, <1>7, <1>8, <1>9

(***************************************************************************)
(* A step of the roadmaps page or of the page of roadmap items.            *)
(***************************************************************************)
LEMMA RoadmapStep ==
  ASSUME IInv, RoadmapNext \/ ItemNext
  PROVE  IInv' /\ RejectStep
<1>1. CASE RoadmapNext
  <2>1. \A f \in {"all", Contents["roadmaps"][1]} :
          RoadmapFilter("roadmaps", f) => f \in Filters
    BY DEF RoadmapFilter, Free, At, Filters, IInv, TypeOK
  <2>2. QED
    BY <1>1, <2>1, RoadmapSteps DEF RoadmapNext
<1>2. CASE ItemNext
  <2>1. \A f \in {"all", Contents["roadmap_items"][1]} :
          RoadmapFilter("roadmap_items", f) => f \in Filters
    BY DEF RoadmapFilter, Free, At, Filters, IInv, TypeOK
  <2>2. QED
    BY <1>2, <2>1, RoadmapSteps
    DEF ItemNext, ItemFilter, ItemTurn, ItemOpen, ItemOpenCreate, ItemCancel, ItemCreate,
        ItemUpdate, ItemDelete, ItemAnswered
<1>3. QED
  BY <1>1, <1>2

(***************************************************************************)
(* A step of the list, or of the table by another admin.                   *)
(***************************************************************************)
LEMMA ListStep ==
  ASSUME IInv,
         \/ ListServed \/ ListAnswered \/ ListFails \/ Reconnects \/ LeftListArrives
         \/ \E r \in Rows, value \in Holds \cup {Gone} : OtherWrites(r, value)
  PROVE  IInv' /\ RejectStep
<1>1. CASE ListServed \/ ListAnswered \/ ListFails \/ Reconnects \/ LeftListArrives
  BY <1>1, FrameKeeps, Parts
  DEF ListServed, ListAnswered, ListFails, Reconnects, LeftListArrives, Ask, ListTypes,
      TableTypes, IInv
<1>2. ASSUME NEW r \in Rows, NEW value \in Holds \cup {Gone}, OtherWrites(r, value)
      PROVE  IInv' /\ RejectStep
  <2>1. value \in Values
    BY SentValues
  <2>2. ListTypes' /\ TableTypes'
    BY <1>2, <2>1, Parts DEF OtherWrites, Age, ListTypes, TableTypes, IInv
  <2>3. QED
    BY <1>2, <2>2, FrameKeeps DEF OtherWrites
<1>3. QED
  BY <1>1, <1>2

(***************************************************************************)
(* A request is carried out or refused.                                    *)
(***************************************************************************)
LEMMA RequestStep ==
  ASSUME IInv, NEW c \in calls, Serve(c) \/ CallFails(c)
  PROVE  IInv' /\ RejectStep
<1>1. c \in Call
  BY Parts DEF IInv
<1>2. /\ ListTypes' /\ TableTypes' /\ scene' = scene /\ UNCHANGED modal
  <2>1. CASE CallFails(c)
    BY <2>1, Parts DEF CallFails, ListTypes, TableTypes, IInv
  <2>2. CASE Serve(c)
    <3>1. PICK r \in Rows : db' = [db EXCEPT ![r] = Written(c, r)]
      BY <2>2 DEF Serve
    <3>2. Written(c, r) \in Values
      BY <1>1, Parts DEF Written, Call, TableTypes, IInv
    <3>3. QED
      BY <2>2, <3>1, <3>2, Parts DEF Serve, Age, ListTypes, TableTypes, IInv
  <2>3. QED
    BY <2>1, <2>2
<1>3. PICK new : /\ calls' \subseteq (calls \ {c}) \cup {new}
                 /\ new \in Call /\ new.op = c.op /\ new.row = c.row
                 /\ new.shown = c.shown /\ new.by = c.by
  <2>1. /\ [c EXCEPT !.at = "done"] \in Call
        /\ [c EXCEPT !.at = "done"].op = c.op /\ [c EXCEPT !.at = "done"].row = c.row
        /\ [c EXCEPT !.at = "done"].shown = c.shown /\ [c EXCEPT !.at = "done"].by = c.by
    BY <1>1 DEF Call
  <2>2. QED
    BY <2>1 DEF Serve, CallFails
<1>4. (calls \subseteq Call)' /\ RequestsNameTheirRow'
  BY <1>2, <1>3, Parts DEF IInv, RequestsNameTheirRow
<1>5. DialogTypes' /\ DialogKnowsItsRow'
  BY <1>2, Parts DEF DialogTypes, DialogKnowsItsRow, IInv, modal
<1>6. StaysMounted' /\ RejectWaits'
  BY <1>2, <1>3 DEF StaysMounted, RejectWaits, IInv, modal
<1>7. RejectStep
  BY <1>2 DEF RejectStep, modal
<1>8. QED
  BY <1>2, <1>4, <1>5, <1>6, <1>7, PartsNext DEF IInv

(***************************************************************************)
(* The invariant holds at first.                                           *)
(***************************************************************************)
LEMMA InitInvariant == Init => IInv
<1>1. ASSUME Init PROVE TypeOK
  <2>1. \A t \in Scenes : "none" \in DialogsOf[t]
    BY DEF DialogsOf, Contents
  <2>2. QED
    BY <1>1, <2>1 DEF Init, TypeOK, AnyRow, Filters
<1>2. QED
  BY <1>1
  DEF Init, IInv, RequestsNameTheirRow, DialogKnowsItsRow, StaysMounted, RejectWaits

(***************************************************************************)
(* Every step keeps it, and is a RejectStep.                               *)
(***************************************************************************)
LEMMA StepInvariant == IInv /\ [Next]_vars => IInv' /\ [RejectStep]_vars
<1>1. ASSUME IInv, Next PROVE IInv' /\ RejectStep
  BY <1>1, EventStep, RegistrationStep, UserStep, RoleStep, RoadmapStep, ListStep, RequestStep
  DEF Next
<1>2. ASSUME IInv, UNCHANGED vars PROVE IInv'
  BY <1>2, FrameKeeps, Parts DEF vars, list, ListTypes, TableTypes, IInv
<1>3. QED
  BY <1>1, <1>2

(***************************************************************************)
(* The inductive invariant.                                                *)
(***************************************************************************)
LEMMA Invariant == Spec => []IInv
BY InitInvariant, StepInvariant, PTL DEF Spec

(***************************************************************************)
(* The pages, the list, the dialogs and the requests have their types.     *)
(***************************************************************************)
THEOREM TypeCorrect == Spec => []TypeOK
<1>1. IInv => TypeOK
  BY DEF IInv
<1>2. QED
  BY <1>1, Invariant, PTL

(***************************************************************************)
(* Whatever late answers and forms opened over a question do to the row    *)
(* that they share, a request concerns the row that was clicked; only the  *)
(* deletes of three pages do not.                                          *)
(***************************************************************************)
THEOREM RequestsAreRight == Spec => []RequestsNameTheirRow
<1>1. IInv => RequestsNameTheirRow
  BY DEF IInv
<1>2. QED
  BY <1>1, Invariant, PTL

(***************************************************************************)
(* The answer to a rejection closes its own form or none.                  *)
(***************************************************************************)
THEOREM RejectionsCloseTheirOwn == Spec => RejectClosesItsOwn
BY InitInvariant, StepInvariant, PTL DEF Spec, RejectClosesItsOwn
-----------------------------------------------------------------------------
(***************************************************************************)
(* The list. A step that leaves it and every request that is done.         *)
(***************************************************************************)
LEMMA StillToCome ==
  ASSUME TypeOK, AnswerToCome, UNCHANGED list,
         calls \subseteq calls' \/ \E ops : calls' = Unmount(ops)
  PROVE  AnswerToCome'
<1>1. ASSUME NEW c \in Call PROVE Orphan(c).at = c.at
  BY DEF Call, Orphan
<1>2. ASSUME NEW c \in calls, c.at = "done" PROVE \E d \in calls' : d.at = "done"
  BY <1>1, <1>2 DEF Unmount, TypeOK
<1>3. QED
  BY <1>2 DEF AnswerToCome, list

(***************************************************************************)
(* Turning to another list.                                                *)
(***************************************************************************)
LEMMA SwitchTold ==
  ASSUME AnswerToCome, NEW p, NEW f, Switch(p, f)
  PROVE  AnswerToCome'
BY DEF AnswerToCome, Switch

(***************************************************************************)
(* An answer has the list asked for again, or notes what a first request   *)
(* has missed.                                                             *)
(***************************************************************************)
LEMMA AnsweredTold ==
  ASSUME TypeOK, NEW c, Answered(c)
  PROVE  AnswerToCome'
BY DEF TypeOK, Answered, Invalidate, Ask, AnswerToCome

(***************************************************************************)
(* The steps of the pages.                                                 *)
(***************************************************************************)
LEMMA PagesTold ==
  ASSUME TypeOK, AnswerToCome,
         EventNext \/ RegistrationNext \/ UserNext \/ RoleNext \/ RoadmapNext \/ ItemNext
  PROVE  AnswerToCome'
<1>1. CASE EventNext
  BY <1>1, SwitchTold, AnsweredTold, StillToCome
  DEF EventNext, EventFilter, EventTurn, Turn, EventAnswered, EventOpen, EventOpenCreate,
      EventDeleteClick, EventCancel, Keep, Show, Send, EventDelete, handleCreateSubmit,
      handleEditSubmit,
      handleSpeakerSubmit, handleStatusChange
<1>2. CASE RegistrationNext
  BY <1>2, SwitchTold, AnsweredTold, StillToCome
  DEF RegistrationNext, RegistrationFilter, RegistrationTurn, Turn, RegistrationAnswered,
      handleApprove, handleRejectClick, RegistrationDeleteClick, AskDelete, handleViewDetail,
      RegistrationCancel, Keep, Show, Send, handleRejectConfirm, RegistrationDelete
<1>3. CASE UserNext
  BY <1>3, SwitchTold, AnsweredTold, StillToCome
  DEF UserNext, UserFilter, UserTurn, Turn, UserAnswered, handleEditClick, UserDeleteClick,
      UserOpenCreate, UserOpenRoles, UserRolesCancel, UserCancel, UserCreate, UserUpdate,
      handleRolesUpdate, UserDelete, AskDelete, Keep, Show, Send
<1>4. CASE RoleNext
  BY <1>4, SwitchTold, AnsweredTold, StillToCome
  DEF RoleNext, RoleFilter, RoleTurn, Turn, RoleAnswered, handleEdit, handleManagePermissions,
      RoleDelete, RoleOpenCreate, RoleCancel, RoleCreate, RoleUpdate, RolePermissions, Keep,
      Show, Send
<1>5. CASE RoadmapNext \/ ItemNext
  BY <1>5, SwitchTold, AnsweredTold, StillToCome
  DEF RoadmapNext, ItemNext, ItemFilter, ItemTurn, ItemOpen, ItemOpenCreate, ItemCancel,
      ItemCreate, ItemUpdate, ItemDelete, ItemAnswered, RoadmapFilter, RoadmapTurn, Turn,
      RoadmapOpenEdit, RoadmapOpenDelete, RoadmapOpenCreate, RoadmapCancel, RoadmapAnswered,
      handleCreate, handleUpdate, handleDelete, AskDelete, Keep, Show, Send
<1>6. QED
  BY <1>1, <1>2, <1>3, <1>4, <1>5

(***************************************************************************)
(* A request that is carried out will be answered; one whose answer is     *)
(* lost has been missed.                                                   *)
(***************************************************************************)
LEMMA RequestTold ==
  ASSUME TypeOK, AnswerToCome, NEW c \in calls, Serve(c) \/ CallFails(c)
  PROVE  AnswerToCome'
<1>1. CASE Serve(c)
  <2>1. [c EXCEPT !.at = "done"].at = "done"
    BY DEF TypeOK, Call
  <2>2. QED
    BY <1>1, <2>1 DEF Serve, AnswerToCome
<1>2. CASE CallFails(c)
  BY <1>2 DEF CallFails, AnswerToCome
<1>3. QED
  BY <1>1, <1>2

(***************************************************************************)
(* Every step.                                                             *)
(***************************************************************************)
LEMMA StepTold == TypeOK /\ AnswerToCome /\ [Next]_vars => AnswerToCome'
<1>1. ASSUME AnswerToCome,
             \/ ListServed \/ ListAnswered \/ ListFails \/ Reconnects \/ LeftListArrives
             \/ \E r \in Rows, value \in Holds \cup {Gone} : OtherWrites(r, value)
      PROVE  AnswerToCome'
  BY <1>1
  DEF ListServed, ListAnswered, ListFails, Reconnects, LeftListArrives, Ask, OtherWrites,
      AnswerToCome
<1>2. ASSUME TypeOK, AnswerToCome, UNCHANGED vars PROVE AnswerToCome'
  BY <1>2, StillToCome DEF vars
<1>3. QED
  BY <1>1, <1>2, PagesTold, RequestTold DEF Next

(***************************************************************************)
(* A list that nobody fetches and that no answer is due to refresh shows   *)
(* what the tab's own requests have made of the table.                     *)
(***************************************************************************)
THEOREM OwnWritesAreShown == Spec => []ListShowsOwnWrites
<1>1. Init => AnswerToCome
  BY DEF Init, AnswerToCome
<1>2. AnswerToCome => ListShowsOwnWrites
  BY DEF AnswerToCome, ListShowsOwnWrites
<1>3. QED
  BY <1>1, <1>2, TypeCorrect, StepTold, PTL DEF Spec
=============================================================================

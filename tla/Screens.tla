------------------------------ MODULE Screens -------------------------------
(***************************************************************************)
(* The admin pages: the tab is on one of them, which changes with its own  *)
(* actions, with the server's answers and with the writes of other admins. *)
(***************************************************************************)
EXTENDS EventScreen, RegistrationScreen, UserScreen, RoleScreen, ItemScreen

Next ==
  \/ scene = "events" /\ EventNext
  \/ scene = "registrations" /\ RegistrationNext
  \/ scene = "users" /\ UserNext
  \/ scene = "roles" /\ RoleNext
  \/ scene = "roadmaps" /\ RoadmapNext
  \/ scene = "roadmap_items" /\ ItemNext
  \/ ListServed \/ ListAnswered \/ ListFails \/ Reconnects \/ LeftListArrives
  \/ \E c \in calls : Serve(c) \/ CallFails(c)
  \/ \E r \in Rows, value \in Holds \cup {Gone} : OtherWrites(r, value)

Spec == Init /\ [][Next]_vars
-----------------------------------------------------------------------------
(***************************************************************************)
(* Types; each page has its own forms, and the roles page asks nothing.    *)
(***************************************************************************)
TypeOK ==
  /\ scene \in Scenes
  /\ db \in [Rows -> Values]
  /\ page \in Rows \cup {1} /\ filter \in Filters
  /\ view \in {"none", "current", "old", "failed"}
  /\ fetch \in {"idle", "asked", "current", "old"}
  /\ missed \in BOOLEAN /\ behind \in BOOLEAN
  /\ dialog \in DialogsOf[scene] /\ target \in AnyRow /\ shown \in AnyRow
  /\ asked \in AnyRow /\ (scene = "roles" => asked = NoRow)
  /\ calls \subseteq Call

(***************************************************************************)
(* Once every answer is in and the list is not being fetched, the screen   *)
(* shows what the tab's own requests have made of the table, whatever page *)
(* and filter it has turned to meanwhile. What it cannot know is what      *)
(* others wrote, what was written by a request whose answer was lost, and  *)
(* (a shortcoming) what came after a first fetch had read the table.       *)
(***************************************************************************)
ListShowsOwnWrites == calls = {} /\ fetch = "idle" /\ ~missed => view # "old"

(***************************************************************************)
(* A request concerns the row whose form, question or button was clicked,  *)
(* though forms and question of a page share one state, are opened over    *)
(* one another with the keyboard and late answers clear it. On three pages *)
(* a form that is left keeps its row selected, and a question that is      *)
(* behind it deletes that one: there this is not so for deletes.           *)
(***************************************************************************)
Selecting == {"registrations", "roadmaps", "roadmap_items"}

RequestsNameTheirRow ==
  \A c \in calls : c.op # "delete" \/ scene \notin Selecting => c.row = c.shown

(***************************************************************************)
(* The answer to a rejection closes no form but its own: the answer closes *)
(* the form that is open, which is another one's unless the buttons that   *)
(* open it wait.                                                           *)
(***************************************************************************)
RejectStep ==
  \A c \in calls :
    c.op = "reject" /\ c.at = "done" /\ c \notin calls' /\ dialog' # dialog
      => dialog = "reject" /\ shown = c.row

RejectClosesItsOwn == [][RejectStep]_vars
-----------------------------------------------------------------------------
(***************************************************************************)
(* What makes these hold at every step. The row a form reads is the one it *)
(* was opened for, or, where an answer has cleared it, none. So is, on the *)
(* users page, the row of a question that no edit form covers: the form    *)
(* takes its row along.                                                    *)
(***************************************************************************)
DialogKnowsItsRow ==
  /\ dialog \in {"none", "create"} => shown = NoRow
  /\ dialog \in {"edit", "detail"} => target \in {shown, NoRow}
  /\ dialog \in {"edit", "detail"} /\ scene \notin Selecting => target = shown
  /\ dialog \in {"speaker", "reject", "userRoles", "permissions"} => target = shown
  /\ scene = "users" /\ asked # NoRow /\ dialog \in {"none", "create"} =>
       target \in {asked, NoRow}

(***************************************************************************)
(* Only the modals of two pages come and go. While a rejection waits for   *)
(* its answer there is no other, nor a form for another.                   *)
(***************************************************************************)
StaysMounted == scene \notin {"users", "roles"} => \A c \in calls : c.by = "mounted"

RejectWaits ==
  scene = "registrations" =>
    \A c \in calls : c.op = "reject" =>
      /\ dialog = "reject" => shown = c.row
      /\ \A d \in calls : d.op = "reject" => d = c

(***************************************************************************)
(* A list that is old while nobody has missed a write: the answer to the   *)
(* write is still to come, and will have the list asked for again.         *)
(***************************************************************************)
AnswerToCome ==
  ~missed /\ (fetch = "old" \/ (fetch = "idle" /\ view = "old"))
    => \E c \in calls : c.at = "done"

IInv ==
  TypeOK /\ RequestsNameTheirRow /\ DialogKnowsItsRow /\ StaysMounted /\ RejectWaits
=============================================================================

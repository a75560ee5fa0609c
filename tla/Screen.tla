------------------------------- MODULE Screen -------------------------------
(***************************************************************************)
(* What the admin pages of the front end have in common: a list that React *)
(* Query fetches page by page, dialogs over it, and requests that change   *)
(* the rows on the server.                                                 *)
(*   fe-itts-community/app/provider.tsx          the QueryClient           *)
(*   fe-itts-community/feature/*/hooks.ts, api.ts  queries and mutations   *)
(*   fe-itts-community/components/shared/ConfirmDialog.tsx                 *)
(* The modules EventScreen, RegistrationScreen, UserScreen, RoleScreen,    *)
(* RoadmapScreen and ItemScreen are the pages, Screens puts them together. *)
(*                                                                         *)
(* A list is known by its age: what a row holds is read in the database    *)
(* of the model while the list on the screen is current, and is anything   *)
(* once it is old.                                                         *)
(*                                                                         *)
(* The forms are Radix dialogs: one is open at a time and nothing else can *)
(* be used until it is closed. The question before a delete is a plain div *)
(* that covers the page for the mouse only: with the keyboard every button *)
(* behind it works, so that forms are opened over it and it is asked again *)
(* about another row. It does nothing while a form is open.                *)
(*                                                                         *)
(* Bounds: InFlight requests at a time, those that are alike in everything *)
(* counting as one; a write of another admin only when nothing else is     *)
(* missed; one row to a page of the list; one value of the filter besides  *)
(* "all". A page is followed from its first list to when it is left.       *)
(***************************************************************************)
EXTENDS Naturals, FiniteSets

CONSTANTS
  Rows,       \* the rows of the table, in the order of the list: 1..n
  NoRow,
  Scenes,     \* the pages considered
  InFlight    \* how many requests a page has in flight at a time

VARIABLES
  scene,      \* the page the tab is on
  db,         \* [Rows -> Values]: the server's table
  page,       \* the number of the list's page
  filter,
  view,       \* the list on the screen
  fetch,      \* the request for it
  missed,     \* what the screen has not been told of
  behind,     \* a list that was left before it came is still on its way
  dialog,     \* the form that is open
  target,     \* the row in the state that the handlers read
  shown,      \* the row the form was opened for
  asked,      \* the row the question that is open was opened for last, or NoRow
  calls       \* the requests that are not answered yet

list   == <<page, filter, view, fetch, missed, behind>>
modal  == <<dialog, target, shown, asked>>
vars   == <<scene, db, list, modal, calls>>

(***************************************************************************)
(* What the pages tell rows apart by, the first of the two being what the  *)
(* filter asks for: the status, the flag that disables buttons, the program.*)
(***************************************************************************)
Contents ==
  [events        |-> <<"draft", "open">>,
   registrations |-> <<"pending", "decided">>,
   users         |-> <<"member", "super">>,
   roles         |-> <<"custom", "system">>,
   roadmaps      |-> <<"networking", "programming">>,
   roadmap_items |-> <<"one", "another">>]

Content == {Contents[s][i] : s \in Scenes, i \in 1..2}

Unmade == "unmade"       \* a row that will be created
Gone   == "gone"         \* one that is deleted
Edited == "edited"       \* a change after which the row has the content it had

Values  == Content \cup {Unmade, Gone}
Holds   == {Contents[scene][i] : i \in 1..2}
Filters == {"all"} \cup {Contents[s][1] : s \in Scenes}

DialogsOf ==
  [events        |-> {"none", "create", "edit", "speaker"},
   registrations |-> {"none", "reject", "detail"},
   users         |-> {"none", "create", "edit", "userRoles"},
   roles         |-> {"none", "create", "edit", "permissions"},
   roadmaps      |-> {"none", "create", "edit"},
   roadmap_items |-> {"none", "create", "edit"}]
Ops     == {"create", "update", "delete", "status", "approve", "reject", "speaker",
            "userRoles", "permissions"}

AnyRow == Rows \cup {NoRow}

\* row: the one it concerns; shown: the one that its form, its question or its button was
\* clicked for. by: whether the component whose mutation it is has been on the screen since.
Call == [op : Ops, row : AnyRow, shown : AnyRow, sent : Values \cup {Edited},
         at : {"sent", "done"}, by : {"mounted", "unmounted"}]

ASSUME ScreenAssumption ==
  /\ Rows = 1..Cardinality(Rows) /\ IsFiniteSet(Rows)
  /\ NoRow \notin Rows
  /\ Scenes \subseteq DOMAIN Contents
  /\ InFlight \in [Scenes -> Nat]

Init ==
  /\ scene \in Scenes
  /\ db \in [Rows -> Values]
  /\ \A r \in Rows : db[r] \in Holds \cup {Unmade}
  /\ page = 1 /\ filter = "all"
  /\ view = "none" /\ fetch = "asked" /\ missed = FALSE /\ behind = FALSE
  /\ dialog = "none" /\ target = NoRow /\ shown = NoRow /\ asked = NoRow
  /\ calls = {}
-----------------------------------------------------------------------------
(***************************************************************************)
(* The list                                                                *)
(***************************************************************************)
Stored   == {r \in Rows : db[r] \in Holds}
Matching == {r \in Stored : filter = "all" \/ db[r] = filter}

\* Which rows the screen may be showing, and what in them.
Listed ==
  CASE view = "current" -> {r \in Matching : Cardinality({q \in Matching : q <= r}) = page}
    [] view = "old"     -> {r \in Rows : db[r] # Unmade}
    [] OTHER            -> {}

LooksLike(r, content) == view = "old" \/ db[r] = content

\* The pages whose body is an error message once a request for the list has failed, with
\* (roadmaps) or without their filters and buttons; the others show the list they had.
ErrorPages == {"events", "roadmaps", "roadmap_items"}
BlankPages == {"roadmaps", "roadmap_items"}

Usable == ~(view = "failed" /\ scene \in BlankPages)
At(s, name) == scene = s /\ dialog = name /\ Usable

\* No form is open: the page can be used, with the keyboard if it is behind the question.
Free(s) == At(s, "none")

\* The table has changed: a list read earlier is old.
Age ==
  /\ view' = IF view = "current" THEN "old" ELSE view
  /\ fetch' = IF fetch = "current" THEN "old" ELSE fetch

Ask ==
  /\ fetch' = "asked"
  /\ view' \in {view} \cup (IF view = "failed" THEN {"none"} ELSE {})

\* Slip: a write that leaves the list as it is.
InvalidateNothing == UNCHANGED <<view, fetch, missed>>

\* invalidateQueries: every list is stale, the one on the screen is asked for again. A first
\* request that is under way is not repeated: what it has already read stays on the screen.
Invalidate ==
  \/ /\ view = "none" /\ fetch # "idle"
     /\ missed' = (missed \/ fetch = "old")
     /\ UNCHANGED <<view, fetch>>
  \/ /\ view # "none" \/ fetch = "idle"
     /\ Ask
     /\ missed' = behind

ListServed ==
  /\ fetch = "asked"
  /\ fetch' = "current"
  /\ UNCHANGED <<scene, db, page, filter, view, missed, behind, modal, calls>>

ListAnswered ==
  /\ fetch \in {"current", "old"}
  /\ view' = fetch
  /\ fetch' = "idle"
  /\ UNCHANGED <<scene, db, page, filter, missed, behind, modal, calls>>

\* The request and its one repetition have failed.
ListFails ==
  /\ fetch # "idle"
  /\ fetch' = "idle"
  /\ IF scene \in ErrorPages \/ view = "none"
     THEN view' = "failed" /\ UNCHANGED missed
     ELSE missed' = (missed \/ view = "old") /\ UNCHANGED view
  /\ UNCHANGED <<scene, db, page, filter, behind, modal, calls>>

\* The browser is online again (the lists are not asked for when the window gets the focus).
Reconnects ==
  /\ fetch = "idle"
  /\ Ask
  /\ UNCHANGED <<scene, db, page, filter, missed, behind, modal, calls>>

\* Another page p of the list or filter f: never seen or dropped; seen in the last 15 seconds;
\* seen before; stale without the tab's knowing; or still on its way since it was left.
\* useListEvents alone hands its signal to fetch: what it leaves is abandoned.
Switch(p, f) ==
  /\ <<p, f>> # <<page, filter>>
  /\ page' = p /\ filter' = f
  /\ behind' = (behind \/ (fetch # "idle" /\ scene # "events"))
  /\ \/ view' = "none"    /\ fetch' = "asked" /\ UNCHANGED missed
     \/ view' = "current" /\ fetch' = "idle"  /\ UNCHANGED missed
     \/ view' = "old"     /\ fetch' = "asked" /\ UNCHANGED missed
     \/ /\ view' = "old"  /\ fetch' = "idle"  /\ UNCHANGED missed
        /\ missed \/ \E c \in calls : c.at = "done"
     \/ behind /\ view' \in {"none", "old"} /\ fetch' = "old" /\ missed' = TRUE
  /\ UNCHANGED <<scene, db, modal, calls>>

LeftListArrives ==
  /\ behind
  /\ behind' = FALSE
  /\ UNCHANGED <<scene, db, page, filter, view, fetch, missed, modal, calls>>

\* The pager is shown while there is more than one page of the list on the screen.
Turn(p) ==
  /\ p \in {page - 1, page + 1} \cap Rows
  /\ \/ view = "old"
     \/ view = "current" /\ Cardinality(Matching) > 1 /\ p <= Cardinality(Matching)
  /\ Switch(p, filter)
-----------------------------------------------------------------------------
(***************************************************************************)
(* Forms, and the question before a delete                                 *)
(***************************************************************************)
Show(name, r) ==
  /\ dialog' = name /\ target' = r /\ shown' = r
  /\ UNCHANGED <<scene, db, list, calls, asked>>

Close == dialog' = "none" /\ shown' = NoRow

Keep == UNCHANGED <<scene, db, list, calls>>

CloseIf(names) ==
  /\ dialog' = IF dialog \in names THEN "none" ELSE dialog
  /\ shown' = IF dialog \in names THEN NoRow ELSE shown

\* The button of a row that asks whether it is to be deleted, of a page whose forms and
\* whose question share one state.
AskDelete(r) ==
  /\ asked' = r /\ target' = r
  /\ UNCHANGED <<dialog, shown>>
  /\ Keep

\* useMutation.isPending
Pending(op) == \E c \in calls : c.op = op /\ c.by = "mounted"

\* The component that holds the mutations of these operations leaves the screen.
Orphan(c)    == [c EXCEPT !.by = "unmounted"]
Unmount(ops) == {IF c.op \in ops THEN Orphan(c) ELSE c : c \in calls}

\* The buttons of ConfirmDialog: disabled while a delete is pending, out of reach behind
\* a form.
ConfirmIdle(s) == Free(s) /\ asked # NoRow /\ ~Pending("delete")
-----------------------------------------------------------------------------
(***************************************************************************)
(* Requests                                                                *)
(***************************************************************************)
Send(op, r, clicked, value) ==
  /\ Cardinality(calls) < InFlight[scene]
  /\ calls' = calls \cup {[op |-> op, row |-> r, shown |-> clicked, sent |-> value,
                           at |-> "sent", by |-> "mounted"]}
  /\ UNCHANGED <<scene, db, list>>

\* Slip: a request that leaves a field out writes the field.
WrittenAsSent(c, r) == c.sent

\* What the row holds afterwards. No request of useAddSpeaker carries a token.
Written(c, r) == IF c.sent = Edited THEN db[r] ELSE c.sent

Serve(c) ==
  /\ c \in calls /\ c.at = "sent" /\ c.op # "speaker"
  /\ \E r \in Rows :
       /\ IF c.op = "create" THEN db[r] = Unmade ELSE r = c.row /\ db[r] \in Holds
       /\ db' = [db EXCEPT ![r] = Written(c, r)]
  /\ Age
  /\ calls' = (calls \ {c}) \cup {[c EXCEPT !.at = "done"]}
  /\ UNCHANGED <<scene, page, filter, missed, behind, modal>>

\* Refused by the server, or its answer lost: an error is shown, forms and question stay.
CallFails(c) ==
  /\ c \in calls
  /\ calls' = calls \ {c}
  /\ missed' = (missed \/ c.at = "done")
  /\ UNCHANGED <<scene, db, page, filter, view, fetch, behind, modal>>

\* A write of another admin.
OtherWrites(r, value) ==
  /\ ~missed
  /\ db[r] \in Holds \/ (db[r] = Unmade /\ value # Gone)
  /\ db' = [db EXCEPT ![r] = value]
  /\ Age
  /\ missed' = TRUE
  /\ UNCHANGED <<scene, page, filter, behind, modal, calls>>

\* The answer of a request that was done: onSuccess of the hook. What the page's own
\* continuation does to the dialogs is in the page's module.
Answered(c) ==
  /\ c \in calls /\ c.at = "done"
  /\ Invalidate
  /\ UNCHANGED <<scene, db, page, filter, behind>>
=============================================================================

---------------------------- MODULE RoadmapScreen ---------------------------
(***************************************************************************)
(* The roadmaps page and the page of roadmap items: s says which one, the  *)
(* second is in ItemScreen.                                                *)
(*   fe-itts-community/app/admin/roadmaps/page.tsx                         *)
(*   fe-itts-community/feature/roadmaps/hooks.ts, api.ts                   *)
(* The edit form and the question share selectedRoadmap, the target, which *)
(* the question of the roadmaps page names and that of the items does not; *)
(* some ways out of a form clear it. The filters keep the number of the    *)
(* page.                                                                   *)
(***************************************************************************)
EXTENDS Screen

RoadmapFilter(s, f) == Free(s) /\ Switch(page, f)
RoadmapTurn(s, p)   == Free(s) /\ Turn(p)

RoadmapOpenCreate(s) ==
  /\ Free(s)
  /\ dialog' = "create" /\ UNCHANGED <<target, shown, asked>>
  /\ Keep

RoadmapOpenEdit(s, r)   == Free(s) /\ r \in Listed /\ Show("edit", r)
RoadmapOpenDelete(s, r) == Free(s) /\ r \in Listed /\ AskDelete(r)

\* The Cancel button of the edit form clears the row, the key and the backdrop do not.
RoadmapCancel(s) ==
  /\ \/ At(s, "create") /\ Close /\ UNCHANGED <<target, asked>>
     \/ At(s, "edit") /\ Close /\ target' \in {target, NoRow} /\ UNCHANGED asked
     \/ ConfirmIdle(s) /\ asked' = NoRow /\ UNCHANGED <<dialog, target, shown>>
  /\ Keep

handleCreate(s) ==
  /\ At(s, "create") /\ ~Pending("create")
  /\ \E value \in Holds : Send("create", NoRow, NoRow, value)
  /\ UNCHANGED modal

handleUpdate(s) ==
  /\ At(s, "edit") /\ target # NoRow /\ ~Pending("update")
  /\ \E value \in Holds : Send("update", target, shown, value)
  /\ UNCHANGED modal

handleDelete(s) ==
  /\ ConfirmIdle(s) /\ target # NoRow
  /\ Send("delete", target, asked, Gone)
  /\ UNCHANGED modal

\* An update that is answered late takes the row from a question that is open, a delete
\* from a form: their buttons do nothing then.
RoadmapAnswered(s, c) ==
  /\ scene = s /\ Answered(c)
  /\ calls' = calls \ {c}
  /\ CASE c.op = "create" -> CloseIf({"create"}) /\ UNCHANGED <<target, asked>>
       [] c.op = "update" -> CloseIf({"edit"}) /\ target' = NoRow /\ UNCHANGED asked
       [] c.op = "delete" -> asked' = NoRow /\ target' = NoRow /\ UNCHANGED <<dialog, shown>>
       [] OTHER           -> UNCHANGED modal

RoadmapNext ==
  \/ \E f \in {"all", Contents["roadmaps"][1]} : RoadmapFilter("roadmaps", f)
  \/ \E r \in Rows : \/ RoadmapTurn("roadmaps", r)
                     \/ RoadmapOpenEdit("roadmaps", r) \/ RoadmapOpenDelete("roadmaps", r)
  \/ \E c \in calls : RoadmapAnswered("roadmaps", c)
  \/ RoadmapOpenCreate("roadmaps") \/ RoadmapCancel("roadmaps")
  \/ handleCreate("roadmaps") \/ handleUpdate("roadmaps") \/ handleDelete("roadmaps")
=============================================================================

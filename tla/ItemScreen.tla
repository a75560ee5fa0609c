----------------------------- MODULE ItemScreen -----------------------------
(***************************************************************************)
(* The page of roadmap items: state, dialogs and handlers are those of the *)
(* roadmaps page with selectedItem for selectedRoadmap.                    *)
(*   fe-itts-community/app/admin/roadmap-items/page.tsx                    *)
(*   fe-itts-community/feature/roadmap-items/hooks.ts, api.ts              *)
(***************************************************************************)
EXTENDS RoadmapScreen

ItemFilter(f)     == RoadmapFilter("roadmap_items", f)
ItemTurn(p)       == RoadmapTurn("roadmap_items", p)
ItemOpen(r)       == RoadmapOpenEdit("roadmap_items", r) \/ RoadmapOpenDelete("roadmap_items", r)
ItemOpenCreate    == RoadmapOpenCreate("roadmap_items")
ItemCancel        == RoadmapCancel("roadmap_items")
ItemCreate        == handleCreate("roadmap_items")
ItemUpdate        == handleUpdate("roadmap_items")
ItemDelete        == handleDelete("roadmap_items")
ItemAnswered(c)   == RoadmapAnswered("roadmap_items", c)

ItemNext ==
  \/ \E f \in {"all", Contents["roadmap_items"][1]} : ItemFilter(f)
  \/ \E r \in Rows : ItemTurn(r) \/ ItemOpen(r)
  \/ \E c \in calls : ItemAnswered(c)
  \/ ItemOpenCreate \/ ItemCancel \/ ItemCreate \/ ItemUpdate \/ ItemDelete
=============================================================================

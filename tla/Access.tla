------------------------------- MODULE Access -------------------------------
(***************************************************************************)
(* What the web front end lets a user see.                                 *)
(*   fe-itts-community/feature/auth/adapter.ts      permissions, checks     *)
(*   fe-itts-community/feature/auth/components.tsx  gates around pages      *)
(*   fe-itts-community/components/admin/AdminSidebar.tsx  the menu          *)
(*   fe-itts-community/app/admin/*/page.tsx         what each page asks for *)
(*                                                                         *)
(* A permission is a pair of a resource and an action ("events:list" is    *)
(* <<"events", "list">>). A profile is what the checks read of a user      *)
(* record; NoProfile stands for "nobody is logged in".                     *)
(***************************************************************************)
EXTENDS FiniteSets

(***************************************************************************)
(* adapter.ts: PERMISSIONS                                                 *)
(***************************************************************************)
Crud  == {"create", "read", "update", "delete", "list"}

PERMISSIONS ==
  ({"events", "event_speakers", "roadmaps", "roadmap_items", "mentors",
    "partners", "users", "roles", "registrations"} \X Crud)
  \cup ({"event_registrations"} \X (Crud \ {"update"}))
  \cup ({"permissions"} \X {"read", "list"})
  \cup ({"users", "roles"} \X {"manage"})
  \cup ({"registrations"} \X {"approve", "reject"})

Profile == [super : BOOLEAN, permissions : SUBSET PERMISSIONS, roles : SUBSET STRING]

NoProfile == [super |-> FALSE, permissions |-> {}, roles |-> {}]

(***************************************************************************)
(* adapter.ts and context.tsx: the checks. A super admin holds every       *)
(* permission, but no role he was not given.                               *)
(***************************************************************************)
hasPermission(who, p)     == who.super \/ p \in who.permissions
hasAnyPermission(who, ps) == who.super \/ ps \cap who.permissions # {}
hasAllPermissions(who, ps) == who.super \/ ps \subseteq who.permissions
hasRole(who, r)           == r \in who.roles
hasAnyRole(who, rs)       == \E r \in rs : hasRole(who, r)

(***************************************************************************)
(* components.tsx: what a gate may ask for. A property that is not given   *)
(* (undefined) asks for nothing: each is a set of at most one demand. An   *)
(* empty list that is given is a demand too, that "any" never meets.       *)
(***************************************************************************)
NoDemand == [single |-> {}, all |-> {}, any |-> {}, role |-> {}, anyRole |-> {},
             super |-> FALSE]

AskAny(ps) == [NoDemand EXCEPT !.any = {ps}]

Meets(who, demand) ==
  /\ demand.super => who.super
  /\ \A p  \in demand.single  : hasPermission(who, p)
  /\ \A ps \in demand.all     : hasAllPermissions(who, ps)
  /\ \A ps \in demand.any     : hasAnyPermission(who, ps)
  /\ \A r  \in demand.role    : hasRole(who, r)
  /\ \A rs \in demand.anyRole : hasAnyRole(who, rs)
-----------------------------------------------------------------------------
(***************************************************************************)
(* The admin pages and the demands of their ProtectedRoute; the roadmap    *)
(* pages and the dashboard have none beyond the login of the layout.       *)
(***************************************************************************)
AdminPage == {"dashboard", "event", "users", "registrations", "roles", "roadmaps",
              "roadmap_items"}

ListOrRead(resource) == {<<resource, "list">>, <<resource, "read">>}

Demand(page) ==
  CASE page = "event"         -> AskAny(ListOrRead("events"))
    [] page = "users"         -> AskAny(ListOrRead("users"))
    [] page = "registrations" -> AskAny(ListOrRead("registrations"))
    [] page = "roles"         -> AskAny(ListOrRead("roles"))
    [] OTHER                  -> NoDemand

Admits(who, page) == Meets(who, Demand(page))

(***************************************************************************)
(* AdminSidebar.tsx: the entries whose page exists, with the permissions   *)
(* that show them.                                                         *)
(***************************************************************************)
NAV_ITEMS ==
  [page \in {"dashboard", "event", "users", "registrations", "roadmaps", "roles"} |->
    CASE page = "dashboard"     -> {}
      [] page = "event"         -> ListOrRead("events")
      [] page = "users"         -> ListOrRead("users")
      [] page = "registrations" -> ListOrRead("registrations")
      [] page = "roadmaps"      -> ListOrRead("roadmaps")
      [] page = "roles"         -> {<<"roles", "list">>, <<"permissions", "list">>}]

visibleItems(who) ==
  {page \in DOMAIN NAV_ITEMS :
     \/ who.super
     \/ NAV_ITEMS[page] = {}
     \/ hasAnyPermission(who, NAV_ITEMS[page])}
=============================================================================

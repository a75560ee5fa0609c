----------------------------- MODULE MCBrowser ------------------------------
(***************************************************************************)
(* A tab, two logins, a super admin and a user who sees some pages, the    *)
(* page that a login leads to and the one whose gate and whose entry in    *)
(* the menu ask for different permissions.                                 *)
(***************************************************************************)
EXTENDS BrowserInv, TLC

CONSTANTS s1, s2, admin, editor

TwoSessions == {s1, s2}
TwoUsers    == {admin, editor}

TwoPages == {"event", "roles"}

TwoProfiles ==
  (admin  :> [NoProfile EXCEPT !.super = TRUE]) @@
  (editor :> [NoProfile EXCEPT !.permissions = {<<"events", "list">>, <<"permissions", "list">>}])
=============================================================================

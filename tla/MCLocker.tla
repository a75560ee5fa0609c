------------------------------ MODULE MCLocker ------------------------------
(***************************************************************************)
(* Locker on three requests and three keys; the functions under k3 may     *)
(* outlive the TTL of their lock, those under k1 and k2 may not.           *)
(***************************************************************************)
EXTENDS Locker

CONSTANTS c1, c2, c3, k1, k2, k3

MCCallers  == {c1, c2, c3}
MCKeys     == {k1, k2, k3}
MCSlowKeys == {k3}
=============================================================================

----------------------------- MODULE MCScreens ------------------------------
(***************************************************************************)
(* Every admin page over a table of two rows, one to a page of the list,   *)
(* with one request in flight: its dialog can be left and opened for the   *)
(* other row while it is pending.                                          *)
(***************************************************************************)
EXTENDS Screens

TwoRows   == 1..2
AllScenes == DOMAIN Contents
Flights   == [s \in AllScenes |-> 1]
=============================================================================

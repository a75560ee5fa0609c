------------------------------ MODULE MCSession ------------------------------
(***************************************************************************)
(* Sessions of a few users on a few slots.                                 *)
(***************************************************************************)
EXTENDS SessionInv, TLC

CONSTANTS s1, s2, u1, u2, t1, t2, p1, e1, e2

TwoSlots     == {s1, s2}
OneUser      == {u1}
TwoUsers     == {u1, u2}
TwoTokens    == {t1, t2}
OnePassword  == {p1}
OneEmail     == {e1}
TwoEmails    == {e1, e2}

OnlyTrue  == {TRUE}
OnlyFalse == {FALSE}

Symmetric == Permutations(Slots) \cup Permutations(Users)
               \cup Permutations(Tokens) \cup Permutations(Emails)
=============================================================================

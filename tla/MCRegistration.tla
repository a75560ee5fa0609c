--------------------------- MODULE MCRegistration ---------------------------
(***************************************************************************)
(* Registration on a few slots, registrations and addresses.               *)
(***************************************************************************)
EXTENDS RegistrationInv, TLC

CONSTANTS s1, s2, s3, r1, r2, e1, e2

TwoSlots   == {s1, s2}
ThreeSlots == {s1, s2, s3}
OneReg     == {r1}
TwoRegs    == {r1, r2}
OneEmail   == {e1}
TwoEmails  == {e1, e2}

\* Slots and registrations are interchangeable; so are addresses.
Symmetric == Permutations(Slots) \cup Permutations(Regs) \cup Permutations(Emails)
=============================================================================

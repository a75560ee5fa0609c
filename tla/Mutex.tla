------------------------------- MODULE Mutex -------------------------------
(***************************************************************************)
(* What a caller of lock.Locker relies on: for every key at most one       *)
(* caller at a time is inside the function it passed to WithLock.          *)
(* The specification says nothing of how a key is granted or given back.   *)
(***************************************************************************)
CONSTANTS Callers,   \* the goroutines that call WithLock
          Keys,      \* the keys they pass
          Nobody     \* the owner of a key no caller is inside of

VARIABLE owner       \* owner[k]: the caller inside its function under k

Init == owner = [k \in Keys |-> Nobody]

Enter(c, k) == /\ owner[k] = Nobody
               /\ owner' = [owner EXCEPT ![k] = c]

Leave(c, k) == /\ owner[k] = c
               /\ owner' = [owner EXCEPT ![k] = Nobody]

Next == \E c \in Callers, k \in Keys : Enter(c, k) \/ Leave(c, k)

Spec == Init /\ [][Next]_owner
=============================================================================

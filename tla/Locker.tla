------------------------------- MODULE Locker -------------------------------
(***************************************************************************)
(* pkg/lock: WithLock(key, ttl, fn) over Redis (SET NX with a random token *)
(* and a compare-and-delete unlock script) or the no-op locker that the    *)
(* server falls back to when Redis is not configured or does not answer    *)
(* its first ping.  A caller is one request; the random token of its lock  *)
(* is represented by the caller itself, because a caller is inside at most *)
(* one WithLock and a token is never presented by anybody else.            *)
(***************************************************************************)
CONSTANTS Callers,    \* requests that call WithLock
          Keys,       \* lock keys
          Nobody,     \* holder of a key that is not set in Redis
          Orphan,     \* holder of a key whose request went away without unlocking
          NoKey,      \* section of a caller that is outside WithLock
          Mode,       \* "redis" or "noop"
          SlowKeys,   \* keys whose function may outlive the TTL of the lock
          Faulty      \* TRUE: Redis calls fail and requests are cancelled

ASSUME LockerAssumption ==
  /\ Nobody \notin Callers
  /\ Orphan \notin Callers
  /\ Nobody # Orphan
  /\ NoKey \notin Keys
  /\ Mode \in {"redis", "noop"}
  /\ SlowKeys \subseteq Keys
  /\ Faulty \in BOOLEAN

VARIABLES holder,     \* holder[k]: whose token Redis stores under k
          section     \* section[c]: the key under which c runs its function

lockVars == <<holder, section>>

Init == /\ holder  = [k \in Keys |-> Nobody]
        /\ section = [c \in Callers |-> NoKey]

\* Slips that pkg/lock does not make, for the runs to catch: SET without NX,
\* the key stored in place of the token, DEL without comparing the token, a
\* key without TTL.
AcquireWithoutNX(c, k) ==
  /\ section[c] = NoKey
  /\ section' = [section EXCEPT ![c] = k]
  /\ holder' = [holder EXCEPT ![k] = c]

AcquireStoringKey(c, k) ==
  /\ section[c] = NoKey
  /\ holder[k] = Nobody
  /\ section' = [section EXCEPT ![c] = k]
  /\ holder' = [holder EXCEPT ![k] = k]

ReleaseAnyOwner(c) ==
  /\ section[c] # NoKey
  /\ section' = [section EXCEPT ![c] = NoKey]
  /\ holder' = [holder EXCEPT ![section[c]] = Nobody]

ExpireSlowOnly(k) ==
  /\ k \in SlowKeys /\ holder[k] # Nobody
  /\ holder' = [holder EXCEPT ![k] = Nobody]
  /\ UNCHANGED section

\* SetNX answered true (or there is no Redis at all): fn starts.
Acquire(c, k) ==
  /\ section[c] = NoKey
  /\ section' = [section EXCEPT ![c] = k]
  /\ \/ /\ Mode = "redis"
        /\ holder[k] = Nobody
        /\ holder' = [holder EXCEPT ![k] = c]
     \/ /\ Mode = "noop"
        /\ UNCHANGED holder

\* SetNX answered false ("lock is held") or failed: fn is never called and
\* WithLock returns the error at once; it does not wait.  When it is the answer
\* that was lost, the key is set and nobody will unlock it.
Refuse(c, k) ==
  /\ Mode = "redis"
  /\ section[c] = NoKey
  /\ holder[k] # Nobody \/ Faulty
  /\ \/ UNCHANGED holder
     \/ Faulty /\ holder[k] = Nobody /\ holder' = [holder EXCEPT ![k] = Orphan]
  /\ UNCHANGED section

\* fn has returned: the deferred unlock script deletes the key only when it
\* still stores the caller's own token.
Release(c) ==
  /\ section[c] # NoKey
  /\ section' = [section EXCEPT ![c] = NoKey]
  /\ holder' = IF holder[section[c]] = c
               THEN [holder EXCEPT ![section[c]] = Nobody]
               ELSE holder

\* The request's context is cancelled or the process dies: the unlock script
\* runs under that context and never reaches Redis, so the key stays set.
Abandon(c) ==
  /\ Faulty
  /\ section[c] # NoKey
  /\ section' = [section EXCEPT ![c] = NoKey]
  /\ holder' = IF holder[section[c]] = c
               THEN [holder EXCEPT ![section[c]] = Orphan]
               ELSE holder

\* Redis drops the key at the end of its TTL, whatever its owner is doing.
Expire(k) ==
  /\ \/ holder[k] = Orphan
     \/ k \in SlowKeys /\ holder[k] # Nobody
  /\ holder' = [holder EXCEPT ![k] = Nobody]
  /\ UNCHANGED section

Next == \/ \E c \in Callers : \/ \E k \in Keys : Acquire(c, k) \/ Refuse(c, k)
                              \/ Release(c)
                              \/ Abandon(c)
        \/ \E k \in Keys : Expire(k)

\* A function returns (its database calls do), and Redis enforces the TTL.
Fairness == /\ \A c \in Callers : WF_lockVars(Release(c))
            /\ \A k \in Keys : WF_lockVars(Expire(k))

Spec == Init /\ [][Next]_lockVars

FairSpec == Spec /\ Fairness
-----------------------------------------------------------------------------
TypeOK == /\ holder \in [Keys -> Callers \cup {Nobody, Orphan}]
          /\ section \in [Callers -> Keys \cup {NoKey}]

\* Two requests are never inside their functions under one key, as long as
\* Redis is the locker and the functions under that key finish within the TTL.
MutualExclusion ==
  \A c, d \in Callers :
    section[c] \in Keys \ SlowKeys /\ section[c] = section[d] => c = d

\* Only the owner's own return takes its key away from it, or the TTL: an
\* unlock that comes after the TTL, when the key belongs to another request,
\* leaves that request's lock alone.
OnlyOwnLockReleased ==
  [][\A c \in Callers, k \in Keys :
       holder[k] = c /\ holder'[k] # c
         => \/ section[c] = k /\ section'[c] = NoKey
            \/ k \in SlowKeys /\ section' = section]_lockVars

\* A key does not stay locked: a request that went away without unlocking
\* blocks its key for one TTL, not for ever.
LockComesBack == \A k \in Keys : (holder[k] # Nobody) ~> (holder[k] = Nobody)

\* The abstract mutex over the keys whose functions finish within the TTL: its
\* owner is the caller inside its function, whatever Redis stores.
Owner == [k \in Keys \ SlowKeys |->
            IF \E c \in Callers : section[c] = k
            THEN CHOOSE c \in Callers : section[c] = k
            ELSE Nobody]

Abstract == INSTANCE Mutex WITH owner <- Owner, Keys <- Keys \ SlowKeys

\* WithLock over Redis implements the abstract mutex on those keys.
ImplementsMutex == Abstract!Spec
=============================================================================

---------------------------- MODULE LockerProofs ----------------------------
(***************************************************************************)
(* Theorems about Locker for any callers, keys and fault model.            *)
(***************************************************************************)
EXTENDS Locker, TLAPS

USE LockerAssumption

\* The variables keep their types, whatever mode and faults.
THEOREM TypeCorrect == Spec => []TypeOK
<1>1. Init => TypeOK
  BY DEF Init, TypeOK
<1>2. TypeOK /\ [Next]_lockVars => TypeOK'
  <2> SUFFICES ASSUME TypeOK, [Next]_lockVars PROVE TypeOK'
    OBVIOUS
  <2>1. ASSUME NEW c \in Callers, NEW k \in Keys, Acquire(c, k) PROVE TypeOK'
    BY <2>1 DEF Acquire, TypeOK
  <2>2. ASSUME NEW c \in Callers, NEW k \in Keys, Refuse(c, k) PROVE TypeOK'
    BY <2>2 DEF Refuse, TypeOK, lockVars
  <2>3. ASSUME NEW c \in Callers, Release(c) PROVE TypeOK'
    BY <2>3 DEF Release, TypeOK
  <2>4. ASSUME NEW c \in Callers, Abandon(c) PROVE TypeOK'
    BY <2>4 DEF Abandon, TypeOK
  <2>5. ASSUME NEW k \in Keys, Expire(k) PROVE TypeOK'
    BY <2>5 DEF Expire, TypeOK
  <2>6. CASE UNCHANGED lockVars
    BY <2>6 DEF TypeOK, lockVars
  <2> QED
    BY <2>1, <2>2, <2>3, <2>4, <2>5, <2>6 DEF Next
<1> QED
  BY <1>1, <1>2, PTL DEF Spec

\* Over Redis, whoever runs its function under a key that cannot outlive its
\* TTL still has its own token in Redis.
HeldWhileInside ==
  \A c \in Callers : section[c] \in Keys \ SlowKeys => holder[section[c]] = c

LEMMA HeldWhileInsideInductive ==
  ASSUME Mode = "redis"
  PROVE  TypeOK /\ HeldWhileInside /\ [Next]_lockVars => HeldWhileInside'
<1> SUFFICES ASSUME TypeOK, HeldWhileInside, [Next]_lockVars PROVE HeldWhileInside'
  OBVIOUS
<1> USE Mode = "redis" DEF TypeOK, HeldWhileInside
<1>1. ASSUME NEW c \in Callers, NEW k \in Keys, Acquire(c, k) PROVE HeldWhileInside'
  BY <1>1 DEF Acquire
<1>2. ASSUME NEW c \in Callers, NEW k \in Keys, Refuse(c, k) PROVE HeldWhileInside'
  BY <1>2 DEF Refuse, lockVars
<1>3. ASSUME NEW c \in Callers, Release(c) PROVE HeldWhileInside'
  BY <1>3 DEF Release
<1>4. ASSUME NEW c \in Callers, Abandon(c) PROVE HeldWhileInside'
  BY <1>4 DEF Abandon
<1>5. ASSUME NEW k \in Keys, Expire(k) PROVE HeldWhileInside'
  BY <1>5 DEF Expire
<1>6. CASE UNCHANGED lockVars
  BY <1>6 DEF lockVars
<1> QED
  BY <1>1, <1>2, <1>3, <1>4, <1>5, <1>6 DEF Next

\* Over Redis, at most one request runs its function under a key whose
\* functions finish within the TTL.
THEOREM RedisMutualExclusion ==
  ASSUME Mode = "redis"
  PROVE  Spec => []MutualExclusion
<1>1. Init => HeldWhileInside
  BY DEF Init, HeldWhileInside
<1>2. TypeOK /\ HeldWhileInside /\ [Next]_lockVars => HeldWhileInside'
  BY HeldWhileInsideInductive, Mode = "redis"
<1>3. HeldWhileInside => MutualExclusion
  BY DEF HeldWhileInside, MutualExclusion
<1> QED
  BY <1>1, <1>2, <1>3, TypeCorrect, PTL DEF Spec

\* In every mode an unlock never takes away a key that has passed to another
\* request.
THEOREM UnlockIsSelective == Spec => OnlyOwnLockReleased
<1> DEFINE Selective ==
      \A c \in Callers, k \in Keys :
        holder[k] = c /\ holder'[k] # c
          => \/ section[c] = k /\ section'[c] = NoKey
             \/ k \in SlowKeys /\ section' = section
<1>1. TypeOK /\ [Next]_lockVars => [Selective]_lockVars
  <2> SUFFICES ASSUME TypeOK, Next PROVE Selective
    OBVIOUS
  <2>1. ASSUME NEW c \in Callers, NEW k \in Keys, Acquire(c, k) PROVE Selective
    BY <2>1 DEF Acquire, TypeOK
  <2>2. ASSUME NEW c \in Callers, NEW k \in Keys, Refuse(c, k) PROVE Selective
    BY <2>2 DEF Refuse, TypeOK
  <2>3. ASSUME NEW c \in Callers, Release(c) PROVE Selective
    BY <2>3 DEF Release, TypeOK
  <2>4. ASSUME NEW c \in Callers, Abandon(c) PROVE Selective
    BY <2>4 DEF Abandon, TypeOK
  <2>5. ASSUME NEW k \in Keys, Expire(k) PROVE Selective
    BY <2>5 DEF Expire, TypeOK
  <2> QED
    BY <2>1, <2>2, <2>3, <2>4, <2>5 DEF Next
<1> QED
  BY <1>1, TypeCorrect, PTL DEF Spec, OnlyOwnLockReleased

\* What the refinement mapping says of one key.
LEMMA OwnerOfHeldKey ==
  ASSUME TypeOK, HeldWhileInside, NEW c \in Callers, NEW k \in Keys \ SlowKeys,
         section[c] = k
  PROVE  Owner[k] = c
<1>1. \A d \in Callers : section[d] = k => d = c
  BY DEF HeldWhileInside
<1>2. (CHOOSE d \in Callers : section[d] = k) = c
  BY <1>1
<1> QED
  BY <1>2 DEF Owner

LEMMA OwnerOfFreeKey ==
  ASSUME NEW k \in Keys \ SlowKeys, \A c \in Callers : section[c] # k
  PROVE  Owner[k] = Nobody
BY DEF Owner

LEMMA OwnerIsFunction == /\ Owner = [k \in Keys \ SlowKeys |-> Owner[k]]
                         /\ Owner' = [k \in Keys \ SlowKeys |-> Owner'[k]]
BY DEF Owner

\* The owner of a key depends on who is inside under that key only.
LEMMA OwnerElsewhere ==
  ASSUME NEW j \in Keys \ SlowKeys,
         \A d \in Callers : section'[d] = j <=> section[d] = j
  PROVE  Owner'[j] = Owner[j]
<1>1. (CHOOSE d \in Callers : section'[d] = j) = (CHOOSE d \in Callers : section[d] = j)
  OBVIOUS
<1> QED
  BY <1>1 DEF Owner

\* A step that moves no caller into or out of a protected key stutters.
LEMMA OwnerUnchanged ==
  ASSUME \A k \in Keys \ SlowKeys, c \in Callers : section'[c] = k <=> section[c] = k
  PROVE  UNCHANGED Owner
<1>1. \A k \in Keys \ SlowKeys : Owner'[k] = Owner[k]
  BY OwnerElsewhere
<1> QED
  BY <1>1, OwnerIsFunction

\* WithLock over Redis implements the abstract mutex on the keys whose
\* functions finish within the TTL of their lock.
THEOREM RedisImplementsMutex ==
  ASSUME Mode = "redis"
  PROVE  Spec => ImplementsMutex
<1>1. Init => Abstract!Init
  BY DEF Init, Abstract!Init, Owner
<1>2. Init => HeldWhileInside
  BY DEF Init, HeldWhileInside
<1>3. TypeOK /\ HeldWhileInside /\ [Next]_lockVars => HeldWhileInside'
  BY HeldWhileInsideInductive, Mode = "redis"
<1>4. TypeOK /\ TypeOK' /\ HeldWhileInside /\ HeldWhileInside' /\ [Next]_lockVars
        => [Abstract!Next]_Owner
  <2> SUFFICES ASSUME TypeOK, TypeOK', HeldWhileInside, HeldWhileInside', [Next]_lockVars
               PROVE  [Abstract!Next]_Owner
    OBVIOUS
  <2> USE Mode = "redis"
  <2>1. ASSUME NEW c \in Callers, NEW k \in Keys, Acquire(c, k)
        PROVE  [Abstract!Next]_Owner
    <3>1. CASE k \in SlowKeys
      BY <2>1, <3>1, OwnerUnchanged DEF Acquire, TypeOK
    <3>2. CASE k \notin SlowKeys
      <4>1. Owner[k] = Nobody
        BY <2>1, <3>2, OwnerOfFreeKey DEF Acquire, HeldWhileInside
      <4>2. Owner'[k] = c
        <5>1. section'[c] = k
          BY <2>1 DEF Acquire, TypeOK
        <5>2. \A d \in Callers : section'[d] = k => d = c
          BY <5>1, <3>2 DEF HeldWhileInside
        <5>3. (CHOOSE d \in Callers : section'[d] = k) = c
          BY <5>1, <5>2
        <5> QED
          BY <5>1, <5>3, <3>2 DEF Owner
      <4>3. \A j \in Keys \ SlowKeys : j # k => Owner'[j] = Owner[j]
        <5>1. ASSUME NEW j \in Keys \ SlowKeys, j # k
              PROVE  \A d \in Callers : section'[d] = j <=> section[d] = j
          BY <2>1, <5>1 DEF Acquire, TypeOK
        <5> QED
          BY <5>1, OwnerElsewhere
      <4>4. Owner' = [Owner EXCEPT ![k] = c]
        BY <4>2, <4>3, <3>2, OwnerIsFunction
      <4> QED
        BY <4>1, <4>4, <3>2 DEF Abstract!Next, Abstract!Enter
    <3> QED
      BY <3>1, <3>2
  <2>2. ASSUME NEW c \in Callers, NEW k \in Keys, Refuse(c, k)
        PROVE  [Abstract!Next]_Owner
    BY <2>2, OwnerUnchanged DEF Refuse, lockVars
  <2>3. ASSUME NEW c \in Callers, section[c] # NoKey,
               section' = [section EXCEPT ![c] = NoKey]
        PROVE  [Abstract!Next]_Owner
    <3> DEFINE k == section[c]
    <3>1. CASE k \in SlowKeys
      BY <2>3, <3>1, OwnerUnchanged DEF TypeOK
    <3>2. CASE k \notin SlowKeys
      <4>0. k \in Keys \ SlowKeys
        BY <2>3, <3>2 DEF TypeOK
      <4>1. Owner[k] = c
        BY <4>0, OwnerOfHeldKey
      <4>2. Owner'[k] = Nobody
        <5>1. \A d \in Callers : section'[d] # k
          BY <2>3, <4>0 DEF HeldWhileInside, TypeOK
        <5> QED
          BY <5>1, <4>0 DEF Owner
      <4>3. \A j \in Keys \ SlowKeys : j # k => Owner'[j] = Owner[j]
        <5>1. ASSUME NEW j \in Keys \ SlowKeys, j # k
              PROVE  \A d \in Callers : section'[d] = j <=> section[d] = j
          BY <2>3, <5>1 DEF TypeOK
        <5> QED
          BY <5>1, OwnerElsewhere
      <4>4. Owner' = [Owner EXCEPT ![k] = Nobody]
        BY <4>2, <4>3, <4>0, OwnerIsFunction
      <4> QED
        BY <4>0, <4>1, <4>4 DEF Abstract!Next, Abstract!Leave
    <3> QED
      BY <3>1, <3>2
  <2>4. ASSUME NEW k \in Keys, Expire(k) PROVE [Abstract!Next]_Owner
    BY <2>4, OwnerUnchanged DEF Expire
  <2>5. CASE UNCHANGED lockVars
    BY <2>5, OwnerUnchanged DEF lockVars
  <2> QED
    BY <2>1, <2>2, <2>3, <2>4, <2>5 DEF Next, Release, Abandon
<1> QED
  BY <1>1, <1>2, <1>3, <1>4, TypeCorrect, PTL DEF Spec, ImplementsMutex, Abstract!Spec
=============================================================================

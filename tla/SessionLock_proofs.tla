-------------------------- MODULE SessionLock_proofs --------------------------
(***************************************************************************)
(* Proofs about SessionLock.tla, for any set of requests, any lock timeout *)
(* and any bound of the clock.                                             *)
(***************************************************************************)
EXTENDS SessionLock, TLAPS

(* Owner ids are drawn once each, so an id names one request; an id seen   *)
(* in the lock is that of a request that had already won it.               *)
Waiting == {"idle", "entered", "contended", "expired"}

IdsInv ==
    /\ ownerId <= sessionLockCount
    /\ \A r \in Requests :
        /\ id[r] <= sessionLockCount
        /\ seen[r] <= sessionLockCount
        /\ now[r] <= clock
        /\ pc[r] # "idle" => id[r] # InvalidOwnerId
        /\ pc[r] \in {"contended", "expired"} => seen[r] # InvalidOwnerId
    /\ \A r, q \in Requests :
        /\ id[r] = id[q] /\ id[r] # InvalidOwnerId => r = q
        /\ seen[r] = id[q] /\ seen[r] # InvalidOwnerId => pc[q] \notin Waiting

(* As long as no window has been run through: the timeout is the lease of  *)
(* the owner, and whoever has lost or is about to lose the lock has had    *)
(* its lease.                                                              *)
QuietInv ==
    \A q \in Requests :
        /\ pc[q] = "released" => ownerId = InvalidOwnerId
        /\ pc[q] = "acquired" => ownerId = id[q]
        /\ pc[q] \in {"handling", "answered"} /\ ownerId = id[q]
               => timeout = Deadline(q)
        /\ q \in Inside /\ ownerId # id[q] => LeaseOver(q)
        /\ \A r \in Requests :
               pc[r] = "expired" /\ ownerId = seen[r] /\ ownerId = id[q]
                   => LeaseOver(q) /\ pc[q] # "acquired"

IInv ==
    /\ TypeOK
    /\ IdsInv
    /\ LockNeverLeaks
    /\ ~raced => QuietInv
-----------------------------------------------------------------------------
(* Init establishes the invariant.                                         *)
LEMMA InitIInv == Init => IInv
<1> SUFFICES ASSUME Init PROVE IInv
  OBVIOUS
<1> USE DEF Init, InvalidOwnerId, Epoch
<1>1. TypeOK
  BY DEF TypeOK, PC
<1>2. IdsInv
  BY DEF IdsInv
<1>3. LockNeverLeaks
  BY DEF LockNeverLeaks
<1>4. QuietInv
  BY DEF QuietInv, Inside
<1> QED
  BY <1>1, <1>2, <1>3, <1>4 DEF IInv

(* Types are preserved by every step.                                       *)
LEMMA TypeStep == TypeOK /\ LockAssumption /\ [Next]_vars => TypeOK'
<1> SUFFICES ASSUME TypeOK /\ LockAssumption, [Next]_vars PROVE TypeOK'
  OBVIOUS
<1> USE DEF TypeOK, PC, Goto, TryLock, lockVars, localVars, InvalidOwnerId,
         Epoch, Deadline, Unanswered
<1>1. ASSUME NEW r \in Requests, Enter(r) PROVE TypeOK'
  BY <1>1 DEF Enter
<1>2. ASSUME NEW r \in Requests, Acquire(r) PROVE TypeOK'
  BY <1>2 DEF Acquire
<1>3. ASSUME NEW r \in Requests, Contend(r) PROVE TypeOK'
  BY <1>3 DEF Contend
<1>4. ASSUME NEW r \in Requests, OnLocked(r) PROVE TypeOK'
  BY <1>4 DEF OnLocked
<1>5. ASSUME NEW r \in Requests, Steal(r) PROVE TypeOK'
  BY <1>5 DEF Steal
<1>6. ASSUME NEW r \in Requests, StealFails(r) PROVE TypeOK'
  BY <1>6 DEF StealFails
<1>7. ASSUME NEW r \in Requests, SetTimeout(r) PROVE TypeOK'
  BY <1>7 DEF SetTimeout
<1>8. ASSUME NEW r \in Requests, Respond(r) PROVE TypeOK'
  BY <1>8 DEF Respond
<1>9. ASSUME NEW r \in Requests, Release(r) PROVE TypeOK'
  BY <1>9 DEF Release
<1>10. ASSUME NEW r \in Requests, ReleaseMismatch(r) PROVE TypeOK'
  BY <1>10 DEF ReleaseMismatch
<1>11. ASSUME NEW r \in Requests, ClearTimeout(r) PROVE TypeOK'
  BY <1>11 DEF ClearTimeout
<1>12. CASE Tick
  BY <1>12 DEF Tick
<1>13. CASE UNCHANGED vars
  BY <1>13 DEF vars
<1> QED
  BY <1>1, <1>2, <1>3, <1>4, <1>5, <1>6, <1>7, <1>8, <1>9, <1>10, <1>11, <1>12, <1>13 DEF Next, Middleware

(* Ids stay fresh and name one request each.                                *)
LEMMA IdsStep == IInv /\ [Next]_vars => IdsInv'
<1> SUFFICES ASSUME IInv, [Next]_vars PROVE IdsInv'
  OBVIOUS
<1> USE DEF IInv, TypeOK, IdsInv, LockNeverLeaks, Waiting, Inside, PC, Goto, TryLock,
         lockVars, localVars, InvalidOwnerId
<1>1. ASSUME NEW r \in Requests, Enter(r) PROVE IdsInv'
  BY <1>1 DEF Enter
<1>2. ASSUME NEW r \in Requests, Acquire(r) PROVE IdsInv'
  BY <1>2 DEF Acquire
<1>3. ASSUME NEW r \in Requests, Contend(r) PROVE IdsInv'
  BY <1>3 DEF Contend
<1>4. ASSUME NEW r \in Requests, OnLocked(r) PROVE IdsInv'
  BY <1>4 DEF OnLocked
<1>5. ASSUME NEW r \in Requests, Steal(r) PROVE IdsInv'
  BY <1>5 DEF Steal
<1>6. ASSUME NEW r \in Requests, StealFails(r) PROVE IdsInv'
  BY <1>6 DEF StealFails
<1>7. ASSUME NEW r \in Requests, SetTimeout(r) PROVE IdsInv'
  BY <1>7 DEF SetTimeout
<1>8. ASSUME NEW r \in Requests, Respond(r) PROVE IdsInv'
  BY <1>8 DEF Respond
<1>9. ASSUME NEW r \in Requests, Release(r) PROVE IdsInv'
  BY <1>9 DEF Release
<1>10. ASSUME NEW r \in Requests, ReleaseMismatch(r) PROVE IdsInv'
  BY <1>10 DEF ReleaseMismatch
<1>11. ASSUME NEW r \in Requests, ClearTimeout(r) PROVE IdsInv'
  BY <1>11 DEF ClearTimeout
<1>12. CASE Tick
  BY <1>12 DEF Tick
<1>13. CASE UNCHANGED vars
  BY <1>13 DEF vars
<1> QED
  BY <1>1, <1>2, <1>3, <1>4, <1>5, <1>6, <1>7, <1>8, <1>9, <1>10, <1>11, <1>12, <1>13 DEF Next, Middleware

(* The owner of the lock is always a request still on its way out.          *)
LEMMA LeakStep == IInv /\ [Next]_vars => LockNeverLeaks'
<1> SUFFICES ASSUME IInv, [Next]_vars PROVE LockNeverLeaks'
  OBVIOUS
<1> USE DEF IInv, TypeOK, IdsInv, LockNeverLeaks, Inside, PC, Goto, TryLock,
         lockVars, localVars, InvalidOwnerId
<1>1. ASSUME NEW r \in Requests, Enter(r) PROVE LockNeverLeaks'
  BY <1>1 DEF Enter
<1>2. ASSUME NEW r \in Requests, Acquire(r) PROVE LockNeverLeaks'
  BY <1>2 DEF Acquire
<1>3. ASSUME NEW r \in Requests, Contend(r) PROVE LockNeverLeaks'
  BY <1>3 DEF Contend
<1>4. ASSUME NEW r \in Requests, OnLocked(r) PROVE LockNeverLeaks'
  BY <1>4 DEF OnLocked
<1>5. ASSUME NEW r \in Requests, Steal(r) PROVE LockNeverLeaks'
  BY <1>5 DEF Steal
<1>6. ASSUME NEW r \in Requests, StealFails(r) PROVE LockNeverLeaks'
  BY <1>6 DEF StealFails
<1>7. ASSUME NEW r \in Requests, SetTimeout(r) PROVE LockNeverLeaks'
  BY <1>7 DEF SetTimeout
<1>8. ASSUME NEW r \in Requests, Respond(r) PROVE LockNeverLeaks'
  BY <1>8 DEF Respond
<1>9. ASSUME NEW r \in Requests, Release(r) PROVE LockNeverLeaks'
  BY <1>9 DEF Release
<1>10. ASSUME NEW r \in Requests, ReleaseMismatch(r) PROVE LockNeverLeaks'
  BY <1>10 DEF ReleaseMismatch
<1>11. ASSUME NEW r \in Requests, ClearTimeout(r) PROVE LockNeverLeaks'
  BY <1>11 DEF ClearTimeout
<1>12. CASE Tick
  BY <1>12 DEF Tick
<1>13. CASE UNCHANGED vars
  BY <1>13 DEF vars
<1> QED
  BY <1>1, <1>2, <1>3, <1>4, <1>5, <1>6, <1>7, <1>8, <1>9, <1>10, <1>11, <1>12, <1>13 DEF Next, Middleware

(* Without a race the published timeout is the lease of the owner.          *)
LEMMA QuietStep == IInv /\ LockAssumption /\ [Next]_vars => (~raced => QuietInv)'
<1> SUFFICES ASSUME IInv /\ LockAssumption, [Next]_vars PROVE (~raced => QuietInv)'
  OBVIOUS
<1> USE DEF IInv, TypeOK, IdsInv, LockNeverLeaks, QuietInv, Waiting, Inside, PC,
         Goto, TryLock, lockVars, localVars, InvalidOwnerId, Epoch, Deadline,
         LeaseOver, Expired
<1>1. ASSUME NEW r \in Requests, Enter(r) PROVE (~raced => QuietInv)'
  BY <1>1 DEF Enter
<1>2. ASSUME NEW r \in Requests, Acquire(r) PROVE (~raced => QuietInv)'
  BY <1>2 DEF Acquire
<1>3. ASSUME NEW r \in Requests, Contend(r) PROVE (~raced => QuietInv)'
  BY <1>3 DEF Contend
<1>4. ASSUME NEW r \in Requests, OnLocked(r) PROVE (~raced => QuietInv)'
  <2> SUFFICES ASSUME ~raced', NEW q \in Requests, NEW x \in Requests
               PROVE  /\ (pc[q] = "released" => ownerId = InvalidOwnerId)'
                      /\ (pc[q] = "acquired" => ownerId = id[q])'
                      /\ (pc[q] \in {"handling", "answered"} /\ ownerId = id[q]
                             => timeout = Deadline(q))'
                      /\ (q \in Inside /\ ownerId # id[q] => LeaseOver(q))'
                      /\ (pc[x] = "expired" /\ ownerId = seen[x] /\ ownerId = id[q]
                             => LeaseOver(q) /\ pc[q] # "acquired")'
    OBVIOUS
  <2>1. ~raced /\ QuietInv /\ pc[q] # "acquired"
    BY <1>4 DEF OnLocked
  <2>2. /\ UNCHANGED <<ownerId, timeout, clock, id, now, seen>>
        /\ \A y \in Requests : y # r => pc'[y] = pc[y]
        /\ pc[r] = "contended" /\ pc'[r] \in {"expired", "rejected"}
        /\ pc'[r] = "expired" => now[r] > timeout
    BY <1>4 DEF OnLocked
  <2>3. (pc[x] = "expired" /\ ownerId = seen[x] /\ ownerId = id[q]
             => LeaseOver(q) /\ pc[q] # "acquired")'
    <3>1. CASE x # r
      BY <2>1, <2>2, <3>1
    <3>2. CASE x = r
      <4> SUFFICES ASSUME pc'[r] = "expired", ownerId = seen[r], ownerId = id[q]
                   PROVE  LeaseOver(q)' /\ pc'[q] # "acquired"
        BY <2>2, <3>2
      <4>1. q \in Inside
        <5>1. PICK y \in Inside : id[y] = ownerId
          BY <2>2
        <5> QED
          BY <5>1, <2>2
      <4>2. timeout = Deadline(q)
        BY <2>1, <4>1
      <4> QED
        BY <2>1, <2>2, <4>1, <4>2
    <3> QED
      BY <3>1, <3>2
  <2> QED
    BY <2>1, <2>2, <2>3
<1>5. ASSUME NEW r \in Requests, Steal(r) PROVE (~raced => QuietInv)'
  BY <1>5 DEF Steal
<1>6. ASSUME NEW r \in Requests, StealFails(r) PROVE (~raced => QuietInv)'
  BY <1>6 DEF StealFails
<1>7. ASSUME NEW r \in Requests, SetTimeout(r) PROVE (~raced => QuietInv)'
  BY <1>7 DEF SetTimeout
<1>8. ASSUME NEW r \in Requests, Respond(r) PROVE (~raced => QuietInv)'
  BY <1>8 DEF Respond
<1>9. ASSUME NEW r \in Requests, Release(r) PROVE (~raced => QuietInv)'
  BY <1>9 DEF Release
<1>10. ASSUME NEW r \in Requests, ReleaseMismatch(r) PROVE (~raced => QuietInv)'
  BY <1>10 DEF ReleaseMismatch
<1>11. ASSUME NEW r \in Requests, ClearTimeout(r) PROVE (~raced => QuietInv)'
  BY <1>11 DEF ClearTimeout
<1>12. CASE Tick
  BY <1>12 DEF Tick
<1>13. CASE UNCHANGED vars
  BY <1>13 DEF vars
<1> QED
  BY <1>1, <1>2, <1>3, <1>4, <1>5, <1>6, <1>7, <1>8, <1>9, <1>10, <1>11, <1>12, <1>13 DEF Next, Middleware

LEMMA InvStep == IInv /\ [Next]_vars => IInv'
BY LockAssumption, TypeStep, IdsStep, LeakStep, QuietStep DEF IInv

(* IInv is an invariant of the middleware.                                 *)
THEOREM Invariance == Spec => []IInv
<1>1. Init => IInv
  BY InitIInv
<1>2. IInv /\ [Next]_vars => IInv'
  BY InvStep
<1> QED
  BY <1>1, <1>2, PTL DEF Spec

(* The types of the lock data, of every request's locals and of the        *)
(* histories.                                                              *)
THEOREM TypeCorrect == Spec => []TypeOK
<1>1. IInv => TypeOK
  BY DEF IInv
<1> QED
  BY <1>1, Invariance, PTL

(* For any number of requests, a lock that is held is held by a request    *)
(* that has yet to release it: it is never left behind by a steal or a     *)
(* late release.                                                           *)
THEOREM LockIsNeverLeaked == Spec => []LockNeverLeaks
<1>1. IInv => LockNeverLeaks
  BY DEF IInv
<1> QED
  BY <1>1, Invariance, PTL

(* The main result: as long as nobody has run through one of the two       *)
(* windows, two requests are inside together only if the lease of one of   *)
(* them is over.  Together with the counterexample of the run              *)
(* session_lock_windows: the two windows are the whole of the defect.      *)
THEOREM ExclusionUnlessRaced == Spec => []LeaseExclusionUnlessRaced
<1>1. IInv => LeaseExclusionUnlessRaced
  <2> SUFFICES ASSUME IInv, ~raced, NEW r \in Inside, NEW q \in Inside, r # q
               PROVE  LeaseOver(r) \/ LeaseOver(q)
    BY DEF LeaseExclusionUnlessRaced, LeaseExclusion
  <2>1. id[r] # id[q]
    BY DEF IInv, IdsInv, Inside, TypeOK, PC
  <2>2. ownerId # id[r] \/ ownerId # id[q]
    BY <2>1
  <2>3. QuietInv
    BY DEF IInv
  <2> QED
    BY <2>2, <2>3 DEF QuietInv, Inside
<1> QED
  BY <1>1, Invariance, PTL
-----------------------------------------------------------------------------
(* The refinement of SessionLease.                                         *)

(* Holder is the request whose id is in the lock, and NoRequest when the   *)
(* lock is free.                                                           *)
HolderFacts ==
    /\ \A r \in Inside : id[r] = ownerId => Holder = r
    /\ ownerId = InvalidOwnerId => Holder = NoRequest
    /\ ownerId # InvalidOwnerId => Holder \in Inside /\ id[Holder] = ownerId
    /\ \A r \in Inside : r \in Requests /\ id[r] # InvalidOwnerId

LEMMA HolderIs == IInv => HolderFacts
<1> SUFFICES ASSUME IInv PROVE HolderFacts
  OBVIOUS
<1>1. \A r \in Inside : r \in Requests /\ id[r] # InvalidOwnerId
  BY DEF IInv, IdsInv, Inside, TypeOK, PC
<1>2. ASSUME NEW r \in Inside, id[r] = ownerId PROVE Holder = r
  <2>1. \A q \in Inside : id[q] = ownerId => q = r
    BY <1>1, <1>2 DEF IInv, IdsInv
  <2> QED
    BY <1>2, <2>1 DEF Holder
<1>3. ASSUME ownerId = InvalidOwnerId PROVE Holder = NoRequest
  BY <1>1, <1>3 DEF Holder
<1>4. ASSUME ownerId # InvalidOwnerId
      PROVE  Holder \in Inside /\ id[Holder] = ownerId
  <2>1. PICK r \in Inside : id[r] = ownerId
    BY <1>4 DEF IInv, LockNeverLeaks
  <2> QED
    BY <1>2, <2>1
<1> QED
  BY <1>1, <1>2, <1>3, <1>4 DEF HolderFacts

LEMMA HolderIsNext == IInv' => HolderFacts'
BY HolderIs, PTL

LEMMA LeaseInit == Init => Lease!Init
<1> SUFFICES ASSUME Init PROVE Lease!Init
  OBVIOUS
<1>1. Holder = NoRequest
  BY InitIInv, HolderIs DEF HolderFacts, Init
<1>2. Inside = {}
  BY DEF Init, Inside
<1>3. [r \in Requests |-> Deadline(r)] \in [Requests -> Nat]
  BY LockAssumption DEF Init, Deadline, Epoch, LockAssumption
<1> QED
  BY <1>1, <1>2, <1>3 DEF Lease!Init, Init

(* Every step of the middleware is a step of the lease or a stutter.       *)
LEMMA LeaseStep == IInv /\ [Next]_vars => [Lease!Next]_Lease!leaseVars
<1> SUFFICES ASSUME IInv, [Next]_vars
             PROVE  [Lease!Next]_Lease!leaseVars
  OBVIOUS
<1>1. IInv' /\ HolderFacts /\ HolderFacts' /\ TypeOK /\ TypeOK'
  BY InvStep, HolderIs, HolderIsNext DEF IInv
<1> DEFINE D == [r \in Requests |-> Deadline(r)]
<1>2. ASSUME UNCHANGED <<ownerId, id, Inside>>
      PROVE  Holder' = Holder
  BY <1>1, <1>2 DEF HolderFacts, Holder
<1>3. ASSUME UNCHANGED now PROVE D' = D
  BY <1>3 DEF Deadline
<1>4. ASSUME NEW r \in Requests, Enter(r) PROVE Lease!Arrive(r)
  <2>1. r \notin Inside /\ Inside' = Inside
    BY <1>1, <1>4 DEF Enter, Goto, Inside, TypeOK
  <2>2. Holder' = Holder
    BY <1>1, <1>4, <2>1
       DEF Enter, HolderFacts, lockVars, TypeOK, Inside, IInv, IdsInv
  <2>3. D' = [D EXCEPT ![r] = D'[r]]
    BY <1>1, <1>4 DEF Enter, Deadline, TypeOK
  <2> QED
    BY <1>4, <2>1, <2>2, <2>3 DEF Enter, Lease!Arrive
<1>5. ASSUME NEW r \in Requests, Acquire(r) PROVE Lease!Admit(r)
  <2>1. r \notin Inside /\ Inside' = Inside \cup {r}
    BY <1>1, <1>5 DEF Acquire, Goto, Inside, TypeOK
  <2>2. Holder = NoRequest /\ Holder' = r
    BY <1>1, <1>5, <2>1 DEF Acquire, TryLock, HolderFacts, localVars
  <2> QED
    BY <1>1, <1>3, <1>5, <2>1, <2>2 DEF Acquire, Lease!Admit, localVars, TypeOK
<1>6. ASSUME NEW r \in Requests, OnLocked(r)
      PROVE  Lease!Race \/ UNCHANGED Lease!leaseVars
  <2>1. Inside' = Inside
    BY <1>1, <1>6 DEF OnLocked, Goto, Inside, TypeOK
  <2>2. Holder' = Holder /\ D' = D /\ UNCHANGED clock /\ raced' \in {raced, TRUE}
    BY <1>1, <1>2, <1>3, <1>6, <2>1
       DEF OnLocked, lockVars, localVars, TypeOK
  <2> QED
    BY <2>1, <2>2 DEF Lease!Race, Lease!leaseVars
<1>7. ASSUME NEW r \in Requests, Steal(r) PROVE Lease!TakeOver(r)
  <2>1. r \notin Inside /\ Inside' = Inside \cup {r}
    BY <1>1, <1>7 DEF Steal, Goto, Inside, TypeOK
  <2>2. ownerId = seen[r] /\ seen[r] # InvalidOwnerId
    BY <1>7 DEF Steal, Goto, TryLock, IInv, IdsInv
  <2>3. Holder \in Inside /\ id[Holder] = ownerId /\ Holder' = r
    BY <1>1, <1>7, <2>1, <2>2 DEF Steal, TryLock, HolderFacts, localVars
  <2>4. raced \/ LeaseOver(Holder)
    BY <1>1, <1>7, <2>2, <2>3
       DEF Steal, Goto, IInv, QuietInv, HolderFacts, TypeOK
  <2>5. Holder \in Requests /\ (raced \/ clock > D[Holder])
    BY <2>3, <2>4 DEF LeaseOver, Inside
  <2> QED
    BY <1>3, <1>7, <2>1, <2>3, <2>5 DEF Steal, Lease!TakeOver, localVars
<1>8. ASSUME NEW r \in Requests, Release(r) \/ ReleaseMismatch(r)
      PROVE  Lease!Leave(r)
  <2>1. r \in Inside /\ Inside' = Inside \ {r}
    BY <1>1, <1>8 DEF Release, ReleaseMismatch, Goto, Inside, TypeOK
  <2>2. CASE Release(r)
    <3>1. Holder = r /\ Holder' = NoRequest
      BY <1>1, <2>1, <2>2 DEF Release, TryLock, HolderFacts
    <3> QED
      BY <1>3, <2>1, <2>2, <3>1 DEF Release, Lease!Leave, localVars
  <2>3. CASE ReleaseMismatch(r)
    <3>1. Holder # r
      BY <1>1, <2>1, <2>3, LockAssumption
         DEF ReleaseMismatch, HolderFacts, LockAssumption
    <3>2. Holder' = Holder
      BY <1>1, <2>1, <2>3, <3>1
         DEF ReleaseMismatch, HolderFacts, lockVars, localVars
    <3> QED
      BY <1>3, <2>1, <2>3, <3>1, <3>2
         DEF ReleaseMismatch, Lease!Leave, localVars, lockVars
  <2> QED
    BY <1>8, <2>2, <2>3
<1>9. ASSUME NEW r \in Requests,
             \/ Contend(r) \/ StealFails(r) \/ SetTimeout(r)
             \/ Respond(r) \/ ClearTimeout(r)
      PROVE  UNCHANGED Lease!leaseVars
  <2>1. Inside' = Inside
    BY <1>1, <1>9 DEF Contend, StealFails, SetTimeout, Respond, ClearTimeout,
                      Goto, Inside, TypeOK
  <2>2. UNCHANGED <<ownerId, id, now, clock, raced>>
    BY <1>9 DEF Contend, StealFails, SetTimeout, Respond, ClearTimeout,
                lockVars, localVars
  <2> QED
    BY <1>2, <1>3, <2>1, <2>2 DEF Lease!leaseVars
<1>10. CASE Tick
  <2>1. Inside' = Inside /\ Holder' = Holder /\ D' = D /\ UNCHANGED raced
    BY <1>2, <1>3, <1>10 DEF Tick, Inside, lockVars, localVars
  <2>2. clock' > clock /\ clock' \in Nat
    BY <1>1, <1>10 DEF Tick, TypeOK
  <2>3. Lease!Pass
    BY <2>1, <2>2 DEF Lease!Pass
  <2> QED
    BY <2>3 DEF Lease!Next
<1>11. CASE UNCHANGED vars
  <2>1. Inside' = Inside /\ UNCHANGED <<ownerId, id, now, clock, raced>>
    BY <1>11 DEF vars, Inside
  <2> QED
    BY <1>2, <1>3, <2>1 DEF Lease!leaseVars
<1> QED
  BY <1>4, <1>5, <1>6, <1>7, <1>8, <1>9, <1>10, <1>11
     DEF Next, Middleware, Lease!Next

(* The middleware implements the lease: what its atomics and its plain     *)
(* timeout do step by step is the lease of SessionLease, take-overs before *)
(* the deadline happening only after a race.                               *)
THEOREM Refinement == Spec => ImplementsLease
<1>1. Init => Lease!Init
  BY LeaseInit
<1>2. IInv /\ [Next]_vars => [Lease!Next]_Lease!leaseVars
  BY LeaseStep
<1> QED
  BY <1>1, <1>2, Invariance, PTL DEF Spec, ImplementsLease, Lease!Spec
=============================================================================

----------------------------- MODULE SessionLock -----------------------------
(***************************************************************************)
(* server/src/middlewares/SessionLockMiddleware.h: the lock every /auth    *)
(* route takes on its HTTP session.                                        *)
(*                                                                         *)
(* One session, hence one LockData {timeout, ownerId}.  A request runs     *)
(* `invoke' on the I/O thread of its connection (number_of_threads is 0,   *)
(* i.e. one per core, so two connections of one client run in parallel),   *)
(* and its response callback on the thread the handler finishes on, which  *)
(* for the handlers that query the database is the thread of the database  *)
(* client.  Every access to LockData is therefore a step of its own: the   *)
(* compare-exchanges on the atomic ownerId, and the reads and writes of    *)
(* the plain `timeout' next to them.  (That access is a data race; on the  *)
(* 64-bit targets of the build a time_point is one aligned word and the    *)
(* neighbouring atomics are full barriers, so the outcomes are those of    *)
(* the interleavings.)                                                     *)
(*                                                                         *)
(* A request is one-shot: Requests is the set of all requests ever sent    *)
(* on the session.  The two windows a reader must know about:              *)
(*   "acquired"  ownerId is already ours, timeout is not yet written;      *)
(*   "released"  ownerId is already 0, timeout is not yet reset.           *)
(***************************************************************************)
EXTENDS Naturals

CONSTANTS
    Requests,       \* requests sent on the session
    NoRequest,      \* a value that is not a request
    LockTimeout,    \* kLockTimeout, in ticks of the clock
    MaxClock        \* bound of the clock

ASSUME LockAssumption ==
    /\ NoRequest \notin Requests
    /\ LockTimeout \in Nat
    /\ MaxClock \in Nat \ {0}

VARIABLES
    ownerId,            \* LockData::ownerId
    timeout,            \* LockData::timeout
    sessionLockCount,   \* the counter owner ids are drawn from
    clock,              \* system_clock
    pc,                 \* where each request is in invoke() and its callback
    id,                 \* the local ownerId of each request
    now,                \* the local `now' of each request
    seen,               \* the local currentOwnerId after a failed tryLock
    raced,              \* history: a window has been run through
    overlapped          \* history: requests with another one unanswered

lockVars == <<ownerId, timeout>>
localVars == <<id, now, seen>>
vars == <<ownerId, timeout, sessionLockCount, clock, pc, id, now, seen,
          raced, overlapped>>

InvalidOwnerId == 0     \* kInvalidOwnerId
Epoch == 0              \* a default-constructed time_point; clock starts later

PC == {"idle", "entered", "contended", "expired", "acquired", "handling",
       "answered", "released", "done", "rejected"}

(* Let through and not yet out: between winning ownerId and releasing it.  *)
Inside == {r \in Requests : pc[r] \in {"acquired", "handling", "answered"}}
Unanswered == {r \in Requests :
                 pc[r] \in {"entered", "contended", "expired", "acquired",
                            "handling"}}
Deadline(r) == now[r] + LockTimeout
LeaseOver(r) == clock > Deadline(r)

Goto(r, from, to) ==
    /\ pc[r] = from
    /\ pc' = [pc EXCEPT ![r] = to]

(* compare_exchange_strong on ownerId, as tryLock wraps it.                *)
TryLock(expected, new) ==
    /\ ownerId = expected
    /\ ownerId' = new
-----------------------------------------------------------------------------
Init ==
    /\ ownerId = InvalidOwnerId
    /\ timeout = Epoch
    /\ sessionLockCount = 0
    /\ clock = 1
    /\ pc = [r \in Requests |-> "idle"]
    /\ id = [r \in Requests |-> InvalidOwnerId]
    /\ now = [r \in Requests |-> Epoch]
    /\ seen = [r \in Requests |-> InvalidOwnerId]
    /\ raced = FALSE
    /\ overlapped = {}

(* invoke() fetches the lock data, draws a fresh owner id, reads the clock *)
Enter(r) ==
    /\ Goto(r, "idle", "entered")
    /\ sessionLockCount' = sessionLockCount + 1
    /\ id' = [id EXCEPT ![r] = sessionLockCount + 1]
    /\ now' = [now EXCEPT ![r] = clock]
    /\ overlapped' = IF Unanswered = {} THEN overlapped
                     ELSE overlapped \cup Unanswered \cup {r}
    /\ UNCHANGED <<lockVars, clock, seen, raced>>

(* The first tryLock finds the session free.                               *)
Acquire(r) ==
    /\ Goto(r, "entered", "acquired")
    /\ TryLock(InvalidOwnerId, id[r])
    /\ raced' = (raced \/ \E q \in Requests : pc[q] = "released")
    /\ UNCHANGED <<timeout, sessionLockCount, clock, localVars, overlapped>>

(* The first tryLock fails and leaves the current owner in currentOwnerId. *)
Contend(r) ==
    /\ Goto(r, "entered", "contended")
    /\ ownerId # InvalidOwnerId
    /\ seen' = [seen EXCEPT ![r] = ownerId]
    /\ UNCHANGED <<lockVars, sessionLockCount, clock, id, now, raced,
                   overlapped>>

(* Mutants of Expired: the comparison off by one, and the wrong way round. *)
ExpiredAtTimeout(r) == now[r] >= timeout
ExpiredInverted(r) == timeout > now[r]

(* onLocked compares the caller's `now' with the lock's timeout.           *)
Expired(r) == now[r] > timeout

OnLocked(r) ==
    /\ \/ Expired(r) /\ Goto(r, "contended", "expired")
       \/ ~Expired(r) /\ Goto(r, "contended", "rejected")
    /\ raced' = (raced \/ \E q \in Requests : pc[q] = "acquired")
    /\ UNCHANGED <<lockVars, sessionLockCount, clock, localVars, overlapped>>

(* The second tryLock, from the owner seen to the caller.                  *)
Steal(r) ==
    /\ Goto(r, "expired", "acquired")
    /\ TryLock(seen[r], id[r])
    /\ UNCHANGED <<timeout, sessionLockCount, clock, localVars, raced,
                   overlapped>>

StealFails(r) ==
    /\ Goto(r, "expired", "rejected")
    /\ ownerId # seen[r]
    /\ UNCHANGED <<lockVars, sessionLockCount, clock, localVars, raced,
                   overlapped>>

(* Mutant of SetTimeout: the time left is stored, not the time it ends.    *)
SetTimeoutRelative(r) ==
    /\ Goto(r, "acquired", "handling")
    /\ timeout' = Deadline(r) - clock
    /\ UNCHANGED <<ownerId, sessionLockCount, clock, localVars, raced,
                   overlapped>>

(* Back in invoke(): the plain write of the timeout, then the handler.     *)
SetTimeout(r) ==
    /\ Goto(r, "acquired", "handling")
    /\ timeout' = Deadline(r)
    /\ UNCHANGED <<ownerId, sessionLockCount, clock, localVars, raced,
                   overlapped>>

(* The handler's callback sends the response before it releases the lock.  *)
Respond(r) ==
    /\ Goto(r, "handling", "answered")
    /\ UNCHANGED <<lockVars, sessionLockCount, clock, localVars, raced,
                   overlapped>>

(* Mutants of the release: the arguments of the compare-exchange are both  *)
(* the owner; the mismatch stores 0 all the same.                          *)
ReleaseToItself(r) ==
    /\ Goto(r, "answered", "released")
    /\ TryLock(id[r], id[r])
    /\ UNCHANGED <<timeout, sessionLockCount, clock, localVars, raced,
                   overlapped>>

ReleaseMismatchFrees(r) ==
    /\ Goto(r, "answered", "done")
    /\ ownerId # id[r]
    /\ ownerId' = InvalidOwnerId
    /\ UNCHANGED <<timeout, sessionLockCount, clock, localVars, raced,
                   overlapped>>

(* onLockRelease: the compare-exchange to 0, and the owner mismatch.       *)
Release(r) ==
    /\ Goto(r, "answered", "released")
    /\ TryLock(id[r], InvalidOwnerId)
    /\ UNCHANGED <<timeout, sessionLockCount, clock, localVars, raced,
                   overlapped>>

ReleaseMismatch(r) ==
    /\ Goto(r, "answered", "done")
    /\ ownerId # id[r]
    /\ UNCHANGED <<lockVars, sessionLockCount, clock, localVars, raced,
                   overlapped>>

(* ... and the reset of the timeout after a successful release.            *)
ClearTimeout(r) ==
    /\ Goto(r, "released", "done")
    /\ timeout' = Epoch
    /\ UNCHANGED <<ownerId, sessionLockCount, clock, localVars, raced,
                   overlapped>>

Tick ==
    /\ clock < MaxClock
    /\ clock' = clock + 1
    /\ UNCHANGED <<lockVars, sessionLockCount, pc, localVars, raced,
                   overlapped>>

(* The steps of the middleware itself; Respond is the handler's.           *)
Middleware(r) ==
    \/ Acquire(r) \/ Contend(r) \/ OnLocked(r) \/ Steal(r) \/ StealFails(r)
    \/ SetTimeout(r) \/ Release(r) \/ ReleaseMismatch(r) \/ ClearTimeout(r)

Next ==
    \/ \E r \in Requests : Enter(r) \/ Middleware(r) \/ Respond(r)
    \/ Tick

Spec == Init /\ [][Next]_vars

(* A thread that has begun invoke() or the callback goes on.  Nothing is   *)
(* assumed of Respond: the handler may wait for the database for ever (the *)
(* configured query timeout is -1), nor of Enter and Tick.                 *)
FairSpec == Spec /\ \A r \in Requests : WF_vars(Middleware(r))
-----------------------------------------------------------------------------
TypeOK ==
    /\ ownerId \in Nat
    /\ timeout \in Nat
    /\ sessionLockCount \in Nat
    /\ clock \in Nat
    /\ pc \in [Requests -> PC]
    /\ id \in [Requests -> Nat]
    /\ now \in [Requests -> Nat]
    /\ seen \in [Requests -> Nat]
    /\ raced \in BOOLEAN
    /\ overlapped \in SUBSET Requests

(* A held lock always has a holder that will still come to its release: no *)
(* order of steals and late releases leaves ownerId naming a request that  *)
(* is already out, which would lock the session until the next expiry.     *)
LockNeverLeaks ==
    ownerId # InvalidOwnerId => \E r \in Inside : id[r] = ownerId

(* What the lock is for, as the comment and the answer at line 102 say:    *)
(* a request that finds the session locked gets an error instead of its    *)
(* handler, so of two handlers of one session that run at once, one runs   *)
(* beyond its 30 seconds.  The middleware does not deliver this; see       *)
(* LeaseExclusionUnlessRaced for what it does.                             *)
HandlerExclusion ==
    \A r, q \in Requests :
        r # q /\ pc[r] = "handling" /\ pc[q] = "handling"
            => LeaseOver(r) \/ LeaseOver(q)

LeaseExclusion ==
    \A r, q \in Inside : r # q => LeaseOver(r) \/ LeaseOver(q)

(* What it does deliver: exclusion for the length of the lease as long as  *)
(* no request read the timeout of a lock whose owner had not written it    *)
(* yet, and none took the lock before the last releaser had reset it.      *)
LeaseExclusionUnlessRaced == ~raced => LeaseExclusion

(* The "locked by another request" answer: a request is rejected only if   *)
(* some other request of the session was unanswered at the same time.      *)
LockedOnlyByAnother ==
    \A r \in Requests : pc[r] = "rejected" => r \in overlapped

(* A handler that never answers does not keep the session: a request that  *)
(* arrives after the published timeout makes the lock change hands, with   *)
(* no help from the handler that hangs.                                    *)
HungHandlerLosesLock ==
    \A r, o \in Requests :
        (/\ pc[r] = "entered" /\ now[r] > timeout
         /\ pc[o] = "handling" /\ ownerId = id[o]
         /\ \A q \in Requests : pc[q] \notin {"acquired", "released"})
        ~> (ownerId # id[o])

(* The middleware implements the lease of SessionLease.tla.                *)
Holder == IF \E r \in Inside : id[r] = ownerId
          THEN CHOOSE r \in Inside : id[r] = ownerId
          ELSE NoRequest

Lease == INSTANCE SessionLease
             WITH holder <- Holder, inside <- Inside,
                  deadline <- [r \in Requests |-> Deadline(r)]

ImplementsLease == Lease!Spec
=============================================================================

--------------------------- MODULE SessionService ---------------------------
(***************************************************************************)
(* server/src/services/SessionService.cpp: the authentication state of one *)
(* HTTP session and the cache of authentication cookies.                   *)
(*                                                                         *)
(* Calls run in parallel on the server's threads: AuthFilter calls         *)
(* getAuthenticatedUserId on every /users and /vaults request, outside any *)
(* session lock, and the lock of the /auth routes can be lost (see         *)
(* SessionLock.tla), so no two operations are taken to exclude each other. *)
(* A call is a few steps: the fetch of the session's UserSession pointer,  *)
(* the block under that object's mutex, and what is left outside it.       *)
(*                                                                         *)
(* A call happens once.  It creates at most one UserSession, draws at most *)
(* one cookie (uuid::rand) and generates at most one challenge, so each of *)
(* these is named after the call that made it; that is their freshness.    *)
(***************************************************************************)
EXTENDS Naturals

CONSTANTS
    Calls,          \* calls of the service for the one session
    Users,
    Null            \* uuid::null(), a null pointer, no proof

ASSUME ServiceAssumption == Null \notin Calls /\ Null \notin Users

VARIABLES
    session,        \* the session's UserSession, by its creator, or Null
    us,             \* the UserSession objects
    cache,          \* m_authCookieCache: the user of each cookie, or Null
    expired,        \* cookies past their expireTime
    pc,             \* the progress, and in the end the outcome, of a call
    ptr,            \* the UserSession pointer a call has fetched
    cookie,         \* the cookie a getAuthenticatedUserId call presents
    arg,            \* the user of an authenticate, the challenge a proof signs
    seen,           \* history: users the presented cookie was good for
    verified,       \* history: the challenge a refresh call consumed
    before,         \* history: cookies issued before a logout began
    revoked,        \* history: cookies issued before an answered logout
    late            \* history: checks of a cookie already revoked

objectVars == <<session, us, cache, expired>>
callVars == <<ptr, cookie, arg>>
histVars == <<verified, before, revoked, late>>
vars == <<session, us, cache, expired, pc, ptr, cookie, arg, seen,
          verified, before, revoked, late>>

UserSession == [userId : Users \cup {Null}, cookieId : Calls \cup {Null},
                bound : BOOLEAN, challenge : Calls \cup {Null}]
Cleared == [userId |-> Null, cookieId |-> Null, bound |-> FALSE,
            challenge |-> Null]

Running == {"installed", "check", "deauth", "erase", "refresh", "challenge"}
Outcome == {"cookie", "admitted", "denied", "loggedOut", "challenged", "threw"}

(* What the client holds: cookies and challenges of answered calls.        *)
Issued == {r \in Calls : pc[r] = "cookie"}
Challenges == {r \in Calls : pc[r] = "challenged"}

Goto(r, from, to) ==
    /\ pc[r] = from
    /\ pc' = [pc EXCEPT ![r] = to]

(* The conditions of getAuthenticatedUserId on one UserSession.            *)
Opens(o, c, u) ==
    /\ c # Null
    /\ us[o].cookieId = c
    /\ cache[c] = u /\ u # Null
    /\ us[o].userId = u
    /\ c \notin expired
-----------------------------------------------------------------------------
Init ==
    /\ session = Null
    /\ us = [o \in Calls |-> Cleared]
    /\ cache = [c \in Calls |-> Null]
    /\ expired = {}
    /\ pc = [r \in Calls |-> "idle"]
    /\ ptr = [r \in Calls |-> Null]
    /\ cookie = [r \in Calls |-> Null]
    /\ arg = [r \in Calls |-> Null]
    /\ seen = [r \in Calls |-> {}]
    /\ verified = [r \in Calls |-> Null]
    /\ before = [r \in Calls |-> {}]
    /\ revoked = {}
    /\ late = {}

(* authenticate: a new UserSession replaces the session's, whose cookie    *)
(* stays in the cache ...                                                  *)
Install(r, u, device) ==
    /\ Goto(r, "idle", "installed")
    /\ us' = [us EXCEPT ![r] =
                [userId |-> u, cookieId |-> r, bound |-> device,
                 challenge |-> IF device THEN r ELSE Null]]
    /\ session' = r
    /\ ptr' = [ptr EXCEPT ![r] = r]
    /\ arg' = [arg EXCEPT ![r] = u]
    /\ UNCHANGED <<cache, expired, cookie, histVars>>

(* Mutant of InsertCookie: the two ids are swapped in the call.            *)
InsertCookieSwapped(r) ==
    /\ Goto(r, "installed", "cookie")
    /\ cache' = [cache EXCEPT ![r] = r]
    /\ UNCHANGED <<session, us, expired, callVars, histVars>>

(* ... then the new cookie goes into the cache, with the user the call was *)
(* given, whatever has become of the new UserSession.                      *)
InsertCookie(r) ==
    /\ Goto(r, "installed", "cookie")
    /\ cache' = [cache EXCEPT ![r] = arg[r]]
    /\ UNCHANGED <<session, us, expired, callVars, histVars>>

(* Mutant of Fetch: a UserSession remembered from an earlier request.      *)
FetchRemembered(r, op, none) ==
    /\ \E o \in {session} \cup {q \in Calls : us[q].userId # Null} :
        /\ Goto(r, "idle", IF o = Null THEN none ELSE op)
        /\ ptr' = [ptr EXCEPT ![r] = o]
    /\ UNCHANGED objectVars

(* Every other operation starts with the pointer; none means an answer.    *)
Fetch(r, op, none) ==
    /\ Goto(r, "idle", IF session = Null THEN none ELSE op)
    /\ ptr' = [ptr EXCEPT ![r] = session]
    /\ UNCHANGED objectVars

BeginCheck(r) ==
    /\ Fetch(r, "check", "denied")
    /\ \E c \in Issued \cup {Null} :
        /\ cookie' = [cookie EXCEPT ![r] = c]
        /\ late' = IF c \in revoked THEN late \cup {r} ELSE late
    /\ UNCHANGED <<arg, verified, before, revoked>>

(* Mutant of Check: whoever has a live cookie of the cache is let in.      *)
CheckTrustsCache(r) ==
    /\ Goto(r, "check", "admitted")
    /\ cookie[r] # Null /\ cache[cookie[r]] # Null /\ cookie[r] \notin expired
    /\ UNCHANGED <<objectVars, callVars, histVars>>

Check(r) ==
    /\ Goto(r, "check", "admitted")
    /\ \E u \in Users : Opens(ptr[r], cookie[r], u)
    /\ UNCHANGED <<objectVars, callVars, histVars>>

CheckFails(r) ==
    /\ Goto(r, "check", "denied")
    /\ ~\E u \in Users : Opens(ptr[r], cookie[r], u)
    /\ UNCHANGED <<objectVars, callVars, histVars>>

(* deauthenticate: under the mutex the cookie leaves the cache and the     *)
(* object is cleared; the session's entry is erased after that, whichever  *)
(* UserSession it names by then.                                           *)
BeginDeauth(r) ==
    /\ Fetch(r, "deauth", "erase")
    /\ before' = [before EXCEPT ![r] = Issued]
    /\ UNCHANGED <<cookie, arg, verified, revoked, late>>

Deauth(r) ==
    /\ Goto(r, "deauth", "erase")
    /\ LET c == us[ptr[r]].cookieId IN
        cache' = IF c = Null THEN cache ELSE [cache EXCEPT ![c] = Null]
    /\ us' = [us EXCEPT ![ptr[r]] = Cleared]
    /\ UNCHANGED <<session, expired, callVars, histVars>>

(* Mutant of EraseSession: it relies on the object having been cleared.    *)
EraseSessionSkipped(r) ==
    /\ Goto(r, "erase", "loggedOut")
    /\ revoked' = revoked \cup before[r]
    /\ UNCHANGED <<objectVars, callVars, verified, before, late>>

EraseSession(r) ==
    /\ Goto(r, "erase", "loggedOut")
    /\ session' = Null
    /\ revoked' = revoked \cup before[r]
    /\ UNCHANGED <<us, cache, expired, callVars, verified, before, late>>

(* DeviceBoundContext::consumeChallenge: the challenge changes whether the *)
(* proof is good or not.                                                   *)
ProofHolds(r) == us[ptr[r]].challenge = arg[r] /\ arg[r] # Null
NextChallenge(r) == [us[ptr[r]] EXCEPT !.challenge = r]

BeginRefresh(r) ==
    /\ Fetch(r, "refresh", "denied")
    /\ \E p \in Challenges \cup {Null} : arg' = [arg EXCEPT ![r] = p]
    /\ UNCHANGED <<cookie, histVars>>

RefreshRefused(r) ==
    /\ Goto(r, "refresh", "denied")
    /\ us[ptr[r]].bound /\ ~ProofHolds(r)
    /\ us' = [us EXCEPT ![ptr[r]] = NextChallenge(r)]
    /\ UNCHANGED <<session, cache, expired, callVars, histVars>>

(* Mutants of Rotate: the challenge survives a good proof; the object is   *)
(* written back to the session.                                            *)
RotateKeepsChallenge(r) ==
    LET o == us[ptr[r]] IN
    /\ pc[r] = "refresh"
    /\ o.bound => ProofHolds(r)
    /\ Goto(r, "refresh", IF o.userId = Null THEN "threw" ELSE "cookie")
    /\ us' = [us EXCEPT ![ptr[r]].cookieId = r]
    /\ cache' = [cache EXCEPT ![r] = o.userId]
    /\ verified' = [verified EXCEPT ![r] = IF o.bound THEN arg[r] ELSE Null]
    /\ UNCHANGED <<session, expired, callVars, before, revoked, late>>

RotateWritesBack(r) ==
    LET o == us[ptr[r]] IN
    /\ Goto(r, "refresh", "cookie")
    /\ ~o.bound /\ o.userId # Null
    /\ us' = [us EXCEPT ![ptr[r]].cookieId = r]
    /\ cache' = [cache EXCEPT ![r] = o.userId]
    /\ session' = ptr[r]
    /\ UNCHANGED <<expired, callVars, histVars>>

(* refreshAuthentication: the old cookie goes, a new one is drawn; for an  *)
(* object that a logout has cleared, insertAuthCookie then throws.         *)
Rotate(r) ==
    LET o == us[ptr[r]] IN
    /\ pc[r] = "refresh"
    /\ o.bound => ProofHolds(r)
    /\ Goto(r, "refresh", IF o.userId = Null THEN "threw" ELSE "cookie")
    /\ us' = [us EXCEPT ![ptr[r]] =
                [o EXCEPT !.cookieId = r,
                          !.challenge = IF o.bound THEN r ELSE @]]
    /\ cache' = [c \in Calls |-> CASE c = r -> o.userId
                                   [] c # r /\ c = o.cookieId -> Null
                                   [] OTHER -> cache[c]]
    /\ verified' = [verified EXCEPT ![r] = IF o.bound THEN arg[r] ELSE Null]
    /\ UNCHANGED <<session, expired, callVars, before, revoked, late>>

(* getNextChallenge: a new challenge, for a device-bound session only.     *)
BeginChallenge(r) ==
    /\ Fetch(r, "challenge", "denied")
    /\ UNCHANGED <<cookie, arg, histVars>>

Challenge(r) ==
    /\ Goto(r, "challenge", "challenged")
    /\ us[ptr[r]].bound
    /\ us' = [us EXCEPT ![ptr[r]] = NextChallenge(r)]
    /\ UNCHANGED <<session, cache, expired, callVars, histVars>>

NoChallenge(r) ==
    /\ Goto(r, "challenge", "denied")
    /\ ~us[ptr[r]].bound
    /\ UNCHANGED <<objectVars, callVars, histVars>>

(* Time: a cookie reaches its expireTime; the cache drops it around then.  *)
Expire(c) ==
    /\ cache[c] # Null /\ c \notin expired
    /\ expired' = expired \cup {c}
    /\ UNCHANGED <<session, us, cache, pc, callVars, histVars>>

Evict(c) ==
    /\ cache[c] # Null /\ c \in expired
    /\ cache' = [cache EXCEPT ![c] = Null]
    /\ UNCHANGED <<session, us, expired, pc, callVars, histVars>>

Step(r) ==
    \/ \E u \in Users, device \in BOOLEAN : Install(r, u, device)
    \/ InsertCookie(r)
    \/ BeginCheck(r) \/ Check(r) \/ CheckFails(r)
    \/ BeginDeauth(r) \/ Deauth(r) \/ EraseSession(r)
    \/ BeginRefresh(r) \/ RefreshRefused(r) \/ Rotate(r)
    \/ BeginChallenge(r) \/ Challenge(r) \/ NoChallenge(r)
    \/ Expire(r) \/ Evict(r)

(* The history of a check: the users its cookie opened the session for at  *)
(* some instant since the call began.                                      *)
Record ==
    seen' = [r \in Calls |->
               IF pc'[r] = "check" /\ session' # Null
               THEN seen[r] \cup {u \in Users : Opens(session, cookie[r], u)'}
               ELSE seen[r]]

Next == (\E r \in Calls : Step(r)) /\ Record

Spec == Init /\ [][Next]_vars
-----------------------------------------------------------------------------
TypeOK ==
    /\ session \in Calls \cup {Null}
    /\ us \in [Calls -> UserSession]
    /\ cache \in [Calls -> Users \cup {Null}]
    /\ expired \in SUBSET Calls
    /\ pc \in [Calls -> {"idle"} \cup Running \cup Outcome]
    /\ ptr \in [Calls -> Calls \cup {Null}]
    /\ cookie \in [Calls -> Calls \cup {Null}]
    /\ arg \in [Calls -> Calls \cup Users \cup {Null}]
    /\ seen \in [Calls -> SUBSET Users]
    /\ verified \in [Calls -> Calls \cup {Null}]
    /\ before \in [Calls -> SUBSET Calls]
    /\ revoked \in SUBSET Calls
    /\ late \in SUBSET Calls

(* A request let through as a user presented a cookie that opened the      *)
(* session for that very user at some instant of the check, whatever       *)
(* logins, logouts and refreshes ran beside it: the check through a        *)
(* UserSession pointer that has gone stale lets nobody else in.            *)
AdmittedAs(r) == us[ptr[r]].userId

AdmissionLinearizable ==
    [][\A r \in Calls :
          pc[r] = "check" /\ pc'[r] = "admitted" => AdmittedAs(r) \in seen[r]]_vars

(* The answer of a logout is final for every cookie issued before it       *)
(* began: a later request with one of them is refused, even if logins and  *)
(* refreshes ran at the same time as the logout.                           *)
LogoutRevokes == \A r \in late : pc[r] # "admitted"

(* No challenge authorises two refreshes: a repeated or delayed refresh    *)
(* request fails, whatever getNextChallenge and refresh calls ran between. *)
ChallengeUsedOnce ==
    \A r, q \in Calls :
        r # q /\ verified[r] # Null => verified[r] # verified[q]

(* With no operation under way, a session that still has a UserSession is  *)
(* one its cookie opens until it expires: interleaved operations never     *)
(* leave a session that looks logged in and refuses its own cookie.        *)
Quiescent == \A r \in Calls : pc[r] \notin Running \ {"check"}

SessionUsable ==
    Quiescent /\ session # Null =>
        LET c == us[session].cookieId IN
        /\ us[session].userId \in Users
        /\ c \in Issued
        /\ c \notin expired => cache[c] = us[session].userId

(* The service implements AccountSession.tla.                              *)
Account == IF session = Null THEN Null ELSE us[session].userId
OpenCookie ==
    IF session # Null /\ \E u \in Users : Opens(session, us[session].cookieId, u)
    THEN us[session].cookieId ELSE Null
Spent == {r \in Calls : pc[r] \in {"cookie", "threw"}}

Abstract == INSTANCE AccountSession
                WITH Cookies <- Calls, account <- Account,
                     cookie <- OpenCookie, spent <- Spent

ImplementsAccountSession == Abstract!Spec
=============================================================================

------------------------ MODULE SessionService_proofs ------------------------
(***************************************************************************)
(* Proofs about SessionService.tla, for any set of calls and of users.     *)
(***************************************************************************)
EXTENDS SessionService, TLAPS

(* A pointer is that of a UserSession some call has made, and the calls    *)
(* that work on one have one.                                              *)
PtrInv ==
    /\ session # Null => pc[session] # "idle"
    /\ \A r \in Calls :
        /\ ptr[r] # Null => pc[ptr[r]] # "idle"
        /\ pc[r] \in {"check", "deauth", "refresh", "challenge"} => ptr[r] # Null
        /\ pc[r] = "idle" => us[r] = Cleared
        /\ pc[r] = "installed" =>
               arg[r] \in Users /\ us[r].userId \in {arg[r], Null}

(* A cookie id is in one UserSession at most, and it is that of a call     *)
(* that has drawn it; only an answered call's cookie is in the cache.      *)
Drawn == {"installed", "cookie", "threw"}

CookieInv ==
    /\ \A o \in Calls : us[o].cookieId # Null =>
        /\ pc[us[o].cookieId] \in Drawn
        /\ pc[us[o].cookieId] = "installed" => us[o].cookieId = o
    /\ \A o, q \in Calls :
        us[o].cookieId # Null /\ us[o].cookieId = us[q].cookieId => o = q
    /\ \A c \in Calls : cache[c] # Null \/ c \in expired => pc[c] = "cookie"

(* A challenge is in one UserSession at most, that of a call past drawing  *)
(* it, and gone once it has been consumed.                                 *)
Fresh == {"idle", "refresh", "challenge"}

ChallengeInv ==
    /\ \A o \in Calls : us[o].challenge # Null =>
        /\ pc[us[o].challenge] \notin Fresh
        /\ \A r \in Calls : verified[r] # us[o].challenge
        /\ \A q \in Calls : us[q].challenge = us[o].challenge => o = q
    /\ \A r \in Calls : verified[r] # Null => pc[verified[r]] \notin Fresh
    /\ ChallengeUsedOnce

(* A check presents a cookie that was issued, and while it opens the       *)
(* UserSession the check has fetched, that was seen.                       *)
CheckInv ==
    \A r \in Calls : pc[r] = "check" =>
        /\ cookie[r] # Null => pc[cookie[r]] = "cookie"
        /\ \A u \in Users : Opens(ptr[r], cookie[r], u) => u \in seen[r]

(* No UserSession that a later request can fetch has a revoked cookie.     *)
RevokeInv ==
    /\ \A r \in Calls : before[r] \subseteq Issued
    /\ revoked \subseteq Issued
    /\ session # Null => us[session].cookieId \notin revoked
    /\ \A r \in late :
        /\ pc[r] \in {"check", "denied"}
        /\ cookie[r] # Null
        /\ pc[r] = "check" => us[ptr[r]].cookieId # cookie[r]

(* The session's UserSession is usable, or a logout is about to erase it.  *)
Usable(o) ==
    /\ o.userId \in Users
    /\ o.cookieId # Null
    /\ \/ pc[o.cookieId] = "installed"
       \/ /\ pc[o.cookieId] = "cookie"
          /\ o.cookieId \notin expired => cache[o.cookieId] = o.userId

UsableInv ==
    session # Null =>
        \/ us[session].userId = Null /\ \E r \in Calls : pc[r] = "erase"
        \/ Usable(us[session])

IInv ==
    /\ TypeOK
    /\ PtrInv
    /\ CookieInv
    /\ ChallengeInv
    /\ CheckInv
    /\ RevokeInv
    /\ UsableInv
-----------------------------------------------------------------------------
(* Init establishes the invariant.                                         *)
LEMMA InitIInv == Init => IInv
<1> SUFFICES ASSUME Init PROVE IInv
  OBVIOUS
<1> USE ServiceAssumption DEF Init, ServiceAssumption, Cleared
<1>1. TypeOK
  BY DEF TypeOK, UserSession
<1>2. PtrInv
  BY DEF PtrInv
<1>3. CookieInv
  BY DEF CookieInv
<1>4. ChallengeInv
  BY DEF ChallengeInv, ChallengeUsedOnce
<1>5. CheckInv
  BY DEF CheckInv
<1>6. RevokeInv
  BY DEF RevokeInv
<1>7. UsableInv
  BY DEF UsableInv
<1> QED
  BY <1>1, <1>2, <1>3, <1>4, <1>5, <1>6, <1>7 DEF IInv

(* Types are preserved by every step.                                      *)
LEMMA TypeStep == IInv /\ [Next]_vars => TypeOK'
<1> SUFFICES ASSUME IInv, [Next]_vars PROVE TypeOK'
  OBVIOUS
<1> USE ServiceAssumption DEF IInv, TypeOK, PtrInv, UserSession, Cleared, Running, Outcome, Issued,
         Challenges, NextChallenge, ServiceAssumption,
         Goto, Fetch, objectVars, callVars, histVars
<1>1. ASSUME NEW r \in Calls, NEW u \in Users, NEW device \in BOOLEAN,
             Install(r, u, device), Record
      PROVE  TypeOK'
  BY <1>1 DEF Install, Record
<1>2. ASSUME NEW r \in Calls, InsertCookie(r), Record PROVE TypeOK'
  BY <1>2 DEF InsertCookie, Record
<1>3. ASSUME NEW r \in Calls, BeginCheck(r), Record PROVE TypeOK'
  BY <1>3 DEF BeginCheck, Record
<1>4. ASSUME NEW r \in Calls, Check(r), Record PROVE TypeOK'
  BY <1>4 DEF Check, Record
<1>5. ASSUME NEW r \in Calls, CheckFails(r), Record PROVE TypeOK'
  BY <1>5 DEF CheckFails, Record
<1>6. ASSUME NEW r \in Calls, BeginDeauth(r), Record PROVE TypeOK'
  BY <1>6 DEF BeginDeauth, Record
<1>7. ASSUME NEW r \in Calls, Deauth(r), Record PROVE TypeOK'
  BY <1>7 DEF Deauth, Record
<1>8. ASSUME NEW r \in Calls, EraseSession(r), Record PROVE TypeOK'
  BY <1>8 DEF EraseSession, Record
<1>9. ASSUME NEW r \in Calls, BeginRefresh(r), Record PROVE TypeOK'
  BY <1>9 DEF BeginRefresh, Record
<1>10. ASSUME NEW r \in Calls, RefreshRefused(r), Record PROVE TypeOK'
  BY <1>10 DEF RefreshRefused, Record
<1>11. ASSUME NEW r \in Calls, Rotate(r), Record PROVE TypeOK'
  <2>1. ptr[r] \in Calls
    BY <1>11 DEF Rotate
  <2>2. us' \in [Calls -> UserSession]
    <3>1. us[ptr[r]] \in UserSession
      BY <2>1
    <3>2. [us[ptr[r]] EXCEPT !.cookieId = r,
                             !.challenge = IF us[ptr[r]].bound THEN r ELSE @]
              \in UserSession
      BY <3>1
    <3> QED
      BY <1>11, <2>1, <3>2 DEF Rotate
  <2>3. pc' \in [Calls -> {"idle"} \cup Running \cup Outcome]
    BY <1>11 DEF Rotate
  <2>4. cache' \in [Calls -> Users \cup {Null}]
    BY <1>11, <2>1 DEF Rotate
  <2>5. verified' \in [Calls -> Calls \cup {Null}]
    <3>1. CASE us[ptr[r]].bound
      <4>1. arg[r] \in Calls
        BY <1>11, <2>1, <3>1 DEF Rotate, ProofHolds
      <4> QED
        BY <1>11, <3>1, <4>1 DEF Rotate
    <3>2. CASE ~us[ptr[r]].bound
      BY <1>11, <3>2 DEF Rotate
    <3> QED
      BY <3>1, <3>2
  <2> QED
    BY <1>11, <2>2, <2>3, <2>4, <2>5 DEF Rotate, Record
<1>12. ASSUME NEW r \in Calls, BeginChallenge(r), Record PROVE TypeOK'
  BY <1>12 DEF BeginChallenge, Record
<1>13. ASSUME NEW r \in Calls, Challenge(r), Record PROVE TypeOK'
  BY <1>13 DEF Challenge, Record
<1>14. ASSUME NEW r \in Calls, NoChallenge(r), Record PROVE TypeOK'
  BY <1>14 DEF NoChallenge, Record
<1>15. ASSUME NEW r \in Calls, Expire(r), Record PROVE TypeOK'
  BY <1>15 DEF Expire, Record
<1>16. ASSUME NEW r \in Calls, Evict(r), Record PROVE TypeOK'
  BY <1>16 DEF Evict, Record
<1>17. CASE UNCHANGED vars
  BY <1>17 DEF vars
<1> HIDE ServiceAssumption DEF IInv, TypeOK, PtrInv, UserSession, Cleared, Running, Outcome, Issued,
         Challenges, NextChallenge, ServiceAssumption,
         Goto, Fetch, objectVars, callVars, histVars
<1> QED
  BY <1>1, <1>2, <1>3, <1>4, <1>5, <1>6, <1>7, <1>8, <1>9, <1>10, <1>11, <1>12, <1>13, <1>14, <1>15, <1>16, <1>17 DEF Next, Step

(* Pointers are those of UserSessions that exist.                          *)
LEMMA PtrStep == IInv /\ [Next]_vars => PtrInv'
<1> SUFFICES ASSUME IInv, [Next]_vars PROVE PtrInv'
  OBVIOUS
<1> USE ServiceAssumption DEF IInv, TypeOK, PtrInv, UserSession, Cleared,
         NextChallenge, ServiceAssumption, Goto, Fetch, objectVars, callVars, histVars
<1>1. ASSUME NEW r \in Calls, NEW u \in Users, NEW device \in BOOLEAN,
             Install(r, u, device)
      PROVE  PtrInv'
  BY <1>1 DEF Install
<1>2. ASSUME NEW r \in Calls, InsertCookie(r) PROVE PtrInv'
  BY <1>2 DEF InsertCookie
<1>3. ASSUME NEW r \in Calls, BeginCheck(r) PROVE PtrInv'
  BY <1>3 DEF BeginCheck
<1>4. ASSUME NEW r \in Calls, Check(r) PROVE PtrInv'
  BY <1>4 DEF Check
<1>5. ASSUME NEW r \in Calls, CheckFails(r) PROVE PtrInv'
  BY <1>5 DEF CheckFails
<1>6. ASSUME NEW r \in Calls, BeginDeauth(r) PROVE PtrInv'
  BY <1>6 DEF BeginDeauth
<1>7. ASSUME NEW r \in Calls, Deauth(r) PROVE PtrInv'
  BY <1>7 DEF Deauth
<1>8. ASSUME NEW r \in Calls, EraseSession(r) PROVE PtrInv'
  BY <1>8 DEF EraseSession
<1>9. ASSUME NEW r \in Calls, BeginRefresh(r) PROVE PtrInv'
  BY <1>9 DEF BeginRefresh
<1>10. ASSUME NEW r \in Calls, RefreshRefused(r) PROVE PtrInv'
  <2>1. ptr[r] \in Calls /\ pc[ptr[r]] # "idle"
    BY <1>10 DEF RefreshRefused
  <2>2. \A q \in Calls : /\ us'[q].userId = us[q].userId
                         /\ q # ptr[r] => us'[q] = us[q]
    BY <1>10, <2>1 DEF RefreshRefused
  <2>3. pc'[r] # "idle" /\ pc'[r] # "installed"
        /\ pc'[r] \notin {"check", "deauth", "refresh", "challenge"}
        /\ \A q \in Calls : q # r => pc'[q] = pc[q]
    BY <1>10, <2>1 DEF RefreshRefused
  <2>4. UNCHANGED <<session, ptr, arg>>
    BY <1>10 DEF RefreshRefused
  <2>5. PtrInv /\ session \in Calls \cup {Null}
               /\ \A q \in Calls : ptr[q] \in Calls \cup {Null}
    OBVIOUS
  <2> HIDE DEF IInv, TypeOK, UserSession, Cleared, NextChallenge, Goto, Fetch
  <2> QED
    BY <2>1, <2>2, <2>3, <2>4, <2>5
<1>11. ASSUME NEW r \in Calls, Rotate(r) PROVE PtrInv'
  <2>1. ptr[r] \in Calls /\ pc[ptr[r]] # "idle"
    BY <1>11 DEF Rotate
  <2>2. \A q \in Calls : /\ us'[q].userId = us[q].userId
                         /\ q # ptr[r] => us'[q] = us[q]
    BY <1>11, <2>1 DEF Rotate
  <2>3. pc'[r] # "idle" /\ pc'[r] # "installed"
        /\ pc'[r] \notin {"check", "deauth", "refresh", "challenge"}
        /\ \A q \in Calls : q # r => pc'[q] = pc[q]
    BY <1>11, <2>1 DEF Rotate
  <2>4. UNCHANGED <<session, ptr, arg>>
    BY <1>11 DEF Rotate
  <2>5. PtrInv /\ session \in Calls \cup {Null}
               /\ \A q \in Calls : ptr[q] \in Calls \cup {Null}
    OBVIOUS
  <2> HIDE DEF IInv, TypeOK, UserSession, Cleared, NextChallenge, Goto, Fetch
  <2> QED
    BY <2>1, <2>2, <2>3, <2>4, <2>5
<1>12. ASSUME NEW r \in Calls, BeginChallenge(r) PROVE PtrInv'
  BY <1>12 DEF BeginChallenge
<1>13. ASSUME NEW r \in Calls, Challenge(r) PROVE PtrInv'
  <2>1. ptr[r] \in Calls /\ pc[ptr[r]] # "idle"
    BY <1>13 DEF Challenge
  <2>2. \A q \in Calls : /\ us'[q].userId = us[q].userId
                         /\ q # ptr[r] => us'[q] = us[q]
    BY <1>13, <2>1 DEF Challenge
  <2>3. pc'[r] # "idle" /\ pc'[r] # "installed"
        /\ pc'[r] \notin {"check", "deauth", "refresh", "challenge"}
        /\ \A q \in Calls : q # r => pc'[q] = pc[q]
    BY <1>13, <2>1 DEF Challenge
  <2>4. UNCHANGED <<session, ptr, arg>>
    BY <1>13 DEF Challenge
  <2>5. PtrInv /\ session \in Calls \cup {Null}
               /\ \A q \in Calls : ptr[q] \in Calls \cup {Null}
    OBVIOUS
  <2> HIDE DEF IInv, TypeOK, UserSession, Cleared, NextChallenge, Goto, Fetch
  <2> QED
    BY <2>1, <2>2, <2>3, <2>4, <2>5
<1>14. ASSUME NEW r \in Calls, NoChallenge(r) PROVE PtrInv'
  BY <1>14 DEF NoChallenge
<1>15. ASSUME NEW r \in Calls, Expire(r) PROVE PtrInv'
  BY <1>15 DEF Expire
<1>16. ASSUME NEW r \in Calls, Evict(r) PROVE PtrInv'
  BY <1>16 DEF Evict
<1>17. CASE UNCHANGED vars
  BY <1>17 DEF vars
<1> HIDE ServiceAssumption DEF IInv, TypeOK, PtrInv, UserSession, Cleared,
         NextChallenge, ServiceAssumption, Goto, Fetch, objectVars, callVars, histVars
<1> QED
  BY <1>1, <1>2, <1>3, <1>4, <1>5, <1>6, <1>7, <1>8, <1>9, <1>10, <1>11, <1>12, <1>13, <1>14, <1>15, <1>16, <1>17 DEF Next, Step

(* Cookie ids stay fresh and in one place.                                 *)
LEMMA CookieStep == IInv /\ [Next]_vars => CookieInv'
<1> SUFFICES ASSUME IInv, [Next]_vars PROVE CookieInv'
  OBVIOUS
<1> USE ServiceAssumption DEF IInv, TypeOK, PtrInv, CookieInv, UserSession, Cleared, Drawn,
         NextChallenge, ServiceAssumption,
         Goto, Fetch, objectVars, callVars, histVars
<1>1. ASSUME NEW r \in Calls, NEW u \in Users, NEW device \in BOOLEAN,
             Install(r, u, device)
      PROVE  CookieInv'
  BY <1>1 DEF Install
<1>2. ASSUME NEW r \in Calls, InsertCookie(r) PROVE CookieInv'
  BY <1>2 DEF InsertCookie
<1>3. ASSUME NEW r \in Calls, BeginCheck(r) PROVE CookieInv'
  BY <1>3 DEF BeginCheck
<1>4. ASSUME NEW r \in Calls, Check(r) PROVE CookieInv'
  BY <1>4 DEF Check
<1>5. ASSUME NEW r \in Calls, CheckFails(r) PROVE CookieInv'
  BY <1>5 DEF CheckFails
<1>6. ASSUME NEW r \in Calls, BeginDeauth(r) PROVE CookieInv'
  BY <1>6 DEF BeginDeauth
<1>7. ASSUME NEW r \in Calls, Deauth(r) PROVE CookieInv'
  BY <1>7 DEF Deauth
<1>8. ASSUME NEW r \in Calls, EraseSession(r) PROVE CookieInv'
  BY <1>8 DEF EraseSession
<1>9. ASSUME NEW r \in Calls, BeginRefresh(r) PROVE CookieInv'
  BY <1>9 DEF BeginRefresh
<1>10. ASSUME NEW r \in Calls, RefreshRefused(r) PROVE CookieInv'
  BY <1>10 DEF RefreshRefused
<1>11. ASSUME NEW r \in Calls, Rotate(r) PROVE CookieInv'
  BY <1>11 DEF Rotate
<1>12. ASSUME NEW r \in Calls, BeginChallenge(r) PROVE CookieInv'
  BY <1>12 DEF BeginChallenge
<1>13. ASSUME NEW r \in Calls, Challenge(r) PROVE CookieInv'
  BY <1>13 DEF Challenge
<1>14. ASSUME NEW r \in Calls, NoChallenge(r) PROVE CookieInv'
  BY <1>14 DEF NoChallenge
<1>15. ASSUME NEW r \in Calls, Expire(r) PROVE CookieInv'
  BY <1>15 DEF Expire
<1>16. ASSUME NEW r \in Calls, Evict(r) PROVE CookieInv'
  BY <1>16 DEF Evict
<1>17. CASE UNCHANGED vars
  BY <1>17 DEF vars
<1> HIDE ServiceAssumption DEF IInv, TypeOK, PtrInv, CookieInv, UserSession, Cleared, Drawn,
         NextChallenge, ServiceAssumption,
         Goto, Fetch, objectVars, callVars, histVars
<1> QED
  BY <1>1, <1>2, <1>3, <1>4, <1>5, <1>6, <1>7, <1>8, <1>9, <1>10, <1>11, <1>12, <1>13, <1>14, <1>15, <1>16, <1>17 DEF Next, Step

(* So do challenges.                                                       *)
LEMMA ChallengeStep == IInv /\ [Next]_vars => ChallengeInv'
<1> SUFFICES ASSUME IInv, [Next]_vars PROVE ChallengeInv'
  OBVIOUS
<1> USE ServiceAssumption DEF IInv, TypeOK, PtrInv, ChallengeInv, ChallengeUsedOnce, UserSession, Cleared, Fresh,
         ProofHolds, NextChallenge, ServiceAssumption,
         Goto, Fetch, objectVars, callVars, histVars
<1>1. ASSUME NEW r \in Calls, NEW u \in Users, NEW device \in BOOLEAN,
             Install(r, u, device)
      PROVE  ChallengeInv'
  BY <1>1 DEF Install
<1>2. ASSUME NEW r \in Calls, InsertCookie(r) PROVE ChallengeInv'
  BY <1>2 DEF InsertCookie
<1>3. ASSUME NEW r \in Calls, BeginCheck(r) PROVE ChallengeInv'
  BY <1>3 DEF BeginCheck
<1>4. ASSUME NEW r \in Calls, Check(r) PROVE ChallengeInv'
  BY <1>4 DEF Check
<1>5. ASSUME NEW r \in Calls, CheckFails(r) PROVE ChallengeInv'
  BY <1>5 DEF CheckFails
<1>6. ASSUME NEW r \in Calls, BeginDeauth(r) PROVE ChallengeInv'
  BY <1>6 DEF BeginDeauth
<1>7. ASSUME NEW r \in Calls, Deauth(r) PROVE ChallengeInv'
  BY <1>7 DEF Deauth
<1>8. ASSUME NEW r \in Calls, EraseSession(r) PROVE ChallengeInv'
  BY <1>8 DEF EraseSession
<1>9. ASSUME NEW r \in Calls, BeginRefresh(r) PROVE ChallengeInv'
  BY <1>9 DEF BeginRefresh
<1>10. ASSUME NEW r \in Calls, RefreshRefused(r) PROVE ChallengeInv'
  BY <1>10 DEF RefreshRefused
<1>11. ASSUME NEW r \in Calls, Rotate(r) PROVE ChallengeInv'
  BY <1>11 DEF Rotate
<1>12. ASSUME NEW r \in Calls, BeginChallenge(r) PROVE ChallengeInv'
  BY <1>12 DEF BeginChallenge
<1>13. ASSUME NEW r \in Calls, Challenge(r) PROVE ChallengeInv'
  BY <1>13 DEF Challenge
<1>14. ASSUME NEW r \in Calls, NoChallenge(r) PROVE ChallengeInv'
  BY <1>14 DEF NoChallenge
<1>15. ASSUME NEW r \in Calls, Expire(r) PROVE ChallengeInv'
  BY <1>15 DEF Expire
<1>16. ASSUME NEW r \in Calls, Evict(r) PROVE ChallengeInv'
  BY <1>16 DEF Evict
<1>17. CASE UNCHANGED vars
  BY <1>17 DEF vars
<1> HIDE ServiceAssumption DEF IInv, TypeOK, PtrInv, ChallengeInv, ChallengeUsedOnce, UserSession, Cleared, Fresh,
         ProofHolds, NextChallenge, ServiceAssumption,
         Goto, Fetch, objectVars, callVars, histVars
<1> QED
  BY <1>1, <1>2, <1>3, <1>4, <1>5, <1>6, <1>7, <1>8, <1>9, <1>10, <1>11, <1>12, <1>13, <1>14, <1>15, <1>16, <1>17 DEF Next, Step

(* Revoked cookies stay out of the session's UserSession.                  *)
LEMMA RevokeStep == IInv /\ [Next]_vars => RevokeInv'
<1> SUFFICES ASSUME IInv, [Next]_vars PROVE RevokeInv'
  OBVIOUS
<1> USE ServiceAssumption DEF IInv, TypeOK, PtrInv, CookieInv, CheckInv, RevokeInv, UserSession, Cleared,
         Opens, Issued, NextChallenge, ServiceAssumption,
         Goto, Fetch, objectVars, callVars, histVars
<1>1. ASSUME NEW r \in Calls, NEW u \in Users, NEW device \in BOOLEAN,
             Install(r, u, device)
      PROVE  RevokeInv'
  BY <1>1 DEF Install
<1>2. ASSUME NEW r \in Calls, InsertCookie(r) PROVE RevokeInv'
  BY <1>2 DEF InsertCookie
<1>3. ASSUME NEW r \in Calls, BeginCheck(r) PROVE RevokeInv'
  BY <1>3 DEF BeginCheck
<1>4. ASSUME NEW r \in Calls, Check(r) PROVE RevokeInv'
  BY <1>4 DEF Check
<1>5. ASSUME NEW r \in Calls, CheckFails(r) PROVE RevokeInv'
  BY <1>5 DEF CheckFails
<1>6. ASSUME NEW r \in Calls, BeginDeauth(r) PROVE RevokeInv'
  BY <1>6 DEF BeginDeauth
<1>7. ASSUME NEW r \in Calls, Deauth(r) PROVE RevokeInv'
  <2>1. ptr[r] \in Calls
    BY <1>7 DEF Deauth
  <2>2. \A q \in Calls : us'[q].cookieId \in {us[q].cookieId, Null}
    BY <1>7, <2>1 DEF Deauth
  <2>3. Issued' = Issued
    BY <1>7 DEF Deauth
  <2>4. \A q \in late : pc[q] = "check" => ptr[q] \in Calls /\ cookie[q] # Null
    OBVIOUS
  <2> QED
    BY <1>7, <2>1, <2>2, <2>3, <2>4 DEF Deauth
<1>8. ASSUME NEW r \in Calls, EraseSession(r) PROVE RevokeInv'
  BY <1>8 DEF EraseSession
<1>9. ASSUME NEW r \in Calls, BeginRefresh(r) PROVE RevokeInv'
  BY <1>9 DEF BeginRefresh
<1>10. ASSUME NEW r \in Calls, RefreshRefused(r) PROVE RevokeInv'
  BY <1>10 DEF RefreshRefused
<1>11. ASSUME NEW r \in Calls, Rotate(r) PROVE RevokeInv'
  BY <1>11 DEF Rotate
<1>12. ASSUME NEW r \in Calls, BeginChallenge(r) PROVE RevokeInv'
  BY <1>12 DEF BeginChallenge
<1>13. ASSUME NEW r \in Calls, Challenge(r) PROVE RevokeInv'
  BY <1>13 DEF Challenge
<1>14. ASSUME NEW r \in Calls, NoChallenge(r) PROVE RevokeInv'
  BY <1>14 DEF NoChallenge
<1>15. ASSUME NEW r \in Calls, Expire(r) PROVE RevokeInv'
  BY <1>15 DEF Expire
<1>16. ASSUME NEW r \in Calls, Evict(r) PROVE RevokeInv'
  BY <1>16 DEF Evict
<1>17. CASE UNCHANGED vars
  BY <1>17 DEF vars
<1> HIDE ServiceAssumption DEF IInv, TypeOK, PtrInv, CookieInv, CheckInv, RevokeInv, UserSession, Cleared,
         Opens, Issued, NextChallenge, ServiceAssumption,
         Goto, Fetch, objectVars, callVars, histVars
<1> QED
  BY <1>1, <1>2, <1>3, <1>4, <1>5, <1>6, <1>7, <1>8, <1>9, <1>10, <1>11, <1>12, <1>13, <1>14, <1>15, <1>16, <1>17 DEF Next, Step

(* The session stays usable, or about to be erased.                        *)
LEMMA UsableStep == IInv /\ [Next]_vars => UsableInv'
<1> SUFFICES ASSUME IInv, [Next]_vars PROVE UsableInv'
  OBVIOUS
<1> USE ServiceAssumption DEF IInv, TypeOK, PtrInv, CookieInv, UsableInv, Usable, UserSession, Cleared, Drawn,
         NextChallenge, ServiceAssumption,
         Goto, Fetch, objectVars, callVars, histVars
<1>1. ASSUME NEW r \in Calls, NEW u \in Users, NEW device \in BOOLEAN,
             Install(r, u, device)
      PROVE  UsableInv'
  BY <1>1 DEF Install
<1>2. ASSUME NEW r \in Calls, InsertCookie(r) PROVE UsableInv'
  BY <1>2 DEF InsertCookie
<1>3. ASSUME NEW r \in Calls, BeginCheck(r) PROVE UsableInv'
  BY <1>3 DEF BeginCheck
<1>4. ASSUME NEW r \in Calls, Check(r) PROVE UsableInv'
  BY <1>4 DEF Check
<1>5. ASSUME NEW r \in Calls, CheckFails(r) PROVE UsableInv'
  BY <1>5 DEF CheckFails
<1>6. ASSUME NEW r \in Calls, BeginDeauth(r) PROVE UsableInv'
  BY <1>6 DEF BeginDeauth
<1>7. ASSUME NEW r \in Calls, Deauth(r) PROVE UsableInv'
  BY <1>7 DEF Deauth
<1>8. ASSUME NEW r \in Calls, EraseSession(r) PROVE UsableInv'
  BY <1>8 DEF EraseSession
<1>9. ASSUME NEW r \in Calls, BeginRefresh(r) PROVE UsableInv'
  BY <1>9 DEF BeginRefresh
<1>10. ASSUME NEW r \in Calls, RefreshRefused(r) PROVE UsableInv'
  BY <1>10 DEF RefreshRefused
<1>11. ASSUME NEW r \in Calls, Rotate(r) PROVE UsableInv'
  BY <1>11 DEF Rotate
<1>12. ASSUME NEW r \in Calls, BeginChallenge(r) PROVE UsableInv'
  BY <1>12 DEF BeginChallenge
<1>13. ASSUME NEW r \in Calls, Challenge(r) PROVE UsableInv'
  BY <1>13 DEF Challenge
<1>14. ASSUME NEW r \in Calls, NoChallenge(r) PROVE UsableInv'
  BY <1>14 DEF NoChallenge
<1>15. ASSUME NEW r \in Calls, Expire(r) PROVE UsableInv'
  BY <1>15 DEF Expire
<1>16. ASSUME NEW r \in Calls, Evict(r) PROVE UsableInv'
  BY <1>16 DEF Evict
<1>17. CASE UNCHANGED vars
  BY <1>17 DEF vars
<1> HIDE ServiceAssumption DEF IInv, TypeOK, PtrInv, CookieInv, UsableInv, Usable, UserSession, Cleared, Drawn,
         NextChallenge, ServiceAssumption,
         Goto, Fetch, objectVars, callVars, histVars
<1> QED
  BY <1>1, <1>2, <1>3, <1>4, <1>5, <1>6, <1>7, <1>8, <1>9, <1>10, <1>11, <1>12, <1>13, <1>14, <1>15, <1>16, <1>17 DEF Next, Step

(* A call that has fetched its pointer keeps it, and its cookie.           *)
LEMMA CallStep ==
    ASSUME IInv, [Next]_vars, NEW q \in Calls, pc[q] # "idle"
    PROVE  /\ ptr'[q] = ptr[q] /\ cookie'[q] = cookie[q]
           /\ pc'[q] # "idle"
           /\ pc[q] = "cookie" => pc'[q] = "cookie"
           /\ pc[q] # "check" => pc'[q] # "check"
<1> DEFINE P == /\ ptr'[q] = ptr[q] /\ cookie'[q] = cookie[q]
                /\ pc'[q] # "idle"
                /\ pc[q] = "cookie" => pc'[q] = "cookie"
                /\ pc[q] # "check" => pc'[q] # "check"
<1> SUFFICES P
  OBVIOUS
<1> USE DEF IInv, TypeOK, Goto, Fetch, objectVars, callVars, histVars
<1>1. ASSUME NEW r \in Calls, NEW u \in Users, NEW device \in BOOLEAN,
             Install(r, u, device)
      PROVE  P
  BY <1>1 DEF Install
<1>2. ASSUME NEW r \in Calls, InsertCookie(r) PROVE P
  BY <1>2 DEF InsertCookie
<1>3. ASSUME NEW r \in Calls, BeginCheck(r) PROVE P
  BY <1>3 DEF BeginCheck
<1>4. ASSUME NEW r \in Calls, Check(r) PROVE P
  BY <1>4 DEF Check
<1>5. ASSUME NEW r \in Calls, CheckFails(r) PROVE P
  BY <1>5 DEF CheckFails
<1>6. ASSUME NEW r \in Calls, BeginDeauth(r) PROVE P
  BY <1>6 DEF BeginDeauth
<1>7. ASSUME NEW r \in Calls, Deauth(r) PROVE P
  BY <1>7 DEF Deauth
<1>8. ASSUME NEW r \in Calls, EraseSession(r) PROVE P
  BY <1>8 DEF EraseSession
<1>9. ASSUME NEW r \in Calls, BeginRefresh(r) PROVE P
  BY <1>9 DEF BeginRefresh
<1>10. ASSUME NEW r \in Calls, RefreshRefused(r) PROVE P
  BY <1>10 DEF RefreshRefused
<1>11. ASSUME NEW r \in Calls, Rotate(r) PROVE P
  BY <1>11 DEF Rotate
<1>12. ASSUME NEW r \in Calls, BeginChallenge(r) PROVE P
  BY <1>12 DEF BeginChallenge
<1>13. ASSUME NEW r \in Calls, Challenge(r) PROVE P
  BY <1>13 DEF Challenge
<1>14. ASSUME NEW r \in Calls, NoChallenge(r) PROVE P
  BY <1>14 DEF NoChallenge
<1>15. ASSUME NEW r \in Calls, Expire(r) PROVE P
  BY <1>15 DEF Expire
<1>16. ASSUME NEW r \in Calls, Evict(r) PROVE P
  BY <1>16 DEF Evict
<1>17. CASE UNCHANGED vars
  BY <1>17 DEF vars
<1> HIDE DEF P, IInv, TypeOK, Goto, Fetch, objectVars, callVars, histVars
<1> QED
  BY <1>1, <1>2, <1>3, <1>4, <1>5, <1>6, <1>7, <1>8, <1>9, <1>10, <1>11, <1>12, <1>13, <1>14, <1>15, <1>16, <1>17 DEF Next, Step

(* An issued cookie never starts to open a UserSession that exists.        *)
LEMMA OpensStays ==
    ASSUME IInv, [Next]_vars,
           NEW o \in Calls, pc[o] # "idle",
           NEW c \in Calls, pc[c] = "cookie",
           NEW u \in Users, Opens(o, c, u)'
    PROVE  Opens(o, c, u)
<1> DEFINE P == Opens(o, c, u)
<1> SUFFICES P
  OBVIOUS
<1> USE ServiceAssumption DEF IInv, TypeOK, PtrInv, UserSession, Cleared, Opens,
         NextChallenge, ServiceAssumption,
         Goto, Fetch, objectVars, callVars, histVars
<1>1. ASSUME NEW r \in Calls, NEW v \in Users, NEW device \in BOOLEAN,
             Install(r, v, device)
      PROVE  P
  BY <1>1 DEF Install
<1>2. ASSUME NEW r \in Calls, InsertCookie(r) PROVE P
  BY <1>2 DEF InsertCookie
<1>3. ASSUME NEW r \in Calls, BeginCheck(r) PROVE P
  BY <1>3 DEF BeginCheck
<1>4. ASSUME NEW r \in Calls, Check(r) PROVE P
  BY <1>4 DEF Check
<1>5. ASSUME NEW r \in Calls, CheckFails(r) PROVE P
  BY <1>5 DEF CheckFails
<1>6. ASSUME NEW r \in Calls, BeginDeauth(r) PROVE P
  BY <1>6 DEF BeginDeauth
<1>7. ASSUME NEW r \in Calls, Deauth(r) PROVE P
  BY <1>7 DEF Deauth
<1>8. ASSUME NEW r \in Calls, EraseSession(r) PROVE P
  BY <1>8 DEF EraseSession
<1>9. ASSUME NEW r \in Calls, BeginRefresh(r) PROVE P
  BY <1>9 DEF BeginRefresh
<1>10. ASSUME NEW r \in Calls, RefreshRefused(r) PROVE P
  BY <1>10 DEF RefreshRefused
<1>11. ASSUME NEW r \in Calls, Rotate(r) PROVE P
  BY <1>11 DEF Rotate
<1>12. ASSUME NEW r \in Calls, BeginChallenge(r) PROVE P
  BY <1>12 DEF BeginChallenge
<1>13. ASSUME NEW r \in Calls, Challenge(r) PROVE P
  BY <1>13 DEF Challenge
<1>14. ASSUME NEW r \in Calls, NoChallenge(r) PROVE P
  BY <1>14 DEF NoChallenge
<1>15. ASSUME NEW r \in Calls, Expire(r) PROVE P
  BY <1>15 DEF Expire
<1>16. ASSUME NEW r \in Calls, Evict(r) PROVE P
  BY <1>16 DEF Evict
<1>17. CASE UNCHANGED vars
  BY <1>17 DEF vars
<1> HIDE ServiceAssumption DEF P, IInv, TypeOK, PtrInv, UserSession, Cleared,
         Opens, NextChallenge, ServiceAssumption,
         Goto, Fetch, objectVars, callVars, histVars
<1> QED
  BY <1>1, <1>2, <1>3, <1>4, <1>5, <1>6, <1>7, <1>8, <1>9, <1>10, <1>11, <1>12, <1>13, <1>14, <1>15, <1>16, <1>17 DEF Next, Step

(* What a check sees of its cookie is recorded.                            *)
LEMMA CheckStep == IInv /\ [Next]_vars => CheckInv'
<1> SUFFICES ASSUME IInv, [Next]_vars, NEW q \in Calls, pc'[q] = "check"
             PROVE  /\ cookie'[q] # Null => pc'[cookie'[q]] = "cookie"
                    /\ \A u \in Users :
                          Opens(ptr[q], cookie[q], u)' => u \in seen'[q]
  BY DEF CheckInv
<1> USE ServiceAssumption DEF ServiceAssumption
<1>1. CASE pc[q] = "check"
  <2>1. ptr'[q] = ptr[q] /\ cookie'[q] = cookie[q]
    BY <1>1, CallStep
  <2>2. ptr[q] \in Calls /\ pc[ptr[q]] # "idle"
    BY <1>1 DEF IInv, TypeOK, PtrInv
  <2>3. cookie[q] # Null => cookie[q] \in Calls /\ pc[cookie[q]] = "cookie"
    BY <1>1 DEF IInv, TypeOK, CheckInv
  <2>4. cookie'[q] # Null => pc'[cookie'[q]] = "cookie"
    BY <2>1, <2>3, CallStep
  <2>5. seen[q] \subseteq seen'[q]
    BY DEF Next, Record, vars, IInv, TypeOK
  <2>6. ASSUME NEW u \in Users, Opens(ptr[q], cookie[q], u)'
        PROVE  u \in seen'[q]
    <3>1. cookie[q] # Null /\ Opens(ptr[q], cookie[q], u)
      <4>1. cookie[q] # Null
        BY <2>1, <2>6 DEF Opens
      <4>2. \A o, c \in Calls :
               o = ptr[q] /\ c = cookie[q] => Opens(o, c, u)'
        BY <2>1, <2>6 DEF Opens
      <4> QED
        BY <2>2, <2>3, <4>1, <4>2, OpensStays
    <3>2. u \in seen[q]
      BY <1>1, <3>1 DEF IInv, CheckInv
    <3> QED
      BY <2>5, <3>2
  <2> QED
    BY <2>4, <2>6
<1>2. CASE pc[q] = "idle"
  <2>1. BeginCheck(q) /\ Record
    <3>1. Next
      BY <1>2 DEF vars
    <3>2. PICK r \in Calls : Step(r)
      BY <3>1 DEF Next
    <3>3. r = q /\ BeginCheck(r)
      BY <1>2, <3>2 DEF Step, Install, InsertCookie, BeginCheck, Check,
         CheckFails, BeginDeauth, Deauth, EraseSession, BeginRefresh,
         RefreshRefused, Rotate, BeginChallenge, Challenge, NoChallenge,
         Expire, Evict, Goto, Fetch, IInv, TypeOK
    <3> QED
      BY <3>1, <3>3 DEF Next
  <2>2. session' = session /\ session # Null /\ ptr'[q] = session'
    BY <1>2, <2>1 DEF BeginCheck, Fetch, Goto, objectVars, IInv, TypeOK
  <2>3. PICK c \in Issued \cup {Null} : cookie' = [cookie EXCEPT ![q] = c]
    BY <2>1 DEF BeginCheck
  <2>4. cookie'[q] # Null => pc'[cookie'[q]] = "cookie"
    BY <1>2, <2>1, <2>3 DEF BeginCheck, Fetch, Goto, Issued, IInv, TypeOK
  <2>5. \A u \in Users : Opens(ptr[q], cookie[q], u)' => u \in seen'[q]
    BY <2>1, <2>2 DEF Record, Opens
  <2> QED
    BY <2>4, <2>5
<1> QED
  BY <1>1, <1>2, CallStep

LEMMA InvStep == IInv /\ [Next]_vars => IInv'
  BY TypeStep, PtrStep, CookieStep, ChallengeStep, CheckStep, RevokeStep,
     UsableStep DEF IInv

(* The invariant holds in every behaviour of the service.                  *)
THEOREM Invariance == Spec => []IInv
<1> QED
  BY InitIInv, InvStep, PTL DEF Spec

(* Every variable keeps its type.                                          *)
THEOREM TypeCorrect == Spec => []TypeOK
<1>1. IInv => TypeOK
  BY DEF IInv
<1> QED
  BY <1>1, Invariance, PTL

(* A cookie issued before a logout began is refused from the logout's      *)
(* answer on, however logins and refreshes interleave with it.             *)
THEOREM LogoutIsFinal == Spec => []LogoutRevokes
<1>1. IInv => LogoutRevokes
  BY DEF IInv, RevokeInv, LogoutRevokes
<1> QED
  BY <1>1, Invariance, PTL

(* No device challenge authorises two refreshes.                           *)
THEOREM ChallengesAreOneShot == Spec => []ChallengeUsedOnce
<1>1. IInv => ChallengeUsedOnce
  BY DEF IInv, ChallengeInv
<1> QED
  BY <1>1, Invariance, PTL

(* A session at rest that looks logged in is opened by its own cookie.     *)
THEOREM SessionStaysUsable == Spec => []SessionUsable
<1>1. IInv => SessionUsable
  <2> SUFFICES ASSUME IInv, Quiescent, session # Null
               PROVE  LET c == us[session].cookieId IN
                      /\ us[session].userId \in Users
                      /\ c \in Issued
                      /\ c \notin expired => cache[c] = us[session].userId
    BY DEF SessionUsable
  <2>1. \A r \in Calls : pc[r] # "erase" /\ pc[r] # "installed"
    BY DEF Quiescent, Running
  <2>2. us[session].cookieId \in Calls \cup {Null}
    BY DEF IInv, TypeOK, UserSession
  <2>3. Usable(us[session])
    BY <2>1 DEF IInv, UsableInv
  <2> QED
    BY <2>1, <2>2, <2>3 DEF Usable, Issued
<1> QED
  BY <1>1, Invariance, PTL

(* Nobody is let in as a user the presented cookie was not good for at     *)
(* some instant of the check.                                              *)
THEOREM AdmissionIsLinearizable == Spec => AdmissionLinearizable
<1>1. IInv /\ [Next]_vars =>
        [\A r \in Calls :
           pc[r] = "check" /\ pc'[r] = "admitted" => AdmittedAs(r) \in seen[r]]_vars
  <2> SUFFICES ASSUME IInv, Next, NEW r \in Calls,
                      pc[r] = "check", pc'[r] = "admitted"
               PROVE  AdmittedAs(r) \in seen[r]
    BY DEF vars
  <2>1. Check(r)
    BY DEF Next, Step, Install, InsertCookie, BeginCheck, Check,
       CheckFails, BeginDeauth, Deauth, EraseSession, BeginRefresh,
       RefreshRefused, Rotate, BeginChallenge, Challenge, NoChallenge,
       Expire, Evict, Goto, Fetch, IInv, TypeOK
  <2>2. PICK u \in Users : Opens(ptr[r], cookie[r], u)
    BY <2>1 DEF Check
  <2>3. u \in seen[r] /\ AdmittedAs(r) = u
    BY <2>2 DEF IInv, CheckInv, Opens, AdmittedAs
  <2> QED
    BY <2>3
<1> QED
  BY <1>1, Invariance, PTL DEF Spec, AdmissionLinearizable

(* What a step does to the abstract session, as long as it leaves alone    *)
(* the session's entry and its UserSession.                                *)
LEMMA SameSession ==
    ASSUME TypeOK, session' = session,
           session # Null => us'[session] = us[session],
           session # Null /\ us[session].cookieId # Null =>
               LET c == us[session].cookieId IN
               /\ us[session].userId # Null =>
                      (cache'[c] = us[session].userId
                          <=> cache[c] = us[session].userId)
               /\ c \in expired' <=> c \in expired
    PROVE  Account' = Account /\ OpenCookie' = OpenCookie
<1>1. Account' = Account
  BY DEF Account
<1>2. session # Null =>
        \A u \in Users : Opens(session, us[session].cookieId, u)'
                            <=> Opens(session, us[session].cookieId, u)
  BY DEF Opens
<1> QED
  BY <1>1, <1>2 DEF OpenCookie

LEMMA AbstractInit == Init => Abstract!Init
  BY DEF Init, Abstract!Init, Account, OpenCookie, Spent

LEMMA AbstractStep ==
    IInv /\ [Next]_vars => [Abstract!Next]_(Abstract!accountVars)
<1> SUFFICES ASSUME IInv, [Next]_vars
             PROVE  Abstract!Next \/ UNCHANGED Abstract!accountVars
  OBVIOUS
<1> USE ServiceAssumption DEF ServiceAssumption
<1>t. TypeOK /\ PtrInv /\ CookieInv /\ UsableInv
  BY DEF IInv
<1>s. session # Null => /\ session \in Calls
                        /\ us[session] \in UserSession
  BY <1>t DEF TypeOK
<1>c. session # Null => us[session].cookieId \in Calls \cup {Null}
                        /\ us[session].userId \in Users \cup {Null}
  BY <1>s DEF UserSession
(* The call only reads: fetches, checks, answers.                          *)
<1>1. ASSUME NEW r \in Calls,
             \/ BeginCheck(r) \/ Check(r) \/ CheckFails(r) \/ BeginDeauth(r)
             \/ BeginRefresh(r) \/ BeginChallenge(r) \/ NoChallenge(r)
      PROVE  UNCHANGED Abstract!accountVars
  <2>1. UNCHANGED objectVars
    BY <1>1 DEF BeginCheck, Check, CheckFails, BeginDeauth, BeginRefresh,
                BeginChallenge, NoChallenge, Fetch
  <2>2. Spent' = Spent
    BY <1>1, <1>t DEF BeginCheck, Check, CheckFails, BeginDeauth, BeginRefresh,
                BeginChallenge, NoChallenge, Fetch, Goto, Spent, TypeOK
  <2> QED
    BY <1>t, <2>1, <2>2, SameSession DEF objectVars, Abstract!accountVars
(* It gives the object another challenge.                                  *)
<1>2. ASSUME NEW r \in Calls, RefreshRefused(r) \/ Challenge(r)
      PROVE  UNCHANGED Abstract!accountVars
  <2>1. ptr[r] \in Calls /\ UNCHANGED <<session, cache, expired>>
    BY <1>2, <1>t DEF RefreshRefused, Challenge, Goto, TypeOK, PtrInv
  <2>2. us' = [us EXCEPT ![ptr[r]] = NextChallenge(r)]
    BY <1>2 DEF RefreshRefused, Challenge
  <2>3. Spent' = Spent
    BY <1>2, <1>t DEF RefreshRefused, Challenge, Goto, Spent, TypeOK
  <2>4. us[ptr[r]] \in UserSession
    BY <1>t, <2>1 DEF TypeOK
  <2>5. \A o \in Calls : /\ us'[o].userId = us[o].userId
                         /\ us'[o].cookieId = us[o].cookieId
    BY <1>t, <2>1, <2>2, <2>4 DEF NextChallenge, UserSession, TypeOK
  <2>6. Account' = Account
    BY <1>s, <2>1, <2>5 DEF Account
  <2>7. session # Null =>
          \A u \in Users : Opens(session, us[session].cookieId, u)'
                              <=> Opens(session, us[session].cookieId, u)
    BY <1>s, <2>1, <2>5 DEF Opens
  <2>8. OpenCookie' = OpenCookie
    BY <1>s, <2>1, <2>5, <2>7 DEF OpenCookie
  <2> QED
    BY <2>3, <2>6, <2>8 DEF Abstract!accountVars
(* A login.                                                                *)
<1>3. ASSUME NEW r \in Calls, NEW u \in Users, NEW device \in BOOLEAN,
             Install(r, u, device)
      PROVE  Abstract!LogIn(u)
  <2>1. session' = r /\ us'[r].userId = u /\ us'[r].cookieId = r
        /\ cache' = cache
    BY <1>3, <1>t DEF Install, objectVars, TypeOK
  <2>2. cache[r] = Null /\ pc[r] = "idle"
    BY <1>3, <1>t DEF Install, Goto, CookieInv
  <2>3. Spent' = Spent
    BY <1>3, <1>t DEF Install, Goto, Spent, TypeOK
  <2>4. Account' = u
    BY <2>1 DEF Account
  <2>5. OpenCookie' = Null
    BY <2>1, <2>2 DEF OpenCookie, Opens
  <2> QED
    BY <2>3, <2>4, <2>5 DEF Abstract!LogIn
(* The login's cookie goes into the cache.                                 *)
<1>4. ASSUME NEW r \in Calls, InsertCookie(r)
      PROVE  Abstract!Issue(r) \/ Abstract!Waste(r)
  <2>1. /\ UNCHANGED <<session, us, expired, arg>>
        /\ cache' = [cache EXCEPT ![r] = arg[r]]
        /\ pc[r] = "installed" /\ pc' = [pc EXCEPT ![r] = "cookie"]
    BY <1>4 DEF InsertCookie, Goto, callVars
  <2>2. r \notin Spent /\ Spent' = Spent \cup {r}
    BY <2>1, <1>t DEF Spent, TypeOK
  <2>3. r \notin expired /\ arg[r] \in Users /\ us[r].userId \in {arg[r], Null}
    BY <2>1, <1>t DEF CookieInv, PtrInv
  <2>4. Account' = Account
    BY <2>1 DEF Account
  <2>5. CASE session # Null /\ us[session].cookieId = r
    <3>1. session = r
      BY <1>s, <1>t, <2>1, <2>5 DEF CookieInv
    <3>2. CASE us[r].userId = Null
      <4>1. OpenCookie = Null /\ OpenCookie' = Null
        BY <2>1, <3>1, <3>2 DEF OpenCookie, Opens
      <4> QED
        BY <2>2, <2>4, <4>1 DEF Abstract!Waste
    <3>3. CASE us[r].userId = arg[r]
      <4>1. cache'[r] = arg[r]
        BY <2>1, <1>t DEF TypeOK
      <4>2. Opens(session, r, arg[r])'
        BY <2>1, <2>3, <2>5, <3>1, <3>3, <4>1 DEF Opens
      <4>3. OpenCookie' = r
        BY <2>1, <2>3, <2>5, <4>2 DEF OpenCookie, Opens
      <4>4. Account \in Users
        BY <2>3, <2>5, <3>1, <3>3 DEF Account
      <4> QED
        BY <2>2, <2>4, <4>3, <4>4 DEF Abstract!Issue
    <3> QED
      BY <2>3, <3>2, <3>3
  <2>6. CASE ~(session # Null /\ us[session].cookieId = r)
    <3>1. session # Null /\ us[session].cookieId # Null =>
             cache'[us[session].cookieId] = cache[us[session].cookieId]
      BY <1>c, <1>t, <2>1, <2>6 DEF TypeOK
    <3>2. OpenCookie' = OpenCookie
      BY <1>t, <2>1, <3>1, SameSession
    <3> QED
      BY <2>2, <2>4, <3>2 DEF Abstract!Waste
  <2> QED
    BY <2>5, <2>6
(* A logout clears its object; that ends the abstract session if it is     *)
(* the session's.                                                          *)
<1>5. ASSUME NEW r \in Calls, Deauth(r)
      PROVE  Abstract!LogOut \/ UNCHANGED Abstract!accountVars
  <2>1. ptr[r] \in Calls /\ UNCHANGED <<session, expired>>
        /\ us' = [us EXCEPT ![ptr[r]] = Cleared]
        /\ cache' = IF us[ptr[r]].cookieId = Null THEN cache
                    ELSE [cache EXCEPT ![us[ptr[r]].cookieId] = Null]
    BY <1>5, <1>t DEF Deauth, Goto, TypeOK, PtrInv
  <2>2. Spent' = Spent
    BY <1>5, <1>t DEF Deauth, Goto, Spent, TypeOK
  <2>3. CASE session = ptr[r]
    <3>1. us'[session] = Cleared
      BY <1>t, <2>1, <2>3 DEF TypeOK
    <3>2. Account' = Null /\ OpenCookie' = Null
      BY <2>1, <3>1 DEF Account, OpenCookie, Opens, Cleared
    <3> QED
      BY <2>2, <3>2 DEF Abstract!LogOut
  <2>4. CASE session # ptr[r]
    <3>1. session # Null => us'[session] = us[session]
      BY <1>t, <1>s, <2>1, <2>4 DEF TypeOK
    <3>2. session # Null /\ us[session].cookieId # Null =>
             cache'[us[session].cookieId] = cache[us[session].cookieId]
      <4>1. session # Null /\ us[session].cookieId # Null =>
               us[ptr[r]].cookieId # us[session].cookieId
        BY <1>t, <1>s, <2>1, <2>4 DEF CookieInv
      <4> QED
        BY <1>c, <1>t, <2>1, <4>1 DEF TypeOK
    <3>3. Account' = Account /\ OpenCookie' = OpenCookie
      BY <1>t, <2>1, <3>1, <3>2, SameSession
    <3> QED
      BY <2>2, <3>3 DEF Abstract!accountVars
  <2> QED
    BY <2>3, <2>4
<1>6. ASSUME NEW r \in Calls, EraseSession(r) PROVE Abstract!LogOut
  <2>1. session' = Null
    BY <1>6 DEF EraseSession
  <2>2. Spent' = Spent
    BY <1>6, <1>t DEF EraseSession, Goto, Spent, TypeOK
  <2> QED
    BY <2>1, <2>2 DEF Abstract!LogOut, Account, OpenCookie
(* A refresh draws a cookie: for the session, or for nobody.               *)
<1>7. ASSUME NEW r \in Calls, Rotate(r)
      PROVE  Abstract!Issue(r) \/ Abstract!Waste(r)
  <2>1. ptr[r] \in Calls /\ UNCHANGED <<session, expired>>
        /\ pc[r] = "refresh" /\ pc'[r] \in {"threw", "cookie"}
        /\ \A q \in Calls \ {r} : pc'[q] = pc[q]
    BY <1>7, <1>t DEF Rotate, Goto, TypeOK, PtrInv
  <2>2. r \notin Spent /\ Spent' = Spent \cup {r}
    BY <2>1 DEF Spent
  <2>3. us[ptr[r]] \in UserSession
    BY <1>t, <2>1 DEF TypeOK
  <2>4. /\ us'[ptr[r]].userId = us[ptr[r]].userId
        /\ us'[ptr[r]].cookieId = r
        /\ \A o \in Calls : o # ptr[r] => us'[o] = us[o]
    <3> DEFINE n == [us[ptr[r]] EXCEPT !.cookieId = r,
                        !.challenge = IF us[ptr[r]].bound THEN r ELSE @]
    <3>1. n.userId = us[ptr[r]].userId /\ n.cookieId = r
      BY <2>3 DEF UserSession
    <3>2. us' = [us EXCEPT ![ptr[r]] = n]
      BY <1>7 DEF Rotate
    <3> HIDE DEF n
    <3> QED
      BY <1>t, <2>1, <3>1, <3>2 DEF TypeOK
  <2>5. /\ cache'[r] = us[ptr[r]].userId
        /\ \A c \in Calls : c # r /\ c # us[ptr[r]].cookieId
                                => cache'[c] = cache[c]
    BY <1>7 DEF Rotate
  <2>6. r \notin expired
    BY <1>t, <2>1 DEF CookieInv
  <2>7. Account' = Account
    BY <1>s, <2>1, <2>4 DEF Account
  <2>8. CASE session = ptr[r]
    <3>1. CASE us[session].userId = Null
      <4>1. OpenCookie = Null /\ OpenCookie' = Null
        BY <2>1, <2>4, <2>8, <3>1 DEF OpenCookie, Opens
      <4> QED
        BY <2>2, <2>7, <4>1 DEF Abstract!Waste
    <3>2. CASE us[session].userId # Null
      <4>1. us[session].userId \in Users
        BY <1>c, <2>1, <2>8, <3>2
      <4>2. Opens(session, r, us[session].userId)'
        BY <2>1, <2>4, <2>5, <2>6, <2>8, <3>2 DEF Opens
      <4>3. OpenCookie' = r
        BY <2>1, <2>4, <2>8, <4>1, <4>2 DEF OpenCookie, Opens
      <4>4. Account \in Users
        BY <2>1, <2>8, <4>1 DEF Account
      <4> QED
        BY <2>2, <2>7, <4>3, <4>4 DEF Abstract!Issue
    <3> QED
      BY <3>1, <3>2
  <2>9. CASE session # ptr[r]
    <3>1. session # Null => us'[session] = us[session]
      BY <1>s, <2>4, <2>9
    <3>2. session # Null /\ us[session].cookieId # Null =>
             cache'[us[session].cookieId] = cache[us[session].cookieId]
      <4>1. session # Null /\ us[session].cookieId # Null =>
               /\ us[session].cookieId # us[ptr[r]].cookieId
               /\ us[session].cookieId # r
        BY <1>t, <1>s, <2>1, <2>9 DEF CookieInv, Drawn
      <4> QED
        BY <1>c, <2>5, <4>1
    <3>3. OpenCookie' = OpenCookie
      BY <1>t, <2>1, <3>1, <3>2, SameSession
    <3> QED
      BY <2>2, <2>7, <3>3 DEF Abstract!Waste
  <2> QED
    BY <2>8, <2>9
<1>8. ASSUME NEW c \in Calls, Expire(c)
      PROVE  Abstract!Expire \/ UNCHANGED Abstract!accountVars
  <2>1. UNCHANGED <<session, us, cache, pc>> /\ expired' = expired \cup {c}
    BY <1>8 DEF Expire
  <2>2. Spent' = Spent /\ Account' = Account
    BY <2>1 DEF Spent, Account
  <2>3. CASE session # Null /\ us[session].cookieId = c
    <3>1. OpenCookie' = Null
      BY <2>1, <2>3 DEF OpenCookie, Opens
    <3> QED
      BY <2>2, <3>1 DEF Abstract!Expire
  <2>4. CASE ~(session # Null /\ us[session].cookieId = c)
    <3>1. OpenCookie' = OpenCookie
      BY <1>t, <2>1, <2>4, SameSession
    <3> QED
      BY <2>2, <3>1 DEF Abstract!accountVars
  <2> QED
    BY <2>3, <2>4
<1>9. ASSUME NEW c \in Calls, Evict(c)
      PROVE  UNCHANGED Abstract!accountVars
  <2>1. /\ UNCHANGED <<session, us, expired, pc>> /\ c \in expired
        /\ cache' = [cache EXCEPT ![c] = Null]
    BY <1>9 DEF Evict
  <2>2. Spent' = Spent /\ Account' = Account
    BY <2>1 DEF Spent, Account
  <2>3. session # Null =>
          \A u \in Users : Opens(session, us[session].cookieId, u)'
                              <=> Opens(session, us[session].cookieId, u)
    BY <1>c, <1>t, <2>1 DEF Opens, TypeOK
  <2>4. OpenCookie' = OpenCookie
    BY <2>1, <2>3 DEF OpenCookie
  <2> QED
    BY <2>2, <2>4 DEF Abstract!accountVars
<1>10. CASE UNCHANGED vars
  BY <1>10, <1>t, SameSession DEF vars, Spent, Abstract!accountVars
<1> QED
  BY <1>1, <1>2, <1>3, <1>4, <1>5, <1>6, <1>7, <1>8, <1>9, <1>10
     DEF Next, Step, Abstract!Next

(* The service implements AccountSession: the steps of its operations are  *)
(* logins, logouts, cookies issued, wasted or expired, or nothing.         *)
THEOREM Refinement == Spec => ImplementsAccountSession
<1>1. Init => Abstract!Init
  BY AbstractInit
<1>2. IInv /\ [Next]_vars => [Abstract!Next]_(Abstract!accountVars)
  BY AbstractStep
<1> QED
  BY <1>1, <1>2, Invariance, PTL
     DEF Spec, ImplementsAccountSession, Abstract!Spec
=============================================================================

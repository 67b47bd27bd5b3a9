------------------------ MODULE AuthController_proofs ------------------------
(***************************************************************************)
(* Proofs about AuthController.tla, for any set of requests and of users.  *)
(***************************************************************************)
EXTENDS AuthController, TLAPS

(* A finish past its lookup has a context.                                 *)
HasTaken == {"registrationFetched", "registrationTaken", "opaqueRegister",
             "registerInvalid", "insert", "registered",
             "loginFetched", "loginTaken", "opaqueLogin", "accountKey",
             "loggedIn"}

TookInv == \A r \in Requests : pc[r] \in HasTaken => took[r] \in Requests

(* A context's OPAQUE step: it is at a start's end only once the start has *)
(* answered, and no more once a finish is out of the OPAQUE call.  A login *)
(* that passed the step's test is that of a login's context; two of one    *)
(* context were in the call together.                                      *)
LoginPassed == {"opaqueLogin", "accountKey", "loggedIn"}

OnceInv ==
    /\ \A c \in Requests :
        /\ step[c] = "loginStarted" => pc[c] = "loginStarted"
        /\ step[c] = "registrationStarted" => pc[c] = "registerStarted"
    /\ \A r \in Requests : pc[r] \in LoginPassed => pc[took[r]] = "loginStarted"
    /\ \A r \in Requests : pc[r] \in {"accountKey", "loggedIn"} =>
        step[took[r]] # "loginStarted"
    /\ \A r, q \in Requests :
        pc[r] \in LoginPassed /\ pc[q] \in LoginPassed /\ took[r] = took[q]
        /\ r # q => r \in raced

(* Who was in the OPAQUE call beside another one overlapped with it.       *)
RaceInv == raced \subseteq overlapped

(* The registration cache holds contexts of registrations, whose user is a *)
(* name that does not change any more.                                     *)
Registers(c) ==
    /\ pc[c] \in {"registerContext", "registerStarted", "refused"}
    /\ user[c] \in Users

RegInv ==
    /\ \A r \in Requests :
        pc[r] \in {"startRegister", "registering"} => user[r] \in Users
    /\ regCache # Null => Registers(regCache)
    /\ \A r \in Requests :
        pc[r] \in {"registrationFetched", "registrationTaken",
                   "opaqueRegister", "registerInvalid", "insert",
                   "registered"} => Registers(took[r])
    /\ RegisteredOwnsAccount
    /\ \A r, q \in Requests :
        pc[r] = "registered" /\ pc[q] = "registered" /\ took[r] = took[q]
            => r = q

(* A request that overlapped with none runs alone, and is the last let in; *)
(* nobody came after it yet.                                               *)
OverlapInv ==
    /\ \A s \in Requests : IsRunning(s) /\ s \notin overlapped => last = s
    /\ last \notin overlapped => \A q \in Requests : IsRunning(q) => q = last
    /\ \A r \in Requests : prev[r] # Null => prev[r] # last
    /\ \A q \in Requests : pc[q] = "idle" =>
        last # q /\ \A r \in Requests : prev[r] # q

(* Along a flow by the book the cache holds the flow's context.            *)
BookInv ==
    \A s \in Requests \ (overlapped \cup timedOut) :
        /\ pc[s] = "registerContext" => regCache = s
        /\ pc[s] = "loginContext" => loginCache = s
        /\ last = s /\ pc[s] = "registerStarted" => regCache = s
        /\ last = s /\ pc[s] = "loginStarted" => loginCache = s
        /\ \A r \in Requests \ overlapped :
            msg[r] = s /\ prev[r] = s =>
                /\ pc[s] = "registerStarted" =>
                    /\ pc[r] = "finishRegister" => regCache = s
                    /\ pc[r] # "registerRefused"
                /\ pc[s] = "loginStarted" =>
                    /\ pc[r] = "finishLogin" => loginCache = s
                    /\ pc[r] \in {"loginFetched", "loginTaken", "opaqueLogin"}
                          => took[r] = s
                    /\ pc[r] # "loginRefused"

(* A login flow a logout found is out of reach once the logout has emptied *)
(* the cache, but for requests that overlapped with another.               *)
Gone(s) ==
    /\ pc[s] = "loginStarted"
    /\ loginCache # s
    /\ \A r \in Requests :
        /\ pc[r] \in {"loginFetched", "loginTaken", "opaqueLogin", "accountKey"}
        /\ took[r] = s
        => r \in overlapped

LogoutInv ==
    /\ \A r \in Requests : \A s \in before[r] \ overlapped :
        /\ pc[s] = "loginStarted"
        /\ pc[r] \in {"logoutSession", "loggedOut"} => Gone(s)
    /\ \A s \in ended \ overlapped : Gone(s)

IInv ==
    /\ TypeOK
    /\ TookInv
    /\ OnceInv
    /\ RegInv
    /\ OverlapInv
    /\ RaceInv
    /\ BookInv
    /\ LogoutInv
-----------------------------------------------------------------------------
(* Init establishes the invariant.                                         *)
LEMMA InitIInv == Init => IInv
<1> SUFFICES ASSUME Init PROVE IInv
  OBVIOUS
<1> USE AuthAssumption DEF Init, AuthAssumption, Running, StartLoginPC
<1>1. TypeOK
  BY DEF TypeOK, Steps
<1>2. TookInv
  BY DEF TookInv, HasTaken
<1>3. OnceInv
  BY DEF OnceInv, LoginPassed
<1>4. RegInv
  BY DEF RegInv, RegisteredOwnsAccount
<1>5. OverlapInv
  BY DEF OverlapInv, IsRunning
<1>6. RaceInv
  BY DEF RaceInv
<1>7. BookInv
  BY DEF BookInv
<1>8. LogoutInv
  BY DEF LogoutInv
<1> QED
  BY <1>1, <1>2, <1>3, <1>4, <1>5, <1>6, <1>7, <1>8 DEF IInv

(* A step of a handler is a step of one running request: no other request  *)
(* moves, nobody is let in, and what was sent stays as it was.             *)
LEMMA HandlerStep ==
    ASSUME TypeOK, NEW r \in Requests, Handler(r)
    PROVE  /\ IsRunning(r)
           /\ pc'[r] \in Running \cup Answers
           /\ \A q \in Requests : q # r =>
                 pc'[q] = pc[q] /\ user'[q] = user[q] /\ took'[q] = took[q]
           /\ UNCHANGED <<msg, admitHist, timedOut, before>>
<1> USE DEF TypeOK, Goto, EnterOpaque, IsRunning, Running, StartLoginPC, Answers, reqVars,
            lockHist, admitHist, logoutHist
<1>1. CASE RemoveRegistration(r) \/ RegistrationInvalid(r)
           \/ CreateRegistration(r) \/ StartRegistration(r)
  BY <1>1 DEF RemoveRegistration, RegistrationInvalid, CreateRegistration,
              StartRegistration
<1>2. CASE FetchRegistration(r) \/ EraseRegistration(r)
           \/ FinishRegistration(r) \/ RegisterInvalid(r)
           \/ OpaqueRegister(r) \/ InsertUser(r)
  BY <1>2 DEF FetchRegistration, EraseRegistration, FinishRegistration,
                RegisterInvalid, OpaqueRegister, InsertUser
<1>3. CASE RemoveLogin(r) \/ ReadCredentials(r) \/ CredentialsFail(r)
           \/ CreateLogin(r) \/ StartLogin(r)
  BY <1>3 DEF RemoveLogin, ReadCredentials, CredentialsFail, CreateLogin, StartLogin
<1>4. CASE FetchLogin(r) \/ EraseLogin(r) \/ LoginRejected(r)
           \/ FinishLogin(r) \/ OpaqueLogin(r)
           \/ AccountKeyFails(r) \/ Authenticate(r)
  BY <1>4 DEF FetchLogin, EraseLogin, LoginRejected, FinishLogin,
                OpaqueLogin, AccountKeyFails, Authenticate
<1>5. CASE LogoutRegistration(r) \/ LogoutLogin(r) \/ Deauthenticate(r)
  BY <1>5 DEF LogoutRegistration, LogoutLogin, Deauthenticate
<1> QED
  BY <1>1, <1>2, <1>3, <1>4, <1>5 DEF Handler

(* What letting a request in does.                                         *)
LEMMA AdmitStep ==
    ASSUME TypeOK, NEW r \in Requests,
           AdmitStart(r) \/ AdmitFinish(r) \/ AdmitLogout(r)
    PROVE  /\ pc[r] = "idle"
           /\ pc'[r] \in {"startRegister", "startLogin", "finishRegister",
                          "finishLogin", "logout"}
           /\ \A q \in Requests : q # r =>
                 pc'[q] = pc[q] /\ user'[q] = user[q] /\ msg'[q] = msg[q]
                 /\ prev'[q] = prev[q] /\ before'[q] = before[q]
           /\ last' = r /\ prev'[r] = last
           /\ overlapped \subseteq overlapped'
           /\ \/ overlapped' = overlapped /\ \A q \in Requests : ~IsRunning(q)
              \/ /\ r \in overlapped'
                 /\ \A q \in Requests : IsRunning(q) => q \in overlapped'
           /\ UNCHANGED <<accounts, account, regCache, loginCache, step, took,
                          raced, timedOut, ended>>
  BY DEF TypeOK, AdmitStart, AdmitFinish, AdmitLogout, Admit, dbVars, flowVars

LEMMA TypeStep == TypeOK /\ TookInv /\ [Next]_vars => TypeOK'
<1> SUFFICES ASSUME TypeOK, TookInv, [Next]_vars PROVE TypeOK'
  OBVIOUS
<1> USE AuthAssumption DEF TypeOK, Goto, EnterOpaque, SetStep, Running, StartLoginPC, Answers,
        Steps, dbVars, flowVars, reqVars, lockHist, admitHist, logoutHist
<1>1. ASSUME NEW r \in Requests, AdmitStart(r) \/ AdmitFinish(r) \/ AdmitLogout(r)
      PROVE  TypeOK'
  BY <1>1 DEF AdmitStart, AdmitFinish, AdmitLogout, Admit
<1>2. ASSUME NEW r \in Requests, Handler(r) PROVE TypeOK'
  <2>1. CASE RemoveRegistration(r) \/ RegistrationInvalid(r)
             \/ CreateRegistration(r) \/ StartRegistration(r)
    BY <2>1 DEF RemoveRegistration, RegistrationInvalid, CreateRegistration,
                StartRegistration
  <2>2. CASE FetchRegistration(r) \/ EraseRegistration(r)
             \/ FinishRegistration(r) \/ RegisterInvalid(r)
             \/ OpaqueRegister(r) \/ InsertUser(r)
    BY <2>2 DEF FetchRegistration, EraseRegistration, FinishRegistration,
                RegisterInvalid, OpaqueRegister, InsertUser
  <2>3. CASE RemoveLogin(r) \/ ReadCredentials(r) \/ CredentialsFail(r)
             \/ CreateLogin(r) \/ StartLogin(r)
    BY <2>3 DEF RemoveLogin, ReadCredentials, CredentialsFail, CreateLogin,
                StartLogin
  <2>4. CASE FetchLogin(r) \/ EraseLogin(r) \/ LoginRejected(r)
             \/ FinishLogin(r) \/ OpaqueLogin(r) \/ AccountKeyFails(r)
    BY <2>4 DEF FetchLogin, EraseLogin, LoginRejected, FinishLogin,
                OpaqueLogin, AccountKeyFails
  <2>5. CASE Authenticate(r)
    BY <2>5 DEF Authenticate, TookInv, HasTaken
  <2>6. CASE LogoutRegistration(r) \/ LogoutLogin(r) \/ Deauthenticate(r)
    BY <2>6 DEF LogoutRegistration, LogoutLogin, Deauthenticate
  <2> QED
    BY <1>2, <2>1, <2>2, <2>3, <2>4, <2>5, <2>6 DEF Handler
<1>3. CASE ContextTimeout
  BY <1>3 DEF ContextTimeout
<1>4. ASSUME NEW u \in Users, RegisterElsewhere(u) PROVE TypeOK'
  BY <1>4 DEF RegisterElsewhere
<1>5. CASE UNCHANGED vars
  BY <1>5 DEF vars
<1> QED
  BY <1>1, <1>2, <1>3, <1>4, <1>5 DEF Next

LEMMA OverlapStep == TypeOK /\ OverlapInv /\ [Next]_vars => OverlapInv'
<1> SUFFICES ASSUME TypeOK, OverlapInv, [Next]_vars PROVE OverlapInv'
  OBVIOUS
<1> USE AuthAssumption DEF TypeOK, OverlapInv, IsRunning, lockHist, admitHist
<1>1. ASSUME NEW r \in Requests, AdmitStart(r) \/ AdmitFinish(r) \/ AdmitLogout(r)
      PROVE  OverlapInv'
  BY <1>1, AdmitStep DEF Running
<1>2. ASSUME NEW r \in Requests, Handler(r) PROVE OverlapInv'
  BY <1>2, HandlerStep DEF Running, StartLoginPC, Answers
<1>3. CASE ContextTimeout
  BY <1>3 DEF ContextTimeout
<1>4. ASSUME NEW u \in Users, RegisterElsewhere(u) PROVE OverlapInv'
  BY <1>4 DEF RegisterElsewhere
<1>5. CASE UNCHANGED vars
  BY <1>5 DEF vars
<1> QED
  BY <1>1, <1>2, <1>3, <1>4, <1>5 DEF Next

LEMMA TookStep == TypeOK /\ TookInv /\ [Next]_vars => TookInv'
<1> SUFFICES ASSUME TypeOK, TookInv, [Next]_vars PROVE TookInv'
  OBVIOUS
<1> USE AuthAssumption DEF TypeOK, TookInv, HasTaken
<1>1. ASSUME NEW r \in Requests, AdmitStart(r) \/ AdmitFinish(r) \/ AdmitLogout(r)
      PROVE  TookInv'
  BY <1>1, AdmitStep
<1>2. ASSUME NEW r \in Requests, Handler(r) PROVE TookInv'
  <2> USE DEF Goto, EnterOpaque, reqVars
  <2>1. CASE RemoveRegistration(r) \/ RegistrationInvalid(r)
             \/ CreateRegistration(r) \/ StartRegistration(r)
    BY <2>1 DEF RemoveRegistration, RegistrationInvalid, CreateRegistration,
                StartRegistration
  <2>2. CASE FetchRegistration(r) \/ EraseRegistration(r)
             \/ FinishRegistration(r) \/ RegisterInvalid(r)
             \/ OpaqueRegister(r) \/ InsertUser(r)
    BY <2>2 DEF FetchRegistration, EraseRegistration, FinishRegistration,
                RegisterInvalid, OpaqueRegister, InsertUser
  <2>3. CASE RemoveLogin(r) \/ ReadCredentials(r) \/ CredentialsFail(r)
             \/ CreateLogin(r) \/ StartLogin(r)
    BY <2>3 DEF RemoveLogin, ReadCredentials, CredentialsFail, CreateLogin,
                StartLogin
  <2>4. CASE FetchLogin(r) \/ EraseLogin(r) \/ LoginRejected(r)
             \/ FinishLogin(r) \/ OpaqueLogin(r) \/ AccountKeyFails(r)
             \/ Authenticate(r)
    BY <2>4 DEF FetchLogin, EraseLogin, LoginRejected, FinishLogin,
                OpaqueLogin, AccountKeyFails, Authenticate
  <2>5. CASE LogoutRegistration(r) \/ LogoutLogin(r) \/ Deauthenticate(r)
    BY <2>5 DEF LogoutRegistration, LogoutLogin, Deauthenticate
  <2> QED
    BY <1>2, <2>1, <2>2, <2>3, <2>4, <2>5 DEF Handler
<1>3. CASE ContextTimeout
  BY <1>3 DEF ContextTimeout, reqVars
<1>4. ASSUME NEW u \in Users, RegisterElsewhere(u) PROVE TookInv'
  BY <1>4 DEF RegisterElsewhere, reqVars
<1>5. CASE UNCHANGED vars
  BY <1>5 DEF vars
<1> QED
  BY <1>1, <1>2, <1>3, <1>4, <1>5 DEF Next

(* OPAQUE lets a finish pass only from the step its start has left, and    *)
(* moves the step on.                                                      *)
LEMMA OnceStep == TypeOK /\ TookInv /\ OnceInv /\ [Next]_vars => OnceInv'
<1> SUFFICES ASSUME TypeOK, TookInv, OnceInv, [Next]_vars PROVE OnceInv'
  OBVIOUS
<1> USE AuthAssumption DEF TypeOK, TookInv, HasTaken, OnceInv, LoginPassed,
        lockHist, admitHist
<1>1. ASSUME NEW r \in Requests, AdmitStart(r) \/ AdmitFinish(r) \/ AdmitLogout(r)
      PROVE  OnceInv'
  BY <1>1, AdmitStep
<1>2. ASSUME NEW r \in Requests, Handler(r) PROVE OnceInv'
  <2> USE DEF Goto, EnterOpaque, SetStep, reqVars, flowVars
  <2>1. CASE RemoveRegistration(r) \/ RegistrationInvalid(r)
             \/ CreateRegistration(r) \/ StartRegistration(r)
    BY <2>1 DEF RemoveRegistration, RegistrationInvalid, CreateRegistration,
                StartRegistration
  <2>2. CASE FetchRegistration(r) \/ EraseRegistration(r)
    BY <2>2 DEF FetchRegistration, EraseRegistration
  <2>3. CASE FinishRegistration(r) \/ RegisterInvalid(r) \/ OpaqueRegister(r)
    BY <2>3 DEF FinishRegistration, RegisterInvalid, OpaqueRegister
  <2>4. CASE InsertUser(r)
    BY <2>4 DEF InsertUser
  <2>5. CASE RemoveLogin(r) \/ ReadCredentials(r) \/ CredentialsFail(r)
             \/ CreateLogin(r) \/ StartLogin(r)
    BY <2>5 DEF RemoveLogin, ReadCredentials, CredentialsFail, CreateLogin,
                StartLogin
  <2>6. CASE FetchLogin(r) \/ EraseLogin(r) \/ LoginRejected(r)
    BY <2>6 DEF FetchLogin, EraseLogin, LoginRejected
  <2>7. CASE FinishLogin(r) \/ OpaqueLogin(r)
    BY <2>7 DEF FinishLogin, OpaqueLogin
  <2>8. CASE AccountKeyFails(r) \/ Authenticate(r)
    BY <2>8 DEF AccountKeyFails, Authenticate
  <2>9. CASE LogoutRegistration(r) \/ LogoutLogin(r) \/ Deauthenticate(r)
    BY <2>9 DEF LogoutRegistration, LogoutLogin, Deauthenticate
  <2> QED
    BY <1>2, <2>1, <2>2, <2>3, <2>4, <2>5, <2>6, <2>7, <2>8, <2>9 DEF Handler
<1>3. CASE ContextTimeout
  BY <1>3 DEF ContextTimeout, reqVars
<1>4. ASSUME NEW u \in Users, RegisterElsewhere(u) PROVE OnceInv'
  BY <1>4 DEF RegisterElsewhere, reqVars, flowVars
<1>5. CASE UNCHANGED vars
  BY <1>5 DEF vars
<1> QED
  BY <1>1, <1>2, <1>3, <1>4, <1>5 DEF Next

(* A context's user is settled before it is cached, and a row stays once   *)
(* it is in.                                                               *)
LEMMA RegStep == TypeOK /\ TookInv /\ RegInv /\ [Next]_vars => RegInv'
<1> SUFFICES ASSUME TypeOK, TookInv, RegInv, [Next]_vars PROVE RegInv'
  OBVIOUS
<1> USE AuthAssumption DEF TypeOK, TookInv, HasTaken, RegInv, Registers,
        RegisteredOwnsAccount
<1>1. ASSUME NEW r \in Requests, AdmitStart(r) \/ AdmitFinish(r) \/ AdmitLogout(r)
      PROVE  RegInv'
  <2>1. pc'[r] = "startRegister" => user'[r] \in Users
    BY <1>1 DEF AdmitStart, AdmitFinish, AdmitLogout, Admit
  <2> QED
    BY <1>1, <2>1, AdmitStep
<1>2. ASSUME NEW r \in Requests, Handler(r) PROVE RegInv'
  <2> USE DEF Goto, EnterOpaque, SetStep, reqVars, flowVars, dbVars
  <2>1. CASE RemoveRegistration(r) \/ RegistrationInvalid(r)
             \/ CreateRegistration(r) \/ StartRegistration(r)
    BY <2>1 DEF RemoveRegistration, RegistrationInvalid, CreateRegistration,
                StartRegistration
  <2>2. CASE FetchRegistration(r) \/ EraseRegistration(r)
             \/ FinishRegistration(r) \/ RegisterInvalid(r)
             \/ OpaqueRegister(r)
    BY <2>2 DEF FetchRegistration, EraseRegistration, FinishRegistration,
                RegisterInvalid, OpaqueRegister
  <2>3. CASE InsertUser(r)
    BY <2>3 DEF InsertUser
  <2>4. CASE RemoveLogin(r) \/ CredentialsFail(r) \/ CreateLogin(r)
             \/ StartLogin(r)
    BY <2>4 DEF RemoveLogin, CredentialsFail, CreateLogin, StartLogin
  <2>5. CASE ReadCredentials(r)
    BY <2>5 DEF ReadCredentials
  <2>6. CASE FetchLogin(r) \/ EraseLogin(r) \/ LoginRejected(r)
             \/ FinishLogin(r) \/ OpaqueLogin(r) \/ AccountKeyFails(r)
             \/ Authenticate(r)
    BY <2>6 DEF FetchLogin, EraseLogin, LoginRejected, FinishLogin,
                OpaqueLogin, AccountKeyFails, Authenticate
  <2>7. CASE LogoutRegistration(r) \/ LogoutLogin(r) \/ Deauthenticate(r)
    BY <2>7 DEF LogoutRegistration, LogoutLogin, Deauthenticate
  <2> QED
    BY <1>2, <2>1, <2>2, <2>3, <2>4, <2>5, <2>6, <2>7 DEF Handler
<1>3. CASE ContextTimeout
  BY <1>3 DEF ContextTimeout, reqVars, dbVars
<1>4. ASSUME NEW u \in Users, RegisterElsewhere(u) PROVE RegInv'
  BY <1>4 DEF RegisterElsewhere, reqVars, flowVars
<1>5. CASE UNCHANGED vars
  BY <1>5 DEF vars
<1> QED
  BY <1>1, <1>2, <1>3, <1>4, <1>5 DEF Next

(* Who runs without having overlapped with anyone runs alone.              *)
LEMMA Alone ==
    ASSUME TypeOK, OverlapInv,
           NEW q \in Requests, IsRunning(q),
           NEW s \in Requests, IsRunning(s), s \notin overlapped
    PROVE  q = s /\ last = s
  BY DEF OverlapInv

(* And a start that is the last let in has nobody running after it.        *)
LEMMA Quiet ==
    ASSUME TypeOK, OverlapInv,
           NEW q \in Requests, IsRunning(q),
           NEW s \in Requests, ~IsRunning(s), s \notin overlapped
    PROVE  last # s
  BY DEF OverlapInv

(* Only a finish that enters the OPAQUE call beside another races.         *)
LEMMA RaceStep ==
    TypeOK /\ OverlapInv /\ RaceInv /\ [Next]_vars => RaceInv'
<1> SUFFICES ASSUME TypeOK, OverlapInv, RaceInv, [Next]_vars PROVE RaceInv'
  OBVIOUS
<1> USE DEF RaceInv, lockHist, admitHist
<1>1. ASSUME NEW r \in Requests, AdmitStart(r) \/ AdmitFinish(r) \/ AdmitLogout(r)
      PROVE  RaceInv'
  BY <1>1, AdmitStep
<1>2. ASSUME NEW r \in Requests, Handler(r) PROVE RaceInv'
  <2>1. ASSUME NEW from \in Running, NEW call \in Running,
               EnterOpaque(r, from, call)
        PROVE  raced' \subseteq overlapped
    <3>1. IsRunning(r)
      BY <2>1 DEF EnterOpaque, Goto, IsRunning
    <3>2. \A q \in Requests \ {r} : pc[q] = call => {q, r} \subseteq overlapped
      BY <2>1, <3>1, Alone DEF IsRunning
    <3> QED
      BY <2>1, <3>2 DEF EnterOpaque
  <2>2. overlapped' = overlapped
    BY <1>2, HandlerStep
  <2>3. CASE FinishRegistration(r) \/ FinishLogin(r)
    BY <2>1, <2>2, <2>3 DEF FinishRegistration, FinishLogin, Running, StartLoginPC
  <2>4. CASE raced' = raced
    BY <2>2, <2>4
  <2>5. FinishRegistration(r) \/ FinishLogin(r) \/ raced' = raced
    BY <1>2 DEF Handler, RemoveRegistration, RegistrationInvalid,
                CreateRegistration, StartRegistration, FetchRegistration,
                EraseRegistration, RegisterInvalid, OpaqueRegister, InsertUser,
                RemoveLogin, ReadCredentials, CredentialsFail, CreateLogin,
                StartLogin, FetchLogin, EraseLogin, LoginRejected, OpaqueLogin,
                AccountKeyFails, Authenticate, LogoutRegistration, LogoutLogin,
                Deauthenticate
  <2> QED
    BY <2>3, <2>4, <2>5
<1>3. CASE ContextTimeout
  BY <1>3 DEF ContextTimeout
<1>4. ASSUME NEW u \in Users, RegisterElsewhere(u) PROVE RaceInv'
  BY <1>4 DEF RegisterElsewhere
<1>5. CASE UNCHANGED vars
  BY <1>5 DEF vars
<1> QED
  BY <1>1, <1>2, <1>3, <1>4, <1>5 DEF Next

LEMMA BookStep ==
    TypeOK /\ OverlapInv /\ RaceInv /\ BookInv /\ [Next]_vars => BookInv'
<1> SUFFICES ASSUME TypeOK, OverlapInv, RaceInv, BookInv, [Next]_vars
             PROVE  BookInv'
  OBVIOUS
<1> USE AuthAssumption DEF TypeOK, BookInv
<1>1. ASSUME NEW r \in Requests, AdmitStart(r) \/ AdmitFinish(r) \/ AdmitLogout(r)
      PROVE  BookInv'
  <2>1. msg' = [msg EXCEPT ![r] = msg'[r]]
    BY <1>1 DEF AdmitStart, AdmitFinish, AdmitLogout
  <2> QED
    BY <1>1, <2>1, AdmitStep DEF OverlapInv, IsRunning, Running, StartLoginPC
<1>2. ASSUME NEW q \in Requests, Handler(q) PROVE BookInv'
  <2> SUFFICES ASSUME NEW s \in Requests \ (overlapped \cup timedOut),
                      NEW r \in Requests \ overlapped
               PROVE  /\ pc'[s] = "registerContext" => regCache' = s
                      /\ pc'[s] = "loginContext" => loginCache' = s
                      /\ last = s /\ pc'[s] = "registerStarted" => regCache' = s
                      /\ last = s /\ pc'[s] = "loginStarted" => loginCache' = s
                      /\ msg[r] = s /\ prev[r] = s =>
                          /\ pc'[s] = "registerStarted" =>
                              /\ pc'[r] = "finishRegister" => regCache' = s
                              /\ pc'[r] # "registerRefused"
                          /\ pc'[s] = "loginStarted" =>
                              /\ pc'[r] = "finishLogin" => loginCache' = s
                              /\ pc'[r] \in {"loginFetched", "loginTaken", "opaqueLogin"}
                                    => took'[r] = s
                              /\ pc'[r] # "loginRefused"
    BY <1>2, HandlerStep DEF lockHist, admitHist
  <2>1. IsRunning(q) /\ \A p \in Requests : p # q => pc'[p] = pc[p] /\ took'[p] = took[p]
    BY <1>2, HandlerStep
  <2>2. CASE q # s /\ q # r
    BY <1>2, <2>1, <2>2, Alone, Quiet DEF IsRunning, Running, StartLoginPC
  <2>3. CASE q = s
    <3>1. last = s /\ prev[r] # s
      BY <2>1, <2>3, Alone DEF OverlapInv
    <3> SUFFICES /\ pc'[s] \in {"registerContext", "registerStarted"}
                        => regCache' = s
                 /\ pc'[s] \in {"loginContext", "loginStarted"}
                        => loginCache' = s
      BY <3>1
    <3> USE DEF Goto, EnterOpaque, flowVars
    <3>2. CASE RemoveRegistration(s) \/ RegistrationInvalid(s)
               \/ CreateRegistration(s) \/ StartRegistration(s)
      BY <3>2 DEF RemoveRegistration, RegistrationInvalid, CreateRegistration,
                  StartRegistration
    <3>3. CASE FetchRegistration(s) \/ EraseRegistration(s)
               \/ FinishRegistration(s) \/ RegisterInvalid(s)
               \/ OpaqueRegister(s) \/ InsertUser(s)
      BY <3>3 DEF FetchRegistration, EraseRegistration, FinishRegistration,
                RegisterInvalid, OpaqueRegister, InsertUser
    <3>4. CASE RemoveLogin(s) \/ ReadCredentials(s) \/ CredentialsFail(s)
               \/ CreateLogin(s) \/ StartLogin(s)
      BY <3>4 DEF RemoveLogin, ReadCredentials, CredentialsFail, CreateLogin,
                  StartLogin
    <3>5. CASE FetchLogin(s) \/ EraseLogin(s) \/ LoginRejected(s)
               \/ FinishLogin(s) \/ OpaqueLogin(s) \/ AccountKeyFails(s)
               \/ Authenticate(s)
      BY <3>5 DEF FetchLogin, EraseLogin, LoginRejected, FinishLogin,
                OpaqueLogin, AccountKeyFails, Authenticate
    <3>6. CASE LogoutRegistration(s) \/ LogoutLogin(s) \/ Deauthenticate(s)
      BY <3>6 DEF LogoutRegistration, LogoutLogin, Deauthenticate
    <3> QED
      BY <1>2, <2>3, <3>2, <3>3, <3>4, <3>5, <3>6 DEF Handler
  <2>4. CASE q = r /\ q # s
    <3>1. last = r /\ ~IsRunning(s) /\ pc'[s] = pc[s]
      BY <2>1, <2>4, Alone
    <3> SUFFICES ASSUME msg[r] = s, prev[r] = s
                 PROVE  /\ pc[s] = "registerStarted" =>
                            /\ pc'[r] = "finishRegister" => regCache' = s
                            /\ pc'[r] # "registerRefused"
                        /\ pc[s] = "loginStarted" =>
                            /\ pc'[r] = "finishLogin" => loginCache' = s
                            /\ pc'[r] \in {"loginFetched", "loginTaken", "opaqueLogin"}
                                  => took'[r] = s
                            /\ pc'[r] # "loginRefused"
      BY <2>4, <3>1 DEF IsRunning, Running, StartLoginPC
    <3>8. r \notin raced
      BY DEF RaceInv
    <3> USE DEF Goto, EnterOpaque, flowVars
    <3>2. CASE RemoveRegistration(r) \/ RegistrationInvalid(r)
               \/ CreateRegistration(r) \/ StartRegistration(r)
      BY <3>2 DEF RemoveRegistration, RegistrationInvalid, CreateRegistration,
                  StartRegistration
    <3>3. CASE FetchRegistration(r) \/ EraseRegistration(r)
               \/ FinishRegistration(r) \/ RegisterInvalid(r)
               \/ OpaqueRegister(r) \/ InsertUser(r)
      BY <3>3, <3>8 DEF FetchRegistration, EraseRegistration, FinishRegistration,
                RegisterInvalid, OpaqueRegister, InsertUser
    <3>4. CASE RemoveLogin(r) \/ ReadCredentials(r) \/ CredentialsFail(r)
               \/ CreateLogin(r) \/ StartLogin(r)
      BY <3>4 DEF RemoveLogin, ReadCredentials, CredentialsFail, CreateLogin,
                  StartLogin
    <3>5. CASE FetchLogin(r) \/ EraseLogin(r)
      BY <3>5 DEF FetchLogin, EraseLogin, reqVars
    <3>6. CASE LoginRejected(r) \/ AccountKeyFails(r) \/ Authenticate(r)
      BY <3>6 DEF LoginRejected, AccountKeyFails, Authenticate
    <3>10. CASE FinishLogin(r)
      BY <3>10 DEF FinishLogin, reqVars
    <3>9. CASE OpaqueLogin(r)
      <4>1. pc[r] = "opaqueLogin" /\ pc' = [pc EXCEPT ![r] = pc'[r]]
            /\ UNCHANGED <<regCache, loginCache, took>>
            /\ pc'[r] # "finishLogin" /\ pc'[r] # "finishRegister"
            /\ pc'[r] # "registerRefused" /\ pc'[r] \notin {"loginFetched",
                                                "loginTaken", "opaqueLogin"}
        BY <3>9 DEF OpaqueLogin, reqVars
      <4>2. pc[s] = "loginStarted" => took[r] = s
        BY <4>1
      <4>3. pc[s] = "loginStarted" => pc'[r] # "loginRefused"
        BY <3>8, <3>9, <4>2 DEF OpaqueLogin
      <4> QED
        BY <4>1, <4>3
    <3>7. CASE LogoutRegistration(r) \/ LogoutLogin(r) \/ Deauthenticate(r)
      BY <3>7 DEF LogoutRegistration, LogoutLogin, Deauthenticate
    <3> QED
      BY <1>2, <2>4, <3>2, <3>3, <3>4, <3>5, <3>6, <3>7, <3>9, <3>10
         DEF Handler
  <2> QED
    BY <2>2, <2>3, <2>4
<1>3. CASE ContextTimeout
  BY <1>3 DEF ContextTimeout, reqVars, lockHist, admitHist
<1>4. ASSUME NEW u \in Users, RegisterElsewhere(u) PROVE BookInv'
  BY <1>4 DEF RegisterElsewhere, reqVars, lockHist, admitHist, logoutHist, flowVars
<1>5. CASE UNCHANGED vars
  BY <1>5 DEF vars
<1> QED
  BY <1>1, <1>2, <1>3, <1>4, <1>5 DEF Next

(* A logout that empties the cache runs beside nobody who has not          *)
(* overlapped, so that a context it found is in nobody's hands then; and   *)
(* only its own start could cache it again.                                *)
LEMMA GoneStep ==
    ASSUME TypeOK, [Next]_vars, NEW s \in Requests, Gone(s)
    PROVE  Gone(s)'
<1> USE AuthAssumption DEF TypeOK, Gone
<1>1. ASSUME NEW r \in Requests, AdmitStart(r) \/ AdmitFinish(r) \/ AdmitLogout(r)
      PROVE  Gone(s)'
  BY <1>1, AdmitStep
<1>2. ASSUME NEW q \in Requests, Handler(q) PROVE Gone(s)'
  <2>1. pc'[s] = "loginStarted" /\ overlapped' = overlapped
    BY <1>2, HandlerStep DEF IsRunning, Running, StartLoginPC, lockHist, admitHist
  <2>2. SUFFICES /\ loginCache' # s
                 /\ pc'[q] \in {"loginFetched", "loginTaken", "opaqueLogin",
                                "accountKey"}
                    /\ took'[q] = s => q \in overlapped
    BY <1>2, <2>1, HandlerStep
  <2> USE DEF Goto, EnterOpaque, flowVars, reqVars
  <2>3. CASE RemoveRegistration(q) \/ RegistrationInvalid(q)
             \/ CreateRegistration(q) \/ StartRegistration(q)
    BY <2>3 DEF RemoveRegistration, RegistrationInvalid, CreateRegistration,
                StartRegistration
  <2>4. CASE FetchRegistration(q) \/ EraseRegistration(q)
             \/ FinishRegistration(q) \/ RegisterInvalid(q)
             \/ OpaqueRegister(q) \/ InsertUser(q)
    BY <2>4 DEF FetchRegistration, EraseRegistration, FinishRegistration,
                RegisterInvalid, OpaqueRegister, InsertUser
  <2>5. CASE RemoveLogin(q) \/ ReadCredentials(q) \/ CredentialsFail(q)
             \/ CreateLogin(q) \/ StartLogin(q)
    BY <2>5 DEF RemoveLogin, ReadCredentials, CredentialsFail, CreateLogin,
                StartLogin
  <2>6. CASE FetchLogin(q) \/ EraseLogin(q) \/ LoginRejected(q)
             \/ FinishLogin(q) \/ OpaqueLogin(q) \/ AccountKeyFails(q)
             \/ Authenticate(q)
    BY <2>6 DEF FetchLogin, EraseLogin, LoginRejected, FinishLogin,
                OpaqueLogin, AccountKeyFails, Authenticate
  <2>7. CASE LogoutRegistration(q) \/ LogoutLogin(q) \/ Deauthenticate(q)
    BY <2>7 DEF LogoutRegistration, LogoutLogin, Deauthenticate
  <2> QED
    BY <1>2, <2>3, <2>4, <2>5, <2>6, <2>7 DEF Handler
<1>3. CASE ContextTimeout
  BY <1>3 DEF ContextTimeout, reqVars, lockHist, admitHist
<1>4. ASSUME NEW u \in Users, RegisterElsewhere(u) PROVE Gone(s)'
  BY <1>4 DEF RegisterElsewhere, reqVars, lockHist, admitHist, flowVars
<1>5. CASE UNCHANGED vars
  BY <1>5 DEF vars
<1> QED
  BY <1>1, <1>2, <1>3, <1>4, <1>5 DEF Next

LEMMA LogoutStep ==
    TypeOK /\ OverlapInv /\ LogoutInv /\ [Next]_vars => LogoutInv'
<1> SUFFICES ASSUME TypeOK, OverlapInv, LogoutInv, [Next]_vars PROVE LogoutInv'
  OBVIOUS
<1> USE DEF TypeOK, LogoutInv
<1>1. \A s \in Requests : Gone(s) => Gone(s)'
  BY GoneStep
<1>2. ASSUME NEW r \in Requests, AdmitStart(r) \/ AdmitFinish(r) \/ AdmitLogout(r)
      PROVE  LogoutInv'
  <2>1. \A s \in before'[r] \ overlapped' : pc[s] = "loginStarted"
    <3>1. CASE before' = before
      BY <1>2, <3>1, AdmitStep
    <3>2. CASE AdmitLogout(r)
      <4>1. before'[r] = {q \in Requests : pc[q] \in StartLoginPC \cup {"loginStarted"}}
        BY <3>2 DEF AdmitLogout
      <4> QED
        BY <1>2, <4>1, AdmitStep DEF IsRunning, Running
    <3> QED
      BY <1>2, <3>1, <3>2 DEF AdmitStart, AdmitFinish
  <2>2. /\ \A s \in Requests : pc[s] = "loginStarted" => pc'[s] = "loginStarted"
        /\ pc'[r] \notin {"logoutSession", "loggedOut"}
        /\ \A q \in Requests : q # r => pc'[q] = pc[q] /\ before'[q] = before[q]
        /\ overlapped \subseteq overlapped' /\ ended' = ended
        /\ before'[r] \subseteq Requests
    BY <1>2, AdmitStep, TypeStep DEF AdmitStart, AdmitFinish, AdmitLogout
  <2>3. \A s \in ended' \ overlapped' : Gone(s)'
    BY <1>1, <2>2
  <2>4. ASSUME NEW q \in Requests, NEW s \in before'[q] \ overlapped'
        PROVE  /\ pc'[s] = "loginStarted"
               /\ pc'[q] \in {"logoutSession", "loggedOut"} => Gone(s)'
    <3>1. CASE q = r
      BY <2>1, <2>2, <3>1
    <3>2. CASE q # r
      <4>1. s \in before[q] \ overlapped /\ s \in Requests
        BY <2>2, <2>4, <3>2
      <4> QED
        BY <1>1, <2>2, <3>2, <4>1
    <3> QED
      BY <3>1, <3>2
  <2> QED
    BY <2>3, <2>4
<1>3. ASSUME NEW q \in Requests, Handler(q) PROVE LogoutInv'
  <2>1. /\ before' = before /\ overlapped' = overlapped /\ IsRunning(q)
        /\ \A r \in Requests : r # q => pc'[r] = pc[r] /\ took'[r] = took[r]
    BY <1>3, HandlerStep DEF lockHist, admitHist
  <2>2. \A s \in Requests : pc[s] = "loginStarted" => pc'[s] = "loginStarted"
    BY <2>1 DEF IsRunning, Running, StartLoginPC
  <2>3. /\ pc'[q] = "loggedOut" => pc[q] = "logoutSession"
        /\ pc'[q] = "logoutSession" => loginCache' = Null /\ pc[q] = "logoutLogin"
        /\ ended' = IF pc'[q] = "loggedOut" THEN ended \cup before[q] ELSE ended
    <3> USE DEF Goto, EnterOpaque, logoutHist
    <3>1. CASE RemoveRegistration(q) \/ RegistrationInvalid(q)
               \/ CreateRegistration(q) \/ StartRegistration(q)
      BY <3>1 DEF RemoveRegistration, RegistrationInvalid, CreateRegistration,
                  StartRegistration
    <3>2. CASE FetchRegistration(q) \/ EraseRegistration(q)
               \/ FinishRegistration(q) \/ RegisterInvalid(q)
               \/ OpaqueRegister(q) \/ InsertUser(q)
      BY <3>2 DEF FetchRegistration, EraseRegistration, FinishRegistration,
                RegisterInvalid, OpaqueRegister, InsertUser
    <3>3. CASE RemoveLogin(q) \/ ReadCredentials(q) \/ CredentialsFail(q)
               \/ CreateLogin(q) \/ StartLogin(q)
      BY <3>3 DEF RemoveLogin, ReadCredentials, CredentialsFail, CreateLogin,
                  StartLogin
    <3>4. CASE FetchLogin(q) \/ EraseLogin(q) \/ LoginRejected(q)
               \/ FinishLogin(q) \/ OpaqueLogin(q) \/ AccountKeyFails(q)
               \/ Authenticate(q)
      BY <3>4 DEF FetchLogin, EraseLogin, LoginRejected, FinishLogin,
                OpaqueLogin, AccountKeyFails, Authenticate
    <3>5. CASE LogoutRegistration(q) \/ LogoutLogin(q) \/ Deauthenticate(q)
      BY <3>5 DEF LogoutRegistration, LogoutLogin, Deauthenticate
    <3> QED
      BY <1>3, <3>1, <3>2, <3>3, <3>4, <3>5 DEF Handler
  <2>4. ASSUME NEW s \in before[q] \ overlapped, pc'[q] = "logoutSession"
        PROVE  Gone(s)'
    <3>1. s \in Requests /\ pc'[s] = "loginStarted" /\ loginCache' # s
      BY <2>2, <2>3, <2>4, AuthAssumption
    <3>2. ASSUME NEW r \in Requests, r \notin overlapped,
                 pc'[r] \in {"loginFetched", "loginTaken", "opaqueLogin",
                            "accountKey"}
          PROVE  FALSE
      <4>1. r # q /\ IsRunning(r)
        BY <2>1, <2>4, <3>2 DEF IsRunning, Running
      <4> QED
        BY <2>1, <3>2, <4>1, Alone
    <3> QED
      BY <2>1, <3>1, <3>2 DEF Gone
  <2> QED
    BY <1>1, <2>1, <2>2, <2>3, <2>4
<1>4. CASE ContextTimeout
  BY <1>1, <1>4 DEF ContextTimeout, lockHist, admitHist
<1>5. ASSUME NEW u \in Users, RegisterElsewhere(u) PROVE LogoutInv'
  BY <1>1, <1>5 DEF RegisterElsewhere, logoutHist, lockHist, admitHist
<1>6. CASE UNCHANGED vars
  BY <1>1, <1>6 DEF vars
<1> QED
  BY <1>2, <1>3, <1>4, <1>5, <1>6 DEF Next
-----------------------------------------------------------------------------
LEMMA Inductive == Spec => []IInv
<1>1. IInv /\ [Next]_vars => IInv'
  BY TypeStep, TookStep, OnceStep, RegStep, OverlapStep, RaceStep, BookStep,
     LogoutStep
     DEF IInv
<1> QED
  BY InitIInv, <1>1, PTL DEF Spec

LEMMA Consequences == IInv => TypeOK /\ FlowFinishesOnce /\ RegisteredOwnsAccount
<1>1. IInv => TypeOK
  BY DEF IInv
<1>2. IInv => FlowFinishesOnce
  <2> SUFFICES ASSUME TypeOK, TookInv, OnceInv, RegInv PROVE FlowFinishesOnce
    BY DEF IInv
  <2> USE DEF TookInv, HasTaken, OnceInv, RegInv, Registers, LoginPassed
  <2> QED
    BY DEF FlowFinishesOnce
<1>3. IInv => RegisteredOwnsAccount
  BY DEF IInv, RegInv
<1> QED
  BY <1>1, <1>2, <1>3

(* Every variable keeps its type: in particular a handler past the cache   *)
(* lookup works on a context, and authenticates as a user.                 *)
THEOREM TypeCorrect == Spec => []TypeOK
  BY Inductive, Consequences, PTL

(* One start makes one registration at most, and a second login only for   *)
(* two finishes that were in the OPAQUE call together: however the lookup  *)
(* and the erase of takeRegistrationContext and takeLoginContext and the   *)
(* test and the write of OpaqueContext's step interleave, and for any      *)
(* number of finishes.                                                     *)
THEOREM Once == Spec => []FlowFinishesOnce
  BY Inductive, Consequences, PTL

(* The answer of a successful finishRegister is true and stays so.         *)
THEOREM OwnsAccount == Spec => []RegisteredOwnsAccount
  BY Inductive, Consequences, PTL

(* A start and a finish that nobody disturbs are not refused.              *)
THEOREM Completes == Spec => []FlowCompletes
<1>1. IInv => FlowCompletes
  BY DEF IInv, BookInv, FlowCompletes, ByTheBook
<1> QED
  BY Inductive, <1>1, PTL

(* A login under way when a logout began does not survive it, unless a     *)
(* lock was lost.                                                          *)
THEOREM LogoutEnds == Spec => LogoutEndsFlows
<1>1. IInv /\ [Next]_vars =>
        [\A r \in Requests :
            pc[r] = "accountKey" /\ pc'[r] = "loggedIn" /\ took[r] \in ended
                => r \in overlapped \/ took[r] \in overlapped]_vars
  BY DEF IInv, LogoutInv, Gone
<1> QED
  BY Inductive, <1>1, PTL DEF Spec, LogoutEndsFlows
=============================================================================

------------------------ MODULE ClientSession_proofs ------------------------
(***************************************************************************)
(* Proofs about ClientSession.tla, for any set of requests.                *)
(***************************************************************************)
EXTENDS ClientSession, TLAPS

(* The OPAQUE client belongs to the flow under way; a client that is       *)
(* logged in is past its login; it alone refreshes, and only a device      *)
(* binder is asked to sign.                                                *)
FlowInv ==
    /\ \A f \in Flows : flow[f] # "idle" => opaque = f
    /\ isLoggedIn => page = "vault" /\ opaque = "login" /\ flow["login"] = "idle"
    /\ isRefreshing => isLoggedIn
    /\ refresh["challenge"] > 0 \/ refresh["signing"] > 0 => binder

(* A request that goes round again has not been run yet.                   *)
RequestInv ==
    \A r \in Requests :
        /\ calls[r] = IF place[r] = "returned" THEN 1 ELSE 0
        /\ place[r] \in {"idle", "sent", "parked"} => executed[r] = 0
        /\ place[r] = "answered" =>
            /\ status[r] = "ok" => executed[r] = 1
            /\ status[r] = "unauthorized" => executed[r] = 0

IInv ==
    /\ TypeOK
    /\ PendingAwaitRefresh
    /\ FlowInv
    /\ RequestInv
-----------------------------------------------------------------------------
LEMMA InitIInv == Init => IInv
<1> SUFFICES ASSUME Init PROVE IInv
  OBVIOUS
<1> USE DEF Init
<1>1. TypeOK
  BY DEF TypeOK, Flows, Stages, RefreshSteps, Places, P!Outcomes
<1>2. PendingAwaitRefresh
  BY DEF PendingAwaitRefresh, RefreshIsAt, RefreshSteps
<1>3. FlowInv
  BY DEF FlowInv, RefreshSteps
<1>4. RequestInv
  BY DEF RequestInv
<1> QED
  BY <1>1, <1>2, <1>3, <1>4 DEF IInv

(* A refresh that is anywhere is the one the flag speaks of.               *)
LEMMA OneRefresh ==
    ASSUME TypeOK, PendingAwaitRefresh,
           NEW s \in RefreshSteps, refresh[s] > 0
    PROVE  RefreshIsAt(s) /\ isRefreshing
  BY DEF TypeOK, PendingAwaitRefresh, RefreshIsAt, RefreshSteps

LEMMA NoRefresh ==
    ASSUME TypeOK, PendingAwaitRefresh, ~isRefreshing
    PROVE  RefreshIsAt("none")
  BY DEF PendingAwaitRefresh

LEMMA GoesOn ==
    ASSUME TypeOK, NEW s \in RefreshSteps, NEW t \in RefreshSteps, s # t,
           RefreshIsAt(s), RefreshGoesOn(s, t)
    PROVE  RefreshIsAt(t)'
<1>1. refresh' = [u \in RefreshSteps |-> refresh'[u]]
  BY DEF RefreshGoesOn, TypeOK
<1>2. \A u \in RefreshSteps : refresh'[u] = IF u = t THEN 1 ELSE 0
  BY DEF RefreshIsAt, RefreshGoesOn
<1> QED
  BY <1>1, <1>2 DEF RefreshIsAt

LEMMA Ends ==
    ASSUME TypeOK, NEW s \in RefreshSteps, RefreshIsAt(s), RefreshEnds(s)
    PROVE  RefreshIsAt("none")'
<1>1. refresh' = [u \in RefreshSteps |-> refresh'[u]]
  BY DEF RefreshEnds, TypeOK
<1>2. \A u \in RefreshSteps : refresh'[u] = 0
  BY DEF RefreshIsAt, RefreshEnds
<1> QED
  BY <1>1, <1>2 DEF RefreshIsAt, RefreshSteps

LEMMA Starts ==
    ASSUME TypeOK, RefreshIsAt("none"), RefreshAuthentication,
           NEW s \in RefreshSteps, s = IF binder THEN "challenge" ELSE "proved"
    PROVE  RefreshIsAt(s)'
<1>1. refresh' = [u \in RefreshSteps |-> refresh'[u]]
  BY DEF RefreshAuthentication, RefreshAt, TypeOK
<1>2. \A u \in RefreshSteps : refresh'[u] = IF u = s THEN 1 ELSE 0
  BY DEF RefreshIsAt, RefreshAuthentication, RefreshAt, RefreshSteps
<1> QED
  BY <1>1, <1>2 DEF RefreshIsAt

(* What the steps of the buttons and flows leave alone.                    *)
FlowAction ==
    \/ \E f \in Flows : ClickRefused(f)
    \/ RegisterUser \/ LoginUser \/ FlowHandler

LEMMA FlowFrame == FlowAction => UNCHANGED <<refreshVars, requestVars, fresh, reply>>
  BY DEF FlowAction, ClickRefused, RegisterUser, LoginUser, StartRegistration,
         StartLogin, StartFlow, FlowHandler, OnRegisterStartComputed,
         OnRegistrationStartResponse, OnRegisterFinishComputed,
         OnRegisterFinishResponse, OnLoginStartComputed, OnLoginStartResponse,
         OnLoginFinishComputed, OnLoginFinishResponse, FlowStep, vars, cookieVars

(* The steps of a refresh: it moves on, fails, or brings the new cookie.   *)
RefreshMoves ==
    \E s, t \in RefreshSteps :
        /\ s # t /\ RefreshGoesOn(s, t)
        /\ refresh[s] > 0 /\ (t = "signing" => s = "challenge")
        /\ t # "challenge"

LEMMA RefreshShape ==
    RefreshHandler =>
        /\ UNCHANGED <<flowVars, status, executed>>
        /\ \/ RefreshMoves
           \/ \E s \in RefreshSteps : refresh[s] > 0 /\ RefreshFailed(s)
           \/ refresh["rotated"] > 0 /\ AuthTokenRefreshed("rotated")
<1> SUFFICES ASSUME RefreshHandler
             PROVE  /\ UNCHANGED <<flowVars, status, executed>>
                    /\ \/ RefreshMoves
                       \/ \E s \in RefreshSteps : refresh[s] > 0 /\ RefreshFailed(s)
                       \/ refresh["rotated"] > 0 /\ AuthTokenRefreshed("rotated")
  OBVIOUS
<1> USE DEF RefreshStep, RefreshSteps
<1>1. CASE OnGetChallengeResponse
  BY <1>1 DEF OnGetChallengeResponse, RefreshMoves
<1>2. CASE OnRefreshComputed
  BY <1>2 DEF OnRefreshComputed, RefreshMoves
<1>3. CASE ServerRotates
  BY <1>3 DEF ServerRotates, RefreshMoves
<1>4. CASE OnRefreshResponse
  BY <1>4 DEF OnRefreshResponse
<1> QED
  BY <1>1, <1>2, <1>3, <1>4 DEF RefreshHandler

LEMMA PendingStep ==
    TypeOK /\ PendingAwaitRefresh /\ [Next]_vars => PendingAwaitRefresh'
<1> SUFFICES ASSUME TypeOK, PendingAwaitRefresh, [Next]_vars
             PROVE  PendingAwaitRefresh'
  OBVIOUS
<1>1. ASSUME UNCHANGED <<refreshVars, pendingRequests, place>>
      PROVE  PendingAwaitRefresh'
  BY <1>1 DEF PendingAwaitRefresh, RefreshIsAt, refreshVars
<1>2. CASE FlowAction
  BY <1>1, <1>2, FlowFrame DEF requestVars
<1>3. ASSUME NEW r \in Requests, SendRequest(r) PROVE PendingAwaitRefresh'
  BY <1>3 DEF SendRequest, Leave, PendingAwaitRefresh, RefreshIsAt, refreshVars,
              TypeOK
<1>4. ASSUME NEW r \in Requests, ServerAnswers(r) PROVE PendingAwaitRefresh'
  BY <1>4 DEF ServerAnswers, PendingAwaitRefresh, RefreshIsAt, refreshVars, TypeOK
<1>5. ASSUME NEW r \in Requests, OnResponseMessage(r) PROVE PendingAwaitRefresh'
  <2>1. CASE status[r] = "unauthorized" /\ isLoggedIn
    <3>1. pendingRequests' = {q \in Requests : place'[q] = "parked"}
      BY <1>5, <2>1 DEF OnResponseMessage, PendingAwaitRefresh, TypeOK
    <3>2. CASE isRefreshing
      BY <1>5, <2>1, <3>1, <3>2
         DEF OnResponseMessage, PendingAwaitRefresh, RefreshIsAt, refreshVars
    <3>3. CASE ~isRefreshing
      <4> DEFINE s == IF binder THEN "challenge" ELSE "proved"
      <4>1. s \in RefreshSteps
        BY DEF RefreshSteps
      <4>2. RefreshAuthentication
        BY <1>5, <2>1, <3>3 DEF OnResponseMessage
      <4>3. \E t \in RefreshSteps : RefreshIsAt(t)'
        BY <3>3, <4>1, <4>2, NoRefresh, Starts
      <4> QED
        BY <3>1, <4>2, <4>3 DEF PendingAwaitRefresh, RefreshAuthentication
    <3> QED
      BY <3>2, <3>3
  <2>2. CASE ~(status[r] = "unauthorized" /\ isLoggedIn)
    BY <1>5, <2>2 DEF OnResponseMessage, Callback, PendingAwaitRefresh,
                      RefreshIsAt, refreshVars, TypeOK
  <2> QED
    BY <2>1, <2>2
<1>6. CASE RefreshHandler
  <2>1. CASE RefreshMoves
    <3>1. PICK s, t \in RefreshSteps : s # t /\ RefreshGoesOn(s, t) /\ refresh[s] > 0
      BY <2>1 DEF RefreshMoves
    <3>2. RefreshIsAt(t)' /\ isRefreshing
      BY <3>1, OneRefresh, GoesOn
    <3> QED
      BY <3>1, <3>2 DEF RefreshGoesOn, PendingAwaitRefresh
  <2>2. ASSUME NEW s \in RefreshSteps, refresh[s] > 0,
               RefreshFailed(s) \/ AuthTokenRefreshed(s)
        PROVE  PendingAwaitRefresh'
    <3>1. RefreshIsAt("none")'
      BY <2>2, OneRefresh, Ends DEF RefreshFailed, AuthTokenRefreshed
    <3>2. \A r \in Requests : place'[r] # "parked"
      BY <2>2 DEF RefreshFailed, AuthTokenRefreshed, Callback,
                  PendingAwaitRefresh, TypeOK
    <3> QED
      BY <2>2, <3>1, <3>2 DEF RefreshFailed, AuthTokenRefreshed, RefreshEnds,
                              PendingAwaitRefresh
  <2> QED
    BY <1>6, <2>1, <2>2, RefreshShape DEF RefreshSteps
<1>7. CASE CookieExpires
  BY <1>1, <1>7 DEF CookieExpires, requestVars
<1>8. CASE UNCHANGED vars
  BY <1>1, <1>8 DEF vars, requestVars
<1> QED
  BY <1>2, <1>3, <1>4, <1>5, <1>6, <1>7, <1>8 DEF Next, FlowAction

LEMMA FlowInvStep ==
    TypeOK /\ PendingAwaitRefresh /\ FlowInv /\ [Next]_vars => FlowInv'
<1> SUFFICES ASSUME TypeOK, PendingAwaitRefresh, FlowInv, [Next]_vars
             PROVE  FlowInv'
  OBVIOUS
<1>1. ASSUME UNCHANGED <<flowVars, refreshVars>> PROVE FlowInv'
  BY <1>1 DEF FlowInv, flowVars, refreshVars
<1>2. CASE FlowAction
  <2> USE DEF FlowInv, flowVars, refreshVars, Flows, TypeOK
  <2>1. UNCHANGED refreshVars
    BY <1>2, FlowFrame
  <2>2. refresh["challenge"] > 0 \/ refresh["signing"] > 0 => isLoggedIn
    BY OneRefresh DEF RefreshSteps
  <2>3. CASE RegisterUser \/ LoginUser \/ \E f \in Flows : ClickRefused(f)
    BY <2>1, <2>2, <2>3 DEF RegisterUser, LoginUser, ClickRefused, Click, StartFlow,
                      StartRegistration, StartLogin, vars
  <2>4. CASE OnRegisterStartComputed \/ OnRegistrationStartResponse
             \/ OnRegisterFinishComputed \/ OnRegisterFinishResponse
    BY <2>1, <2>2, <2>4
       DEF OnRegisterStartComputed, OnRegistrationStartResponse,
           OnRegisterFinishComputed, OnRegisterFinishResponse, FlowStep,
           FlowGoesOn, OnRegisterFailed, Stages
  <2>5. CASE OnLoginStartComputed \/ OnLoginStartResponse
             \/ OnLoginFinishComputed \/ OnLoginFinishResponse
    BY <2>1, <2>2, <2>5
       DEF OnLoginStartComputed, OnLoginStartResponse, OnLoginFinishComputed,
           OnLoginFinishResponse, FlowStep, FlowGoesOn, OnLoginFailed,
           OnLoginSuccess, Stages
  <2> QED
    BY <1>2, <2>3, <2>4, <2>5 DEF FlowAction, FlowHandler
<1>3. ASSUME NEW r \in Requests, SendRequest(r) \/ ServerAnswers(r) PROVE FlowInv'
  BY <1>1, <1>3 DEF SendRequest, ServerAnswers
<1>4. ASSUME NEW r \in Requests, OnResponseMessage(r) PROVE FlowInv'
  <2>1. CASE UNCHANGED refreshVars
    BY <1>1, <1>4, <2>1 DEF OnResponseMessage
  <2>2. CASE isLoggedIn /\ ~isRefreshing /\ RefreshAuthentication
    <3>1. UNCHANGED flowVars
      BY <1>4 DEF OnResponseMessage
    <3>2. (refresh["challenge"] > 0)' \/ (refresh["signing"] > 0)' => binder
      BY <2>2, NoRefresh DEF RefreshAuthentication, RefreshAt, RefreshIsAt,
                             RefreshSteps
    <3> QED
      BY <2>2, <3>1, <3>2 DEF FlowInv, flowVars, RefreshAuthentication
  <2> QED
    BY <1>4, <2>1, <2>2 DEF OnResponseMessage
<1>5. CASE RefreshHandler
  <2>1. UNCHANGED flowVars
    BY <1>5, RefreshShape
  <2>2. CASE RefreshMoves
    <3>1. PICK s, t \in RefreshSteps :
             /\ s # t /\ RefreshGoesOn(s, t) /\ refresh[s] > 0
             /\ t = "signing" => s = "challenge"
             /\ t # "challenge"
      BY <2>2 DEF RefreshMoves
    <3>2. RefreshIsAt(t)'
      BY <3>1, OneRefresh, GoesOn
    <3> QED
      BY <2>1, <3>1, <3>2
         DEF FlowInv, flowVars, RefreshGoesOn, RefreshIsAt, RefreshSteps
  <2>3. ASSUME NEW s \in RefreshSteps, refresh[s] > 0,
               RefreshFailed(s) \/ AuthTokenRefreshed(s)
        PROVE  FlowInv'
    <3>1. RefreshIsAt("none")' /\ isRefreshing' = FALSE
      BY <2>3, OneRefresh, Ends DEF RefreshFailed, AuthTokenRefreshed, RefreshEnds
    <3> QED
      BY <2>1, <3>1 DEF FlowInv, flowVars, RefreshIsAt, RefreshSteps
  <2> QED
    BY <1>5, <2>2, <2>3, RefreshShape DEF RefreshSteps
<1>6. CASE CookieExpires
  BY <1>1, <1>6 DEF CookieExpires
<1>7. CASE UNCHANGED vars
  BY <1>1, <1>7 DEF vars
<1> QED
  BY <1>2, <1>3, <1>4, <1>5, <1>6, <1>7 DEF Next, FlowAction

(* The callbacks of a set of requests that have not been answered.         *)
LEMMA CallbackOnce ==
    ASSUME TypeOK, RequestInv, NEW R \in SUBSET Requests, NEW o, Callback(R, o),
           \A r \in R : place[r] # "returned"
    PROVE  /\ calls' = [r \in Requests |-> IF r \in R THEN 1 ELSE calls[r]]
           /\ \A r \in Requests :
                calls'[r] = IF place'[r] = "returned" THEN 1 ELSE 0
<1>1. \A r \in R : calls[r] = 0
  BY DEF RequestInv
<1>2. \A r \in Requests :
         (IF r \in R THEN calls[r] + 1 ELSE calls[r]) = IF r \in R THEN 1 ELSE calls[r]
  BY <1>1
<1> QED
  BY <1>2 DEF Callback, RequestInv, TypeOK

LEMMA RequestStep ==
    TypeOK /\ PendingAwaitRefresh /\ RequestInv /\ [Next]_vars => RequestInv'
<1> SUFFICES ASSUME TypeOK, PendingAwaitRefresh, RequestInv, [Next]_vars
             PROVE  RequestInv'
  OBVIOUS
<1> USE DEF TypeOK
<1>1. ASSUME UNCHANGED requestVars PROVE RequestInv'
  BY <1>1 DEF RequestInv, requestVars
<1>2. CASE FlowAction
  BY <1>1, <1>2, FlowFrame
<1>3. ASSUME NEW r \in Requests, SendRequest(r) PROVE RequestInv'
  BY <1>3 DEF SendRequest, Leave, RequestInv
<1>4. ASSUME NEW r \in Requests, ServerAnswers(r) PROVE RequestInv'
  BY <1>4 DEF ServerAnswers, RequestInv
<1>5. ASSUME NEW r \in Requests, OnResponseMessage(r) PROVE RequestInv'
  <2>1. CASE place' = [place EXCEPT ![r] = "parked"] /\ UNCHANGED calls
             /\ status[r] = "unauthorized"
    BY <1>5, <2>1 DEF OnResponseMessage, RequestInv
  <2>2. CASE Callback({r}, MapNetworkError(status[r]))
    <3>1. \A q \in Requests : calls'[q] = IF place'[q] = "returned" THEN 1 ELSE 0
      BY <1>5, <2>2, CallbackOnce DEF OnResponseMessage
    <3> QED
      BY <1>5, <2>2, <3>1 DEF OnResponseMessage, Callback, RequestInv
  <2> QED
    BY <1>5, <2>1, <2>2 DEF OnResponseMessage
<1>6. CASE RefreshHandler
  <2>1. UNCHANGED <<status, executed>>
    BY <1>6, RefreshShape
  <2>2. CASE RefreshMoves
    BY <2>1, <2>2 DEF RefreshMoves, RefreshGoesOn, RequestInv
  <2>3. ASSUME NEW s \in RefreshSteps, RefreshFailed(s) PROVE RequestInv'
    <3>1. \A r \in Requests : calls'[r] = IF place'[r] = "returned" THEN 1 ELSE 0
      BY <2>3, CallbackOnce DEF RefreshFailed, PendingAwaitRefresh
    <3> QED
      BY <2>1, <2>3, <3>1 DEF RefreshFailed, Callback, RequestInv
  <2>4. CASE AuthTokenRefreshed("rotated")
    BY <2>1, <2>4 DEF AuthTokenRefreshed, RequestInv, PendingAwaitRefresh
  <2> QED
    BY <1>6, <2>2, <2>3, <2>4, RefreshShape
<1>7. CASE CookieExpires
  BY <1>1, <1>7 DEF CookieExpires
<1>8. CASE UNCHANGED vars
  BY <1>1, <1>8 DEF vars
<1> QED
  BY <1>2, <1>3, <1>4, <1>5, <1>6, <1>7, <1>8 DEF Next, FlowAction

FlowTypes ==
    /\ page \in {"welcome", "vault"}
    /\ loading \in [Flows -> BOOLEAN]
    /\ opaque \in Flows \cup {"none"}
    /\ flow \in [Flows -> Stages]
    /\ binder \in BOOLEAN /\ isLoggedIn \in BOOLEAN
    /\ jar \in BOOLEAN /\ session \in BOOLEAN

LEMMA FlowTypeStep == FlowTypes /\ FlowAction => FlowTypes'
<1> SUFFICES ASSUME FlowTypes, FlowAction PROVE FlowTypes'
  OBVIOUS
<1> USE DEF FlowTypes, Flows, Stages
<1>1. ASSUME NEW f \in Flows, ClickRefused(f) PROVE FlowTypes'
  BY <1>1 DEF ClickRefused, vars, flowVars, cookieVars
<1>2. CASE RegisterUser \/ LoginUser
  BY <1>2 DEF RegisterUser, LoginUser, StartFlow, StartRegistration, StartLogin,
              cookieVars
<1>3. ASSUME NEW f \in Flows, NEW s \in Stages, FlowGoesOn(f, s) PROVE FlowTypes'
  BY <1>3 DEF FlowGoesOn
<1>4. CASE OnRegisterFailed
  BY <1>4 DEF OnRegisterFailed
<1>5. CASE OnLoginFailed
  BY <1>5 DEF OnLoginFailed
<1>6. CASE OnLoginSuccess
  BY <1>6 DEF OnLoginSuccess
<1>7. CASE OnRegisterFinishResponse
  BY <1>4, <1>7 DEF OnRegisterFinishResponse
<1>8. CASE FlowHandler /\ ~OnRegisterFinishResponse
  BY <1>3, <1>4, <1>5, <1>6, <1>8
     DEF FlowHandler, OnRegisterStartComputed, OnRegistrationStartResponse,
         OnRegisterFinishComputed, OnLoginStartComputed, OnLoginStartResponse,
         OnLoginFinishComputed, OnLoginFinishResponse
<1> QED
  BY <1>1, <1>2, <1>7, <1>8 DEF FlowAction

LEMMA TypeStep ==
    TypeOK /\ PendingAwaitRefresh /\ RequestInv /\ [Next]_vars => TypeOK'
<1> SUFFICES ASSUME TypeOK, PendingAwaitRefresh, RequestInv, [Next]_vars
             PROVE  TypeOK'
  OBVIOUS
<1>1. refresh' \in [RefreshSteps -> Nat]
  BY PendingStep DEF PendingAwaitRefresh, RefreshIsAt
<1> USE <1>1 DEF TypeOK, flowVars, refreshVars, cookieVars, requestVars, Places,
                 P!Outcomes
<1>2. CASE FlowAction
  BY <1>2, FlowFrame, FlowTypeStep DEF FlowTypes
<1>3. ASSUME NEW r \in Requests, SendRequest(r) PROVE TypeOK'
  BY <1>3 DEF SendRequest, Leave
<1>4. ASSUME NEW r \in Requests, ServerAnswers(r) PROVE TypeOK'
  <2>1. executed[r] = 0
    BY <1>4 DEF ServerAnswers, RequestInv
  <2>2. executed' \in [Requests -> {0, 1}]
    BY <1>4, <2>1 DEF ServerAnswers
  <2>3. place' \in [Requests -> Places]
    BY <1>4 DEF ServerAnswers
  <2>4. status' \in [Requests -> {"none", "ok", "unauthorized", "failed"}]
    BY <1>4 DEF ServerAnswers
  <2> QED
    BY <1>4, <2>2, <2>3, <2>4 DEF ServerAnswers
<1>5. ASSUME NEW r \in Requests, OnResponseMessage(r) PROVE TypeOK'
  <2>1. MapNetworkError(status[r]) \in P!Outcomes
    BY DEF MapNetworkError
  <2>2. CASE status[r] = "unauthorized" /\ isLoggedIn
    <3>1. place' \in [Requests -> Places] /\ pendingRequests' \in SUBSET Requests
      BY <1>5, <2>2 DEF OnResponseMessage
    <3>2. isRefreshing' \in BOOLEAN
      BY <1>5, <2>2, Zenon DEF OnResponseMessage, RefreshAuthentication
    <3>3. fresh' \in SUBSET Requests /\ UNCHANGED <<flowVars, cookieVars, calls, outcome>>
      BY <1>5, <2>2 DEF OnResponseMessage, RefreshAuthentication
    <3>4. UNCHANGED <<status, executed>>
      BY <1>5 DEF OnResponseMessage
    <3> QED
      BY <3>1, <3>2, <3>3, <3>4
  <2>3. CASE Callback({r}, MapNetworkError(status[r])) /\ UNCHANGED refreshVars
             /\ UNCHANGED pendingRequests
    <3>1. calls' \in [Requests -> {0, 1}]
      BY <1>5, <2>3, CallbackOnce DEF OnResponseMessage
    <3> QED
      BY <1>5, <2>1, <2>3, <3>1 DEF OnResponseMessage, Callback
  <2> QED
    BY <1>5, <2>2, <2>3 DEF OnResponseMessage
<1>6. CASE RefreshHandler
  <2>1. UNCHANGED <<flowVars, status, executed>>
    BY <1>6, RefreshShape
  <2>2. jar' \in BOOLEAN /\ reply' \in BOOLEAN /\ session' \in BOOLEAN
    BY <1>6 DEF RefreshHandler, OnGetChallengeResponse, OnRefreshComputed,
                ServerRotates, OnRefreshResponse
  <2>3. fresh' \in SUBSET Requests
    BY <1>6 DEF RefreshHandler, OnGetChallengeResponse, OnRefreshComputed,
                ServerRotates, OnRefreshResponse, RefreshFailed,
                AuthTokenRefreshed
  <2>4. CASE RefreshMoves
    BY <2>1, <2>2, <2>3, <2>4 DEF RefreshMoves, RefreshGoesOn
  <2>5. ASSUME NEW s \in RefreshSteps, RefreshFailed(s) PROVE TypeOK'
    <3>1. calls' \in [Requests -> {0, 1}]
      BY <2>5, CallbackOnce DEF RefreshFailed, PendingAwaitRefresh
    <3> QED
      BY <2>1, <2>2, <2>3, <2>5, <3>1 DEF RefreshFailed, RefreshEnds, Callback
  <2>6. CASE AuthTokenRefreshed("rotated")
    BY <2>1, <2>2, <2>3, <2>6 DEF AuthTokenRefreshed, RefreshEnds
  <2> QED
    BY <1>6, <2>4, <2>5, <2>6, RefreshShape
<1>7. CASE CookieExpires
  BY <1>7 DEF CookieExpires
<1>8. CASE UNCHANGED vars
  BY <1>8 DEF vars
<1> QED
  BY <1>2, <1>3, <1>4, <1>5, <1>6, <1>7, <1>8 DEF Next, FlowAction
-----------------------------------------------------------------------------
LEMMA Inductive == Spec => []IInv
<1>1. IInv /\ [Next]_vars => IInv'
  BY TypeStep, PendingStep, FlowInvStep, RequestStep DEF IInv
<1> QED
  BY InitIInv, <1>1, PTL DEF Spec

(* Every variable keeps its type: a callback is called once at most.       *)
THEOREM TypeCorrect == Spec => []TypeOK
<1>1. IInv => TypeOK
  BY DEF IInv
<1> QED
  BY Inductive, <1>1, PTL

(* However many requests are refused at a time, one refresh is under way,  *)
(* and no request waits without one.                                       *)
THEOREM PendingAwait == Spec => []PendingAwaitRefresh
<1>1. IInv => PendingAwaitRefresh
  BY DEF IInv
<1> QED
  BY Inductive, <1>1, PTL

(* No worker loses the OPAQUE client or the device binder it computes with.*)
THEOREM WorkersOwn == Spec => []WorkerOwnsClient
<1>1. IInv => WorkerOwnsClient
  BY DEF IInv, FlowInv, WorkerOwnsClient, Computing
<1> QED
  BY Inductive, <1>1, PTL
-----------------------------------------------------------------------------
(* The session keeps the promise of RequestPromise.                        *)
LEMMA PromiseInit == Init => P!Init
  BY DEF Init, P!Init

LEMMA PromiseStep == IInv /\ [Next]_vars => [P!Next]_P!vars
<1> SUFFICES ASSUME IInv, [Next]_vars PROVE P!Next \/ UNCHANGED P!vars
  OBVIOUS
<1> DEFINE Issued == {r \in Requests : place[r] # "idle"}
<1> USE DEF IInv, TypeOK
<1>1. ASSUME UNCHANGED requestVars PROVE UNCHANGED P!vars
  BY <1>1 DEF requestVars, P!vars
<1>2. CASE FlowAction
  BY <1>1, <1>2, FlowFrame
<1>3. ASSUME NEW r \in Requests, SendRequest(r) PROVE P!Issue(r)
  BY <1>3 DEF SendRequest, Leave, P!Issue
<1>4. ASSUME NEW r \in Requests, ServerAnswers(r)
      PROVE  P!Execute(r) \/ UNCHANGED P!vars
  <2>1. executed[r] = 0 /\ calls[r] = 0 /\ r \in Issued /\ UNCHANGED Issued
    BY <1>4 DEF ServerAnswers, RequestInv
  <2>2. CASE executed' = [executed EXCEPT ![r] = @ + 1]
    <3>1. executed' = [executed EXCEPT ![r] = 1]
      BY <2>1, <2>2
    <3> QED
      BY <1>4, <2>1, <3>1 DEF ServerAnswers, P!Execute
  <2>3. CASE UNCHANGED executed
    BY <1>4, <2>1, <2>3 DEF ServerAnswers, P!vars
  <2> QED
    BY <1>4, <2>2, <2>3 DEF ServerAnswers
<1>5. ASSUME NEW r \in Requests, OnResponseMessage(r)
      PROVE  P!Next \/ UNCHANGED P!vars
  <2>1. CASE place' = [place EXCEPT ![r] = "parked"] /\ UNCHANGED <<calls, outcome>>
    <3>1. UNCHANGED Issued
      BY <1>5, <2>1 DEF OnResponseMessage
    <3> QED
      BY <1>5, <2>1, <3>1 DEF OnResponseMessage, P!vars
  <2>2. CASE Callback({r}, MapNetworkError(status[r]))
    <3> DEFINE o == MapNetworkError(status[r])
    <3>1. /\ o \in P!Outcomes \ {"pending"}
          /\ o = "none" => executed[r] = 1
          /\ o = "unauthorized" => executed[r] = 0
      BY <1>5 DEF OnResponseMessage, MapNetworkError, RequestInv, P!Outcomes
    <3>2. calls[r] = 0 /\ r \in Issued /\ UNCHANGED executed /\ UNCHANGED Issued
      <4>1. place[r] = "answered" /\ UNCHANGED executed
        BY <1>5 DEF OnResponseMessage
      <4>2. \A q \in Requests : place'[q] = IF q = r THEN "returned" ELSE place[q]
        BY <2>2 DEF Callback
      <4>3. UNCHANGED Issued
        BY <4>1, <4>2
      <4> QED
        BY <4>1, <4>3 DEF RequestInv
    <3>3. calls' = [calls EXCEPT ![r] = 1]
      <4>1. calls' = [q \in Requests |-> IF q \in {r} THEN calls[q] + 1 ELSE calls[q]]
        BY <2>2 DEF Callback
      <4>2. \A q \in Requests : calls'[q] = IF q = r THEN 1 ELSE calls[q]
        BY <3>2, <4>1
      <4>3. calls' = [q \in Requests |-> calls'[q]]
        BY <4>1
      <4> QED
        BY <4>2, <4>3
    <3>4. outcome' = [outcome EXCEPT ![r] = o]
      BY <2>2 DEF Callback
    <3>5. P!Answer(r, o)
      BY <3>1, <3>2, <3>3, <3>4 DEF P!Answer
    <3> QED
      BY <3>1, <3>5 DEF P!Next
  <2> QED
    BY <1>5, <2>1, <2>2 DEF OnResponseMessage
<1>6. CASE RefreshHandler
  <2>1. UNCHANGED executed
    BY <1>6, RefreshShape
  <2>2. CASE RefreshMoves
    BY <2>1, <2>2 DEF RefreshMoves, RefreshGoesOn, P!vars
  <2>3. ASSUME NEW s \in RefreshSteps, RefreshFailed(s)
        PROVE  P!Refuse(pendingRequests)
    <3>1. /\ pendingRequests \subseteq Issued
          /\ \A r \in pendingRequests : calls[r] = 0 /\ executed[r] = 0
      BY DEF PendingAwaitRefresh, RequestInv
    <3>2. calls' = [r \in Requests |-> IF r \in pendingRequests THEN 1 ELSE calls[r]]
      BY <2>3, CallbackOnce DEF RefreshFailed, PendingAwaitRefresh
    <3>3. UNCHANGED Issued
      BY <2>3, <3>1 DEF RefreshFailed, Callback
    <3> QED
      BY <2>1, <2>3, <3>1, <3>2, <3>3 DEF RefreshFailed, Callback, P!Refuse
  <2>4. CASE AuthTokenRefreshed("rotated")
    <3>1. UNCHANGED Issued
      BY <2>4 DEF AuthTokenRefreshed, PendingAwaitRefresh
    <3> QED
      BY <2>1, <2>4, <3>1 DEF AuthTokenRefreshed, P!vars
  <2> QED
    BY <1>6, <2>2, <2>3, <2>4, RefreshShape DEF P!Next
<1>7. CASE CookieExpires
  BY <1>1, <1>7 DEF CookieExpires
<1>8. CASE UNCHANGED vars
  BY <1>1, <1>8 DEF vars
<1> QED
  BY <1>2, <1>3, <1>4, <1>5, <1>6, <1>7, <1>8 DEF Next, FlowAction, P!Next

(* Whatever cookies expire and whatever goes wrong with a refresh, the code*)
(* that sent a request gets one true answer, and the request is run once.  *)
THEOREM Refinement == Spec => ImplementsRequests
  BY Inductive, PromiseInit, PromiseStep, PTL
     DEF Spec, ImplementsRequests, P!Spec
=============================================================================

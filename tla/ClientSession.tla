---------------------------- MODULE ClientSession ----------------------------
(***************************************************************************)
(* client/src/network/ServerSession.cpp and client/src/core/ClientAuth.cpp *)
(* with the buttons of the welcome page: the registration and login flows, *)
(* and the requests of a client that is logged in, which wait in a queue   *)
(* while the authentication cookie is being refreshed.                     *)
(*                                                                         *)
(* Everything runs on the GUI thread except the OPAQUE and TPM steps, that *)
(* run on workers; requests travel in parallel and are answered in any     *)
(* order.  A cookie is either the one the server accepts or it is not: the *)
(* jar, the reply of a refresh and each request on its way hold one.       *)
(***************************************************************************)
EXTENDS Naturals

CONSTANT Requests       \* requests of the application, once logged in

VARIABLES
    page,               \* the window AppController shows
    loading,            \* LoadingButton::m_loading of the two buttons
    opaque,             \* the flow m_opaqueClient was made for, or "none"
    flow,               \* how far the registration and the login are
    binder,             \* m_deviceBinder is set
    isLoggedIn,         \* ClientAuth::m_isLoggedIn
    isRefreshing,       \* ClientAuth::m_isRefreshing
    refresh,            \* refreshes under way, at each of their steps
    pendingRequests,    \* ServerSession::m_pendingRequests
    place,              \* where a request is
    status,             \* what the reply of a request says
    fresh,              \* the requests whose cookie the server accepts
    jar,                \* the client's cookie is the one the server accepts
    reply,              \* ... and so is the cookie in the refresh's reply
    session,            \* the server's session is authenticated
    executed,           \* how often the server ran a request
    calls,              \* how often the callback of a request was called
    outcome             \* what the callback was last told

flowVars == <<page, loading, opaque, flow, binder, isLoggedIn>>
refreshVars == <<isRefreshing, refresh>>
cookieVars == <<fresh, jar, reply, session>>
requestVars == <<pendingRequests, place, status, executed, calls, outcome>>
vars == <<flowVars, refreshVars, cookieVars, requestVars>>

Flows == {"registration", "login"}
Stages == {"idle", "startComputing", "starting", "finishComputing", "finishing"}
Computing == {"startComputing", "finishComputing"}
RefreshSteps == {"challenge", "signing", "proved", "unproved", "rotated"}
Places == {"idle", "sent", "answered", "parked", "returned"}

P == INSTANCE RequestPromise WITH
        issued <- {r \in Requests : place[r] # "idle"}

Init ==
    /\ page = "welcome"
    /\ loading = [f \in Flows |-> FALSE]
    /\ opaque = "none"
    /\ flow = [f \in Flows |-> "idle"]
    /\ binder = FALSE
    /\ isLoggedIn = FALSE
    /\ isRefreshing = FALSE
    /\ refresh = [s \in RefreshSteps |-> 0]
    /\ pendingRequests = {}
    /\ place = [r \in Requests |-> "idle"]
    /\ status = [r \in Requests |-> "none"]
    /\ fresh = {}
    /\ jar = FALSE
    /\ reply = FALSE
    /\ session = FALSE
    /\ executed = [r \in Requests |-> 0]
    /\ calls = [r \in Requests |-> 0]
    /\ outcome = [r \in Requests |-> "pending"]
-----------------------------------------------------------------------------
(* A click on a button that is not loading.  LoginWidget validates, then   *)
(* AppController, and ClientAuth refuses a flow while a client exists: all *)
(* of them stop the button again before the click returns.                 *)
Click(f) == page = "welcome" /\ ~loading[f]

ClickRefused(f) ==
    /\ Click(f)
    /\ UNCHANGED vars

StartFlow(f) ==
    /\ loading' = [loading EXCEPT ![f] = TRUE]
    /\ opaque' = f
    /\ flow' = [flow EXCEPT ![f] = "startComputing"]
    /\ UNCHANGED <<page, isLoggedIn, refreshVars, cookieVars, requestVars>>

StartRegistration == StartFlow("registration") /\ UNCHANGED binder

StartLogin ==
    /\ StartFlow("login")
    /\ binder' \in BOOLEAN      \* DeviceBinder::create may find no TPM

RegisterUser ==
    /\ Click("registration") /\ opaque = "none"
    /\ StartRegistration

(* Mutant of LoginUser: no look at m_opaqueClient.                         *)
LoginUserUnguarded ==
    /\ Click("login")
    /\ StartLogin

LoginUser ==
    /\ Click("login") /\ opaque = "none"
    /\ StartLogin

OnRegisterFailed ==
    /\ opaque' = "none"
    /\ flow' = [flow EXCEPT !["registration"] = "idle"]
    /\ loading' = [loading EXCEPT !["registration"] = FALSE]
    /\ UNCHANGED <<page, binder, isLoggedIn, jar, session>>

(* Mutant of OnLoginFailed: loginFailed is not emitted.                    *)
OnLoginFailedSilent ==
    /\ opaque' = "none"
    /\ flow' = [flow EXCEPT !["login"] = "idle"]
    /\ binder' = FALSE
    /\ UNCHANGED <<page, loading, isLoggedIn, jar, session>>

OnLoginFailed ==
    /\ opaque' = "none"
    /\ flow' = [flow EXCEPT !["login"] = "idle"]
    /\ binder' = FALSE
    /\ loading' = [loading EXCEPT !["login"] = FALSE]
    /\ UNCHANGED <<page, isLoggedIn, jar, session>>

FlowGoesOn(f, to) ==
    /\ flow' = [flow EXCEPT ![f] = to]
    /\ UNCHANGED <<page, loading, opaque, binder, isLoggedIn, jar, session>>

FlowStep(f, from) ==
    /\ flow[f] = from
    /\ UNCHANGED <<refreshVars, requestVars, fresh, reply>>

(* The worker threw, or the request goes out.                              *)
OnRegisterStartComputed ==
    /\ FlowStep("registration", "startComputing")
    /\ FlowGoesOn("registration", "starting") \/ OnRegisterFailed

OnLoginStartComputed ==
    /\ FlowStep("login", "startComputing")
    /\ FlowGoesOn("login", "starting") \/ OnLoginFailed

(* An error or an answer without data, or the next worker starts.          *)
OnRegistrationStartResponse ==
    /\ FlowStep("registration", "starting")
    /\ FlowGoesOn("registration", "finishComputing") \/ OnRegisterFailed

OnLoginStartResponse ==
    /\ FlowStep("login", "starting")
    /\ FlowGoesOn("login", "finishComputing") \/ OnLoginFailed

(* The account key may also fail to be made and exported; an empty login   *)
(* message is a wrong password.                                            *)
OnRegisterFinishComputed ==
    /\ FlowStep("registration", "finishComputing")
    /\ FlowGoesOn("registration", "finishing") \/ OnRegisterFailed

OnLoginFinishComputed ==
    /\ FlowStep("login", "finishComputing")
    /\ FlowGoesOn("login", "finishing") \/ OnLoginFailed

OnRegisterFinishResponse ==
    /\ FlowStep("registration", "finishing")
    /\ \/ OnRegisterFailed              \* onRegistrationSuccess stops the
       \/ /\ opaque' = "none"           \* button and resets the client too
          /\ flow' = [flow EXCEPT !["registration"] = "idle"]
          /\ loading' = [loading EXCEPT !["registration"] = FALSE]
          /\ UNCHANGED <<page, binder, isLoggedIn, jar, session>>

(* m_opaqueClient is kept after a login; the vault page takes over.        *)
OnLoginSuccess ==
    /\ flow' = [flow EXCEPT !["login"] = "idle"]
    /\ loading' = [loading EXCEPT !["login"] = FALSE]
    /\ page' = "vault"
    /\ isLoggedIn' = TRUE
    /\ jar' = TRUE /\ session' = TRUE
    /\ UNCHANGED <<opaque, binder>>

OnLoginFinishResponse ==
    /\ FlowStep("login", "finishing")
    /\ OnLoginFailed \/ OnLoginSuccess
-----------------------------------------------------------------------------
(* A request leaves with the cookie of the jar.                            *)
Leave(R) ==
    /\ place' = [r \in Requests |-> IF r \in R THEN "sent" ELSE place[r]]
    /\ fresh' = IF jar THEN fresh \cup R ELSE fresh \ R

SendRequest(r) ==
    /\ isLoggedIn /\ place[r] = "idle"
    /\ Leave({r})
    /\ UNCHANGED <<flowVars, refreshVars, jar, reply, session, pendingRequests,
                   status, executed, calls, outcome>>

(* AuthFilter lets a request in with the right cookie; the handler, or the *)
(* network before or behind it, may fail.                                  *)
ServerAnswers(r) ==
    /\ place[r] = "sent"
    /\ place' = [place EXCEPT ![r] = "answered"]
    /\ \/ /\ r \in fresh
          /\ executed' = [executed EXCEPT ![r] = @ + 1]
          /\ \E s \in {"ok", "failed"} : status' = [status EXCEPT ![r] = s]
       \/ /\ r \notin fresh
          /\ status' = [status EXCEPT ![r] = "unauthorized"]
          /\ UNCHANGED executed
       \/ /\ status' = [status EXCEPT ![r] = "failed"]
          /\ UNCHANGED executed
    /\ UNCHANGED <<flowVars, refreshVars, cookieVars, pendingRequests, calls,
                   outcome>>

(* mapNetworkError, as far as callers are told something different.        *)
MapNetworkError(s) ==
    CASE s = "ok" -> "none"
      [] s = "unauthorized" -> "unauthorized"
      [] OTHER -> "failed"

Callback(R, o) ==
    /\ place' = [r \in Requests |-> IF r \in R THEN "returned" ELSE place[r]]
    /\ calls' = [r \in Requests |-> IF r \in R THEN calls[r] + 1 ELSE calls[r]]
    /\ outcome' = [r \in Requests |-> IF r \in R THEN o ELSE outcome[r]]

RefreshAt(s) == [refresh EXCEPT ![s] = @ + 1]

(* With a device binder the refresh starts with a challenge to sign.       *)
RefreshAuthentication ==
    /\ isRefreshing' = TRUE
    /\ refresh' = RefreshAt(IF binder THEN "challenge" ELSE "proved")

(* Mutant of OnResponseMessage: any error waits for a refresh.             *)
OnResponseMessageAnyError(r) ==
    /\ place[r] = "answered"
    /\ IF status[r] # "ok" /\ isLoggedIn
       THEN /\ pendingRequests' = pendingRequests \cup {r}
            /\ place' = [place EXCEPT ![r] = "parked"]
            /\ IF isRefreshing THEN UNCHANGED refreshVars
               ELSE RefreshAuthentication
            /\ UNCHANGED <<calls, outcome>>
       ELSE /\ Callback({r}, MapNetworkError(status[r]))
            /\ UNCHANGED <<pendingRequests, refreshVars>>
    /\ UNCHANGED <<flowVars, cookieVars, status, executed>>

(* Requests of the application carry no authRefreshAttempted flag, and     *)
(* keep none when they are sent again.                                     *)
OnResponseMessage(r) ==
    /\ place[r] = "answered"
    /\ IF status[r] = "unauthorized" /\ isLoggedIn
       THEN /\ pendingRequests' = pendingRequests \cup {r}
            /\ place' = [place EXCEPT ![r] = "parked"]
            /\ IF isRefreshing THEN UNCHANGED refreshVars
               ELSE RefreshAuthentication
            /\ UNCHANGED <<calls, outcome>>
       ELSE /\ Callback({r}, MapNetworkError(status[r]))
            /\ UNCHANGED <<pendingRequests, refreshVars>>
    /\ UNCHANGED <<flowVars, cookieVars, status, executed>>
-----------------------------------------------------------------------------
(* A refresh moves on, or ends.                                            *)
RefreshStep(from) ==
    /\ refresh[from] > 0
    /\ UNCHANGED <<flowVars, status, executed>>

RefreshGoesOn(from, to) ==
    /\ refresh' = [refresh EXCEPT ![from] = @ - 1, ![to] = @ + 1]
    /\ UNCHANGED <<isRefreshing, pendingRequests, place, calls, outcome>>

RefreshEnds(from) ==
    /\ refresh' = [refresh EXCEPT ![from] = @ - 1]
    /\ isRefreshing' = FALSE
    /\ pendingRequests' = {}

(* Mutant of RefreshFailed: the queue is not cleared.                      *)
RefreshFailedKeepsQueue(from) ==
    /\ refresh' = [refresh EXCEPT ![from] = @ - 1]
    /\ isRefreshing' = FALSE
    /\ Callback(pendingRequests, "unauthorized")
    /\ UNCHANGED <<pendingRequests, fresh>>

(* Every request in the queue is told so.                                  *)
RefreshFailed(from) ==
    /\ RefreshEnds(from)
    /\ Callback(pendingRequests, "unauthorized")
    /\ UNCHANGED fresh

(* Mutant of AuthTokenRefreshed: the queue is cleared, nothing is resent.  *)
AuthTokenRefreshedDrops(from) ==
    /\ RefreshEnds(from)
    /\ UNCHANGED <<place, fresh, calls, outcome>>

(* Every request in the queue is sent again, with the new cookie.          *)
AuthTokenRefreshed(from) ==
    /\ RefreshEnds(from)
    /\ place' = [r \in Requests |->
                    IF r \in pendingRequests THEN "sent" ELSE place[r]]
    /\ fresh' = IF reply THEN fresh \cup pendingRequests
                ELSE fresh \ pendingRequests
    /\ UNCHANGED <<calls, outcome>>

(* Mutant of OnGetChallengeResponse: an error only returns.                *)
OnGetChallengeResponseReturns ==
    /\ RefreshStep("challenge")
    /\ \/ RefreshGoesOn("challenge", "signing") /\ UNCHANGED fresh
       \/ /\ refresh' = [refresh EXCEPT !["challenge"] = @ - 1]
          /\ UNCHANGED <<isRefreshing, pendingRequests, place, calls, outcome,
                         fresh>>
    /\ UNCHANGED <<jar, reply, session>>

(* The server never answers 401 here: without a session there is no        *)
(* challenge (400), and a locked session is 423.                           *)
OnGetChallengeResponse ==
    /\ RefreshStep("challenge")
    /\ \/ RefreshGoesOn("challenge", "signing") /\ session /\ UNCHANGED fresh
       \/ RefreshFailed("challenge")
    /\ UNCHANGED <<jar, reply, session>>

(* A signature that fails is no signature: the refresh is posted without   *)
(* proof.  (No provider returns an empty signature.)                       *)
OnRefreshComputed ==
    /\ RefreshStep("signing")
    /\ \/ RefreshGoesOn("signing", "proved")
       \/ RefreshGoesOn("signing", "unproved")
    /\ UNCHANGED cookieVars

(* The server rotates the cookie: no copy of the old one is good any more. *)
ServerRotates ==
    /\ RefreshStep("proved") /\ session
    /\ RefreshGoesOn("proved", "rotated")
    /\ fresh' = {} /\ jar' = FALSE /\ reply' = TRUE
    /\ UNCHANGED session

(* The refresh is refused or fails on its way there or back, or the reply  *)
(* brings the new cookie.  401 is no reason to refresh here: the request   *)
(* carries authRefreshAttempted.                                           *)
OnRefreshResponse ==
    \/ \E s \in {"proved", "unproved", "rotated"} :
          /\ RefreshStep(s) /\ RefreshFailed(s)
          /\ reply' = FALSE
          /\ UNCHANGED <<jar, session>>
    \/ /\ RefreshStep("rotated") /\ AuthTokenRefreshed("rotated")
       /\ jar' = reply /\ reply' = FALSE
       /\ UNCHANGED session
-----------------------------------------------------------------------------
(* The server's cookie cache drops the cookie; the session may end too.    *)
CookieExpires ==
    /\ jar \/ reply \/ session
    /\ fresh' = {} /\ jar' = FALSE /\ reply' = FALSE
    /\ session' \in {FALSE, session}
    /\ UNCHANGED <<flowVars, refreshVars, requestVars>>

FlowHandler ==
    \/ OnRegisterStartComputed \/ OnRegistrationStartResponse
    \/ OnRegisterFinishComputed \/ OnRegisterFinishResponse
    \/ OnLoginStartComputed \/ OnLoginStartResponse
    \/ OnLoginFinishComputed \/ OnLoginFinishResponse

RefreshHandler ==
    \/ OnGetChallengeResponse \/ OnRefreshComputed
    \/ ServerRotates \/ OnRefreshResponse

Next ==
    \/ \E f \in Flows : ClickRefused(f)
    \/ RegisterUser \/ LoginUser
    \/ FlowHandler
    \/ \E r \in Requests :
          SendRequest(r) \/ ServerAnswers(r) \/ OnResponseMessage(r)
    \/ RefreshHandler
    \/ CookieExpires

(* Workers end, the server answers or the connection breaks (no transfer   *)
(* timeout is set: this is assumed), and the event loop runs.              *)
Fairness ==
    /\ WF_vars(FlowHandler) /\ WF_vars(RefreshHandler)
    /\ \A r \in Requests :
          WF_vars(ServerAnswers(r)) /\ WF_vars(OnResponseMessage(r))

Spec == Init /\ [][Next]_vars /\ Fairness
-----------------------------------------------------------------------------
TypeOK ==
    /\ page \in {"welcome", "vault"}
    /\ loading \in [Flows -> BOOLEAN]
    /\ opaque \in Flows \cup {"none"}
    /\ flow \in [Flows -> Stages]
    /\ binder \in BOOLEAN /\ isLoggedIn \in BOOLEAN /\ isRefreshing \in BOOLEAN
    /\ refresh \in [RefreshSteps -> Nat]
    /\ pendingRequests \in SUBSET Requests
    /\ place \in [Requests -> Places]
    /\ status \in [Requests -> {"none", "ok", "unauthorized", "failed"}]
    /\ fresh \in SUBSET Requests
    /\ jar \in BOOLEAN /\ reply \in BOOLEAN /\ session \in BOOLEAN
    /\ executed \in [Requests -> {0, 1}]
    /\ calls \in [Requests -> {0, 1}]
    /\ outcome \in [Requests -> P!Outcomes]

(* A refresh is at one step and no other, as long as the flag says one is  *)
(* under way; and a request waits only for a refresh that is.  Otherwise   *)
(* it would wait for ever, with every request after it.                    *)
RefreshIsAt(s) == refresh = [t \in RefreshSteps |-> IF t = s THEN 1 ELSE 0]

PendingAwaitRefresh ==
    /\ IF isRefreshing THEN \E s \in RefreshSteps : RefreshIsAt(s)
       ELSE RefreshIsAt("none")
    /\ pendingRequests = {r \in Requests : place[r] = "parked"}
    /\ pendingRequests # {} => isRefreshing

(* A worker computes on the OPAQUE client, or the device binder, of its    *)
(* own flow: neither is reset or replaced by another flow meanwhile.       *)
WorkerOwnsClient ==
    /\ \A f \in Flows : flow[f] \in Computing => opaque = f
    /\ refresh["signing"] > 0 => binder

(* The callback of a request is called once, the server runs it once at    *)
(* most though it may be sent again, and the outcome is true.              *)
ImplementsRequests == P!Spec

(* Every click on a button of the welcome page is answered in the end:     *)
(* the button stops loading.                                               *)
ClickAnswered == \A f \in Flows : loading[f] ~> ~loading[f]

(* A request sent is answered, unless cookies are rotated for ever: then   *)
(* two requests may go on outdating each other's cookie.                   *)
Rotation == ~reply /\ reply'

AnsweredOnceQuiet ==
    <>[][~Rotation]_vars =>
        \A r \in Requests : place[r] = "sent" ~> calls[r] > 0
=============================================================================

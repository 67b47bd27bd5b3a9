--------------------------- MODULE AuthController ---------------------------
(***************************************************************************)
(* server/src/controllers/AuthController.cpp: the registration and login   *)
(* flows of one HTTP session, with the OPAQUE step machine of              *)
(* services/OpaqueService.cpp and the statements of dao/UserDao.cpp.       *)
(*                                                                         *)
(* A flow is two requests: `start' leaves a context in a cache under the   *)
(* session's id, `finish' takes it out.  The handlers are coroutines that  *)
(* wait for the database, and their caches are shared with every other     *)
(* handler of the session; the session lock is what keeps two handlers     *)
(* apart, and SessionLock.tla shows when it does not.  Here any request    *)
(* may take the lock over, at any time; the properties say what that costs.*)
(*                                                                         *)
(* A context is named after the request that started it.  A client's       *)
(* finish message is named after the start answer it was computed from:    *)
(* it stands for the OPAQUE message, made with the right password, and the *)
(* device proof; Null is any other message.                                *)
(***************************************************************************)
EXTENDS Naturals

CONSTANTS
    Requests,       \* requests sent on the session
    Users,          \* user names; a user's id goes by the name
    Null            \* no request, no context, the null uuid, a bad message

ASSUME AuthAssumption == Null \notin Requests /\ Null \notin Users

VARIABLES
    accounts,       \* the users table: the registration a name's row is of
    account,        \* the user the session is authenticated as, or Null
    regCache,       \* m_registrationCache at this session's id
    loginCache,     \* m_loginCache at this session's id
    step,           \* OpaqueContext::m_currentStep of each context
    pc,             \* the progress, and in the end the answer, of a request
    user,           \* the user of a start, and then of its context
    msg,            \* the message of a finish
    took,           \* the context a finish has fetched
    last,           \* history: the request let in last
    prev,           \* history: for each request, the one let in before it
    overlapped,     \* history: requests that ran while another one did
    raced,          \* history: finishes in the OPAQUE call of one context
    timedOut,       \* history: contexts a cache dropped after 300 s
    before,         \* history: login flows started before a logout began
    ended           \* history: login flows started before an answered logout

dbVars == <<accounts>>
flowVars == <<regCache, loginCache, step>>
reqVars == <<user, msg, took>>
lockHist == <<last, prev, overlapped, raced>>
admitHist == <<last, prev, overlapped>>
logoutHist == <<timedOut, before, ended>>
vars == <<accounts, account, regCache, loginCache, step, pc, user, msg,
          took, last, prev, overlapped, raced, timedOut, before, ended>>

Elsewhere == "elsewhere"    \* a registration of another session

Steps == {"none", "registrationStarted", "registrationFinished",
          "loginStarted", "loginFinished", "failed"}
StartLoginPC == {"startLogin", "credentials", "resumed", "loginContext"}
Running == StartLoginPC \cup
    {"startRegister", "registering", "registerContext",
     "finishRegister", "registrationFetched", "registrationTaken",
     "opaqueRegister", "registerInvalid", "insert",
     "finishLogin", "loginFetched", "loginTaken", "opaqueLogin", "accountKey",
     "logout", "logoutLogin", "logoutSession"}
Answers == {"registerStarted", "loginStarted", "registered", "loggedIn",
            "loggedOut", "refused", "registerRefused", "loginRefused",
            "conflict", "error"}

IsRunning(r) == pc[r] \in Running

Goto(r, from, to) ==
    /\ pc[r] = from
    /\ pc' = [pc EXCEPT ![r] = to]

SetStep(c, s) == step' = [step EXCEPT ![c] = s]
-----------------------------------------------------------------------------
Init ==
    /\ accounts \in [Users -> {Null, Elsewhere}]
    /\ account = Null
    /\ regCache = Null
    /\ loginCache = Null
    /\ step = [r \in Requests |-> "none"]
    /\ pc = [r \in Requests |-> "idle"]
    /\ user = [r \in Requests |-> Null]
    /\ msg = [r \in Requests |-> Null]
    /\ took = [r \in Requests |-> Null]
    /\ last = Null
    /\ prev = [r \in Requests |-> Null]
    /\ overlapped = {}
    /\ raced = {}
    /\ timedOut = {}
    /\ before = [r \in Requests |-> {}]
    /\ ended = {}

(* The lock lets a request in, whether or not another one still runs.      *)
Admit(r, handler) ==
    /\ pc[r] = "idle"
    /\ pc' = [pc EXCEPT ![r] = handler]
    /\ last' = r
    /\ prev' = [prev EXCEPT ![r] = last]
    /\ LET others == {q \in Requests : IsRunning(q)} IN
        overlapped' = IF others = {} THEN overlapped
                      ELSE overlapped \cup others \cup {r}
    /\ UNCHANGED <<dbVars, account, flowVars, took, raced, timedOut, ended>>

AdmitStart(r) ==
    /\ \E handler \in {"startRegister", "startLogin"} : Admit(r, handler)
    /\ \E u \in Users : user' = [user EXCEPT ![r] = u]
    /\ UNCHANGED <<msg, before>>

AdmitFinish(r) ==
    /\ \E handler \in {"finishRegister", "finishLogin"} : Admit(r, handler)
    /\ \E m \in {q \in Requests : pc[q] \in {"registerStarted", "loginStarted"}}
                \cup {Null} : msg' = [msg EXCEPT ![r] = m]
    /\ UNCHANGED <<user, before>>

AdmitLogout(r) ==
    /\ Admit(r, "logout")
    /\ before' = [before EXCEPT ![r] =
            {q \in Requests : pc[q] \in StartLoginPC \cup {"loginStarted"}}]
    /\ UNCHANGED <<user, msg>>
-----------------------------------------------------------------------------
(* startRegister: the old context goes, the body is read and validated, a  *)
(* new context takes its place, OPAQUE answers.  If OPAQUE fails, the      *)
(* failed context stays.                                                   *)
RemoveRegistration(r) ==
    /\ Goto(r, "startRegister", "registering")
    /\ regCache' = Null
    /\ UNCHANGED <<dbVars, account, loginCache, step, reqVars, lockHist,
                   logoutHist>>

RegistrationInvalid(r) ==
    /\ Goto(r, "registering", "refused")
    /\ UNCHANGED <<dbVars, account, flowVars, reqVars, lockHist, logoutHist>>

CreateRegistration(r) ==
    /\ Goto(r, "registering", "registerContext")
    /\ regCache' = r
    /\ UNCHANGED <<dbVars, account, loginCache, step, reqVars, lockHist,
                   logoutHist>>

StartRegistration(r) ==
    /\ \/ /\ Goto(r, "registerContext", "registerStarted")
          /\ SetStep(r, "registrationStarted")
       \/ /\ Goto(r, "registerContext", "refused")
          /\ SetStep(r, "failed")
    /\ UNCHANGED <<dbVars, account, regCache, loginCache, reqVars, lockHist,
                   logoutHist>>

(* finishRegister: takeRegistrationContext is a lookup and then an erase   *)
(* of whatever is in the cache by then.                                    *)
FetchRegistration(r) ==
    /\ IF regCache = Null THEN Goto(r, "finishRegister", "registerRefused")
       ELSE Goto(r, "finishRegister", "registrationFetched")
    /\ took' = [took EXCEPT ![r] = regCache]
    /\ UNCHANGED <<dbVars, account, flowVars, user, msg, lockHist, logoutHist>>

EraseRegistration(r) ==
    /\ Goto(r, "registrationFetched", "registrationTaken")
    /\ regCache' = Null
    /\ UNCHANGED <<dbVars, account, loginCache, step, reqVars, lockHist,
                   logoutHist>>

(* m_currentStep is tested before the OPAQUE call and written after it, by  *)
(* no lock: the finishes of one context that are in the call together.     *)
EnterOpaque(r, from, call) ==
    /\ Goto(r, from, call)
    /\ LET beside == {q \in Requests \ {r} : pc[q] = call /\ took[q] = took[r]} IN
        raced' = IF beside = {} THEN raced ELSE raced \cup beside \cup {r}

(* finishRegistration up to the call: an unreadable body, the step's test. *)
FinishRegistration(r) ==
    /\ pc[r] = "registrationTaken"
    /\ \/ /\ msg[r] = Null
          /\ Goto(r, "registrationTaken", "registerRefused")
          /\ UNCHANGED raced
       \/ /\ step[took[r]] = "registrationStarted"
          /\ EnterOpaque(r, "registrationTaken", "opaqueRegister")
       \/ /\ step[took[r]] # "registrationStarted"
          /\ Goto(r, "registrationTaken", "registerInvalid")
          /\ UNCHANGED raced
    /\ UNCHANGED <<dbVars, account, flowVars, reqVars, admitHist, logoutHist>>

RegisterInvalid(r) ==
    /\ Goto(r, "registerInvalid", "error")
    /\ SetStep(took[r], "failed")
    /\ UNCHANGED <<dbVars, account, regCache, loginCache, reqVars, lockHist,
                   logoutHist>>

(* OPAQUE takes any well-formed record for the context's user.  What two   *)
(* calls on one context at once do to each other is not defined.           *)
OpaqueRegister(r) ==
    /\ \/ /\ msg[r] # Null
          /\ Goto(r, "opaqueRegister", "insert")
          /\ SetStep(took[r], "registrationFinished")
       \/ /\ msg[r] = Null \/ r \in raced
          /\ Goto(r, "opaqueRegister", "registerRefused")
          /\ SetStep(took[r], "failed")
    /\ UNCHANGED <<dbVars, account, regCache, loginCache, reqVars, lockHist,
                   logoutHist>>

(* Mutant of InsertUser: a row left alone counts as one inserted.          *)
InsertUserOrNothing(r) ==
    LET u == user[took[r]] IN
    /\ Goto(r, "insert", "registered")
    /\ accounts' = IF accounts[u] = Null THEN [accounts EXCEPT ![u] = took[r]]
                   ELSE accounts
    /\ UNCHANGED <<account, flowVars, reqVars, lockHist, logoutHist>>

(* createUser: the INSERT under the unique name, and its answer.  A broken *)
(* connection reads as a conflict, whether or not the row went in.         *)
InsertUser(r) ==
    LET u == user[took[r]] IN
    /\ pc[r] = "insert"
    /\ \/ /\ accounts[u] = Null
          /\ accounts' = [accounts EXCEPT ![u] = took[r]]
          /\ \/ Goto(r, "insert", "registered")
             \/ Goto(r, "insert", "conflict")
       \/ /\ Goto(r, "insert", "conflict")
          /\ UNCHANGED accounts
    /\ UNCHANGED <<account, flowVars, reqVars, lockHist, logoutHist>>
-----------------------------------------------------------------------------
(* startLogin: the old context goes; the user's credentials come from the  *)
(* database; for an unknown user the context has the null id; OPAQUE       *)
(* answers.  A bad device key leaves the context without OPAQUE state; if  *)
(* OPAQUE fails, whatever is in the cache is removed.                      *)
RemoveLogin(r) ==
    /\ \/ Goto(r, "startLogin", "credentials")
       \/ Goto(r, "startLogin", "refused")
    /\ loginCache' = Null
    /\ UNCHANGED <<dbVars, account, regCache, step, reqVars, lockHist,
                   logoutHist>>

ReadCredentials(r) ==
    /\ Goto(r, "credentials", "resumed")
    /\ user' = IF accounts[user[r]] = Null THEN [user EXCEPT ![r] = Null]
               ELSE user
    /\ UNCHANGED <<dbVars, account, flowVars, msg, took, lockHist, logoutHist>>

CredentialsFail(r) ==
    /\ Goto(r, "credentials", "error")
    /\ UNCHANGED <<dbVars, account, flowVars, reqVars, lockHist, logoutHist>>

CreateLogin(r) ==
    /\ Goto(r, "resumed", "loginContext")
    /\ loginCache' = r
    /\ UNCHANGED <<dbVars, account, regCache, step, reqVars, lockHist,
                   logoutHist>>

(* Mutant of StartLogin: the clean-up is not only that of a failure.       *)
StartLoginCleansUp(r) ==
    /\ Goto(r, "loginContext", "loginStarted")
    /\ SetStep(r, "loginStarted")
    /\ loginCache' = Null
    /\ UNCHANGED <<dbVars, account, regCache, reqVars, lockHist, logoutHist>>

StartLogin(r) ==
    /\ \/ /\ Goto(r, "loginContext", "loginStarted")
          /\ SetStep(r, "loginStarted")
          /\ UNCHANGED loginCache
       \/ /\ Goto(r, "loginContext", "refused")
          /\ UNCHANGED <<loginCache, step>>
       \/ /\ Goto(r, "loginContext", "refused")
          /\ SetStep(r, "failed")
          /\ loginCache' = Null
    /\ UNCHANGED <<dbVars, account, regCache, reqVars, lockHist, logoutHist>>

(* finishLogin: takeLoginContext, the checks, the account key from the     *)
(* database, and SessionService::authenticate.                             *)
FetchLogin(r) ==
    /\ IF loginCache = Null THEN Goto(r, "finishLogin", "loginRefused")
       ELSE Goto(r, "finishLogin", "loginFetched")
    /\ took' = [took EXCEPT ![r] = loginCache]
    /\ UNCHANGED <<dbVars, account, flowVars, user, msg, lockHist, logoutHist>>

EraseLogin(r) ==
    /\ Goto(r, "loginFetched", "loginTaken")
    /\ loginCache' = Null
    /\ UNCHANGED <<dbVars, account, regCache, step, reqVars, lockHist,
                   logoutHist>>

LoginRejected(r) ==
    LET c == took[r] IN
    /\ pc[r] = "loginTaken"
    /\ \/ /\ user[c] = Null
          /\ Goto(r, "loginTaken", "error")
       \/ /\ user[c] # Null /\ msg[r] = Null    \* unreadable
          /\ Goto(r, "loginTaken", "loginRefused")
       \/ /\ user[c] # Null /\ step[c] # "loginStarted"
          /\ Goto(r, "loginTaken", "error")
    /\ UNCHANGED <<dbVars, account, flowVars, reqVars, lockHist, logoutHist>>

(* Mutant of FinishLogin: OPAQUE does not check its step.                  *)
FinishLoginAnyStep(r) ==
    /\ pc[r] = "loginTaken" /\ user[took[r]] # Null
    /\ EnterOpaque(r, "loginTaken", "opaqueLogin")
    /\ UNCHANGED <<dbVars, account, flowVars, reqVars, admitHist, logoutHist>>

(* OpaqueContext::finishLogin up to the call: the step's test passes.      *)
FinishLogin(r) ==
    /\ pc[r] = "loginTaken"
    /\ user[took[r]] # Null /\ step[took[r]] = "loginStarted"
    /\ EnterOpaque(r, "loginTaken", "opaqueLogin")
    /\ UNCHANGED <<dbVars, account, flowVars, reqVars, admitHist, logoutHist>>

(* The call, the write of the step, and the device's proof.  Beside another*)
(* finish of the context anything may come out, but no other context's     *)
(* message passes; the proof is not asked for once the other finish has    *)
(* moved deviceBound away.                                                 *)
OpaqueLogin(r) ==
    LET c == took[r] IN
    /\ \/ /\ msg[r] = c \/ (msg[r] = Null /\ r \in raced)
          /\ Goto(r, "opaqueLogin", "accountKey")
          /\ SetStep(c, "loginFinished")
       \/ /\ msg[r] # c \/ r \in raced
          /\ Goto(r, "opaqueLogin", "loginRefused")
          /\ SetStep(c, "failed")
       \/ /\ msg[r] = Null \/ (msg[r] = c /\ r \in raced)   \* the proof fails
          /\ Goto(r, "opaqueLogin", "loginRefused")
          /\ SetStep(c, "loginFinished")
    /\ UNCHANGED <<dbVars, account, regCache, loginCache, reqVars, lockHist,
                   logoutHist>>

(* No account key, or no session key: another finish has spoilt the step.  *)
AccountKeyFails(r) ==
    /\ Goto(r, "accountKey", "error")
    /\ UNCHANGED <<dbVars, account, flowVars, reqVars, lockHist, logoutHist>>

(* Mutant of Authenticate: the context's own key in place of its user's id *)
AuthenticateContext(r) ==
    /\ Goto(r, "accountKey", "loggedIn")
    /\ step[took[r]] = "loginFinished"
    /\ account' = took[r]
    /\ UNCHANGED <<dbVars, flowVars, reqVars, lockHist, logoutHist>>

Authenticate(r) ==
    /\ Goto(r, "accountKey", "loggedIn")
    /\ step[took[r]] = "loginFinished"      \* getSessionKey
    /\ account' = user[took[r]]
    /\ UNCHANGED <<dbVars, flowVars, reqVars, lockHist, logoutHist>>
-----------------------------------------------------------------------------
(* logout: both contexts go, then SessionService::deauthenticate.          *)
LogoutRegistration(r) ==
    /\ Goto(r, "logout", "logoutLogin")
    /\ regCache' = Null
    /\ UNCHANGED <<dbVars, account, loginCache, step, reqVars, lockHist,
                   logoutHist>>

(* Mutant of LogoutLogin: the login context is forgotten.                  *)
LogoutKeepsLogin(r) ==
    /\ Goto(r, "logoutLogin", "logoutSession")
    /\ UNCHANGED <<dbVars, account, flowVars, reqVars, lockHist, logoutHist>>

LogoutLogin(r) ==
    /\ Goto(r, "logoutLogin", "logoutSession")
    /\ loginCache' = Null
    /\ UNCHANGED <<dbVars, account, regCache, step, reqVars, lockHist,
                   logoutHist>>

Deauthenticate(r) ==
    /\ Goto(r, "logoutSession", "loggedOut")
    /\ account' = Null
    /\ ended' = ended \cup before[r]
    /\ UNCHANGED <<dbVars, flowVars, reqVars, lockHist, timedOut, before>>
-----------------------------------------------------------------------------
(* A cache drops a context 300 s after it was put there.                   *)
ContextTimeout ==
    /\ \/ /\ regCache # Null
          /\ regCache' = Null /\ timedOut' = timedOut \cup {regCache}
          /\ UNCHANGED loginCache
       \/ /\ loginCache # Null
          /\ loginCache' = Null /\ timedOut' = timedOut \cup {loginCache}
          /\ UNCHANGED regCache
    /\ UNCHANGED <<dbVars, account, step, pc, reqVars, lockHist, before, ended>>

(* Another session registers a name.                                       *)
RegisterElsewhere(u) ==
    /\ accounts[u] = Null
    /\ accounts' = [accounts EXCEPT ![u] = Elsewhere]
    /\ UNCHANGED <<account, flowVars, pc, reqVars, lockHist, logoutHist>>

Handler(r) ==
    \/ RemoveRegistration(r) \/ RegistrationInvalid(r)
    \/ CreateRegistration(r) \/ StartRegistration(r)
    \/ FetchRegistration(r) \/ EraseRegistration(r)
    \/ FinishRegistration(r) \/ RegisterInvalid(r) \/ OpaqueRegister(r)
    \/ InsertUser(r)
    \/ RemoveLogin(r) \/ ReadCredentials(r) \/ CredentialsFail(r)
    \/ CreateLogin(r) \/ StartLogin(r)
    \/ FetchLogin(r) \/ EraseLogin(r) \/ LoginRejected(r) \/ FinishLogin(r)
    \/ OpaqueLogin(r) \/ AccountKeyFails(r) \/ Authenticate(r)
    \/ LogoutRegistration(r) \/ LogoutLogin(r) \/ Deauthenticate(r)

Next ==
    \/ \E r \in Requests :
          AdmitStart(r) \/ AdmitFinish(r) \/ AdmitLogout(r) \/ Handler(r)
    \/ ContextTimeout
    \/ \E u \in Users : RegisterElsewhere(u)

Spec == Init /\ [][Next]_vars
-----------------------------------------------------------------------------
TypeOK ==
    /\ accounts \in [Users -> Requests \cup {Null, Elsewhere}]
    /\ account \in Users \cup {Null}
    /\ regCache \in Requests \cup {Null}
    /\ loginCache \in Requests \cup {Null}
    /\ step \in [Requests -> Steps]
    /\ pc \in [Requests -> {"idle"} \cup Running \cup Answers]
    /\ user \in [Requests -> Users \cup {Null}]
    /\ msg \in [Requests -> Requests \cup {Null}]
    /\ took \in [Requests -> Requests \cup {Null}]
    /\ last \in Requests \cup {Null}
    /\ prev \in [Requests -> Requests \cup {Null}]
    /\ overlapped \in SUBSET Requests
    /\ raced \in SUBSET Requests
    /\ timedOut \in SUBSET Requests
    /\ before \in [Requests -> SUBSET Requests]
    /\ ended \in SUBSET Requests

(* One started flow is finished once, though a context is looked up and    *)
(* erased in two steps, its step is tested and written in two, and the lock*)
(* may be lost at any time: of the finishes of one context, duplicates     *)
(* included, one registers at most, and two that both log in were in the   *)
(* OPAQUE call at the same time, having passed the test of the step before *)
(* either wrote it.                                                        *)
FlowFinishesOnce ==
    \A r, q \in Requests :
        /\ r # q /\ took[r] = took[q]
        /\ {pc[r], pc[q]} \subseteq {"loggedIn", "registered"}
        => pc[r] = "loggedIn" /\ pc[q] = "loggedIn" /\ {r, q} \subseteq raced

(* A client that is told its registration succeeded owns the account: the  *)
(* row of its name is its own and stays so, whoever else registers it.     *)
RegisteredOwnsAccount ==
    \A r \in Requests :
        pc[r] = "registered" => accounts[user[took[r]]] = took[r]

(* An answered logout ends the login flows that were under way: none of    *)
(* them logs the session in afterwards, unless one of its two requests had *)
(* its lock taken over while it ran.                                       *)
LogoutEndsFlows ==
    [][\A r \in Requests :
          pc[r] = "accountKey" /\ pc'[r] = "loggedIn" /\ took[r] \in ended
              => r \in overlapped \/ took[r] \in overlapped]_vars

(* A flow done by the book succeeds: a finish let in right after the start *)
(* it answers, neither of them overlapped and no 300 s gone by, is never   *)
(* told that there is no flow or that its message is wrong.                *)
ByTheBook(r, s) ==
    /\ msg[r] = s /\ prev[r] = s
    /\ {r, s} \cap overlapped = {}
    /\ s \notin timedOut
    /\ user[s] # Null

FlowCompletes ==
    \A r, s \in Requests : ByTheBook(r, s) =>
        /\ pc[s] = "registerStarted" => pc[r] # "registerRefused"
        /\ pc[s] = "loginStarted" => pc[r] # "loginRefused"
=============================================================================

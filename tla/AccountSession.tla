---------------------------- MODULE AccountSession ----------------------------
(***************************************************************************)
(* What SessionService promises of one HTTP session: an account is logged  *)
(* in or it is not, and at any instant at most one cookie opens the        *)
(* session, and only for that account.  A cookie that has stopped to open  *)
(* the session never opens it again; an account is only replaced by a      *)
(* login, which starts without a cookie of its own.                        *)
(***************************************************************************)
CONSTANTS
    Users,
    Cookies,
    Null            \* no account, no cookie

VARIABLES
    account,        \* the user logged in, or Null
    cookie,         \* the cookie that opens the session, or Null
    spent           \* the cookies drawn so far

accountVars == <<account, cookie, spent>>

Init ==
    /\ account = Null
    /\ cookie = Null
    /\ spent = {}

LogIn(u) ==
    /\ account' = u
    /\ cookie' = Null
    /\ UNCHANGED spent

(* A fresh cookie: the first after a login, or one that replaces another.  *)
Issue(c) ==
    /\ account \in Users
    /\ c \notin spent
    /\ cookie' = c
    /\ spent' = spent \cup {c}
    /\ UNCHANGED account

(* A cookie is drawn, but the session it was drawn for is gone.            *)
Waste(c) ==
    /\ c \notin spent
    /\ spent' = spent \cup {c}
    /\ UNCHANGED <<account, cookie>>

Expire ==
    /\ cookie' = Null
    /\ UNCHANGED <<account, spent>>

LogOut ==
    /\ account' = Null
    /\ cookie' = Null
    /\ UNCHANGED spent

Next ==
    \/ \E u \in Users : LogIn(u)
    \/ \E c \in Cookies : Issue(c) \/ Waste(c)
    \/ Expire
    \/ LogOut

Spec == Init /\ [][Next]_accountVars
=============================================================================

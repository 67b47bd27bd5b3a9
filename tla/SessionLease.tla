---------------------------- MODULE SessionLease ----------------------------
(***************************************************************************)
(* What SessionLockMiddleware promises to the handlers of one HTTP         *)
(* session, seen from outside: a lease.  At most one request holds the     *)
(* session; a request that is answered gives up its own hold and nobody    *)
(* else's; the hold may be taken over once the lease of its holder is      *)
(* over.  `raced' is the escape the code needs: once a request has run     *)
(* through one of the two windows the middleware leaves open (see          *)
(* SessionLock.tla), a hold may be taken over at any time.                 *)
(***************************************************************************)
EXTENDS Naturals

CONSTANTS
    Requests,       \* the requests sent on one session
    NoRequest       \* "the session is free": not a request

VARIABLES
    clock,          \* the system clock
    holder,         \* the request that holds the session, or NoRequest
    inside,         \* the requests let through and not yet out again
    deadline,       \* deadline[r]: the last instant of r's lease
    raced           \* a window of the middleware has been run through

leaseVars == <<clock, holder, inside, deadline, raced>>

Init ==
    /\ clock \in Nat
    /\ holder = NoRequest
    /\ inside = {}
    /\ deadline \in [Requests -> Nat]
    /\ raced = FALSE

(* A request that is not inside learns the time and with it its deadline.  *)
Arrive(r) ==
    /\ r \notin inside
    /\ deadline' = [deadline EXCEPT ![r] = deadline'[r]]
    /\ UNCHANGED <<clock, holder, inside, raced>>

Admit(r) ==
    /\ r \notin inside
    /\ holder = NoRequest
    /\ holder' = r
    /\ inside' = inside \cup {r}
    /\ raced' \in {raced, TRUE}
    /\ UNCHANGED <<clock, deadline>>

TakeOver(r) ==
    /\ r \notin inside
    /\ holder \in Requests
    /\ raced \/ clock > deadline[holder]
    /\ holder' = r
    /\ inside' = inside \cup {r}
    /\ UNCHANGED <<clock, deadline, raced>>

Leave(r) ==
    /\ r \in inside
    /\ inside' = inside \ {r}
    /\ holder' = IF holder = r THEN NoRequest ELSE holder
    /\ UNCHANGED <<clock, deadline, raced>>

Race ==
    /\ raced' = TRUE
    /\ UNCHANGED <<clock, holder, inside, deadline>>

Pass ==
    /\ clock' > clock /\ clock' \in Nat
    /\ UNCHANGED <<holder, inside, deadline, raced>>

Next ==
    \/ \E r \in Requests : Arrive(r) \/ Admit(r) \/ TakeOver(r) \/ Leave(r)
    \/ Race
    \/ Pass

Spec == Init /\ [][Next]_leaseVars
=============================================================================

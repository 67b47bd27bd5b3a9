--------------------------- MODULE RequestPromise ---------------------------
(***************************************************************************)
(* What the client's network session promises the code that sends a        *)
(* request through it: the callback is called once, the server runs the    *)
(* request once at most, and the outcome the callback gets is true of what *)
(* the server did.  How often the request travels, and how the session's   *)
(* cookie is renewed meanwhile, is not the caller's concern.               *)
(***************************************************************************)
EXTENDS Naturals

CONSTANT Requests       \* requests of the application

VARIABLES
    issued,             \* the requests handed over
    executed,           \* how often the server ran a request
    calls,              \* how often its callback was called
    outcome             \* what the callback was last told

vars == <<issued, executed, calls, outcome>>

Outcomes == {"pending", "none", "unauthorized", "failed"}

Init ==
    /\ issued = {}
    /\ executed = [r \in Requests |-> 0]
    /\ calls = [r \in Requests |-> 0]
    /\ outcome = [r \in Requests |-> "pending"]

Issue(r) ==
    /\ r \notin issued
    /\ issued' = issued \cup {r}
    /\ UNCHANGED <<executed, calls, outcome>>

Execute(r) ==
    /\ r \in issued /\ executed[r] = 0 /\ calls[r] = 0
    /\ executed' = [executed EXCEPT ![r] = 1]
    /\ UNCHANGED <<issued, calls, outcome>>

(* "none" is RequestError::None: the server ran the request.  A caller     *)
(* told it is not authorized can be sure that the server did not.          *)
Answer(r, o) ==
    /\ r \in issued /\ calls[r] = 0
    /\ o = "none" => executed[r] = 1
    /\ o = "unauthorized" => executed[r] = 0
    /\ calls' = [calls EXCEPT ![r] = 1]
    /\ outcome' = [outcome EXCEPT ![r] = o]
    /\ UNCHANGED <<issued, executed>>

(* A failed refresh answers every request that waited for it.              *)
Refuse(R) ==
    /\ R \subseteq issued
    /\ \A r \in R : calls[r] = 0 /\ executed[r] = 0
    /\ calls' = [r \in Requests |-> IF r \in R THEN 1 ELSE calls[r]]
    /\ outcome' = [r \in Requests |->
                      IF r \in R THEN "unauthorized" ELSE outcome[r]]
    /\ UNCHANGED <<issued, executed>>

Next ==
    \/ \E r \in Requests :
          Issue(r) \/ Execute(r) \/ \E o \in Outcomes \ {"pending"} : Answer(r, o)
    \/ \E R \in SUBSET Requests : Refuse(R)

Spec == Init /\ [][Next]_vars
=============================================================================

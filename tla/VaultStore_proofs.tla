-------------------------- MODULE VaultStore_proofs --------------------------
(***************************************************************************)
(* Proofs about VaultStore, for any users, calls, vaults and items: whose  *)
(* the rows are, what a read gives away, and that the server keeps its     *)
(* half of the promise of RequestPromise.                                  *)
(***************************************************************************)
EXTENDS VaultStore, TLAPS

(* The tables keep their foreign key.                                      *)
Tables ==
    /\ DOMAIN owner \subseteq Vaults /\ DOMAIN rows \subseteq Items
    /\ \A v \in DOMAIN owner : owner[v] \in Users
    /\ \A i \in DOMAIN rows : rows[i] \in Row /\ rows[i].vault \in DOMAIN owner

(* How far a call is, and what of it the tables and the answer show.       *)
Progress ==
    \A c \in Calls :
        /\ phase[c] \in {"idle", "filter", "handler"} =>
              executed[c] = 0 /\ data[c] = {}
        /\ phase[c] = "ran" => executed[c] = 1

(* What one step may do to the tables: they only grow, and a row that      *)
(* changes is, after it, its vault's owner's.                              *)
Grow ==
    /\ \A v \in DOMAIN owner : v \in DOMAIN owner' /\ owner'[v] = owner[v]
    /\ \A i \in DOMAIN rows :
          i \in DOMAIN rows' /\ rows'[i].vault = rows[i].vault

IInv == TypeOK /\ OwnersOnly /\ Progress /\ AnswersAreOwn

-----------------------------------------------------------------------------
LEMMA RequestFields ==
    ASSUME NEW r \in Requests
    PROVE  /\ r.op \in {"AddVaults", "GetVaultItems"} => r.vault \in Vaults
           /\ r.op = "GetVaultItem" => r.item \in Items
           /\ r.op \in {"AddItem", "EditItem"} =>
                 r.item \in Items /\ r.vault \in Vaults /\ r.hash \in Hashes
  BY DEF Requests

LEMMA TablesInit == Init => Tables /\ OwnersOnly
  BY TablesAssumption DEF Init, Tables, Row, OwnersOnly, TablesAssumption

(* A vault is added for the caller; the rows keep theirs.                  *)
LEMMA AddVaultsStep ==
    ASSUME Tables, OwnersOnly, NEW u \in Users, NEW r \in Requests, AddVaults(u, r)
    PROVE  Tables' /\ OwnersOnly' /\ Grow
<1>1. r.vault \in Vaults /\ r.vault \notin DOMAIN owner
  BY RequestFields DEF AddVaults, InsertVault
<1>2. /\ DOMAIN owner' = DOMAIN owner \cup {r.vault}
      /\ owner'[r.vault] = u
      /\ \A v \in DOMAIN owner : owner'[v] = owner[v]
      /\ rows' = rows
  BY <1>1 DEF AddVaults, InsertVault, With
<1> QED
  BY <1>1, <1>2 DEF Tables, OwnersOnly, Grow

(* An item is added to a vault of the caller's.                            *)
LEMMA AddItemStep ==
    ASSUME Tables, OwnersOnly, NEW u \in Users, NEW r \in Requests, AddItem(u, r)
    PROVE  Tables' /\ OwnersOnly' /\ Grow
<1>1. r.item \in Items /\ r.vault \in Vaults /\ r.hash \in Hashes
  BY RequestFields DEF AddItem
<1>2. Owns(u, r.vault) /\ r.item \notin DOMAIN rows /\ owner' = owner
  BY DEF AddItem, InsertItem
<1>3. /\ DOMAIN rows' = DOMAIN rows \cup {r.item}
      /\ rows'[r.item] = [vault |-> r.vault, hash |-> r.hash, by |-> u]
      /\ \A i \in DOMAIN rows : rows'[i] = rows[i]
  BY <1>2 DEF AddItem, InsertItem, With
<1> QED
  BY <1>1, <1>2, <1>3 DEF Tables, OwnersOnly, Grow, Owns, Row

(* An item is changed in the vault it is in, which is the caller's.        *)
LEMMA EditItemStep ==
    ASSUME Tables, OwnersOnly, NEW u \in Users, NEW r \in Requests, EditItem(u, r)
    PROVE  Tables' /\ OwnersOnly' /\ Grow
<1>1. r.item \in Items /\ r.vault \in Vaults /\ r.hash \in Hashes
  BY RequestFields DEF EditItem
<1>2. /\ Owns(u, r.vault) /\ r.item \in DOMAIN rows
      /\ rows[r.item].vault = r.vault /\ owner' = owner
  BY DEF EditItem, UpdateItem
<1>3. /\ DOMAIN rows' = DOMAIN rows
      /\ rows'[r.item] = [vault |-> r.vault, hash |-> r.hash, by |-> u]
      /\ \A i \in DOMAIN rows : i # r.item => rows'[i] = rows[i]
  BY <1>2 DEF EditItem, UpdateItem
<1> QED
  BY <1>1, <1>2, <1>3 DEF Tables, OwnersOnly, Grow, Owns, Row

(* Only the statement of a write changes the tables.                       *)
LEMMA TablesStep ==
    ASSUME TypeOK, OwnersOnly, [Next]_vars
    PROVE  Tables' /\ OwnersOnly' /\ Grow
<1>1. Tables
  BY DEF TypeOK, Tables
<1>2. ASSUME UNCHANGED <<owner, rows>>
      PROVE  Tables' /\ OwnersOnly' /\ Grow
  BY <1>1, <1>2 DEF Tables, OwnersOnly, Grow
<1>3. ASSUME NEW c \in Calls, ExecuteWrite(c)
      PROVE  Tables' /\ OwnersOnly' /\ Grow
  <2>1. user[c] \in Users /\ request[c] \in Requests
    BY <1>3 DEF ExecuteWrite, TypeOK
  <2> QED
    BY <1>1, <1>3, <2>1, AddVaultsStep, AddItemStep, EditItemStep
       DEF ExecuteWrite
<1>4. ASSUME NEW s \in Sessions, NEW u \in Users \cup {Nobody}, Authenticate(s, u)
      PROVE  UNCHANGED <<owner, rows>>
  BY <1>4 DEF Authenticate, tableVars
<1>5. ASSUME NEW c \in Calls, NEW r \in Requests, Arrive(c, r)
      PROVE  UNCHANGED <<owner, rows>>
  BY <1>5 DEF Arrive, tableVars
<1>6. ASSUME NEW c \in Calls, NEW s \in Sessions, DoFilter(c, s)
      PROVE  UNCHANGED <<owner, rows>>
  BY <1>6 DEF DoFilter, tableVars
<1>7. ASSUME NEW c \in Calls, ~ExecuteWrite(c), Handle(c)
      PROVE  UNCHANGED <<owner, rows>>
  BY <1>7 DEF Handle, BadRequest, RefuseWrite, ExecuteRead, ReadFails, Respond,
              ResultLost, tableVars
<1>8. CASE UNCHANGED vars
  BY <1>2, <1>8 DEF vars, tableVars
<1> QED
  BY <1>2, <1>3, <1>4, <1>5, <1>6, <1>7, <1>8 DEF Next
-----------------------------------------------------------------------------
(* The calls have their types, and what a call has found is Calls' own.    *)
CallTypes ==
    /\ session \in [Sessions -> Users \cup {Nobody}]
    /\ phase \in [Calls -> {"idle", "filter", "handler", "ran", "answered"}]
    /\ request \in [Calls -> Requests]
    /\ user \in [Calls -> Users \cup {Nobody}]
    /\ code \in [Calls -> {0, 200, 400, 401, 404, 500}]
    /\ data \in [Calls -> SUBSET (Vaults \cup Items)]
    /\ executed \in [Calls -> Nat]
    /\ \A c \in Calls : phase[c] \in {"handler", "ran"} => user[c] \in Users

LEMMA InitIInv == Init => IInv
<1> SUFFICES ASSUME Init PROVE IInv
  OBVIOUS
<1>1. [op |-> "GetSelf"] \in Requests
  BY DEF Requests
<1>2. TypeOK
  BY <1>1, TablesInit DEF Init, TypeOK, Tables
<1>3. Progress /\ AnswersAreOwn
  BY DEF Init, Progress, AnswersAreOwn
<1> QED
  BY <1>2, <1>3, TablesInit DEF IInv

LEMMA CallTypesStep ==
    ASSUME TypeOK, Progress, [Next]_vars
    PROVE  CallTypes' /\ Progress'
<1> USE DEF TypeOK, CallTypes, Progress, callVars, tableVars
<1>1. ASSUME NEW s \in Sessions, NEW u \in Users \cup {Nobody}, Authenticate(s, u)
      PROVE  CallTypes' /\ Progress'
  BY <1>1 DEF Authenticate
<1>2. ASSUME NEW c \in Calls, NEW r \in Requests, Arrive(c, r)
      PROVE  CallTypes' /\ Progress'
  BY <1>2 DEF Arrive
<1>3. ASSUME NEW c \in Calls, NEW s \in Sessions, DoFilter(c, s)
      PROVE  CallTypes' /\ Progress'
  <2>1. CASE session[s] = Nobody
    BY <1>3, <2>1 DEF DoFilter, Answer
  <2>2. CASE session[s] # Nobody
    BY <1>3, <2>2 DEF DoFilter
  <2> QED
    BY <2>1, <2>2
<1>4. ASSUME NEW c \in Calls, BadRequest(c) \/ RefuseWrite(c) \/ ReadFails(c)
      PROVE  CallTypes' /\ Progress'
  BY <1>4 DEF BadRequest, RefuseWrite, ReadFails, Answer
<1>5. ASSUME NEW c \in Calls, ExecuteWrite(c)
      PROVE  CallTypes' /\ Progress'
  BY <1>5 DEF ExecuteWrite, Ran
<1>6. ASSUME NEW c \in Calls, ExecuteRead(c)
      PROVE  CallTypes' /\ Progress'
  BY <1>6 DEF ExecuteRead, Ran
<1>7. ASSUME NEW c \in Calls, Respond(c)
      PROVE  CallTypes' /\ Progress'
  BY <1>7 DEF Respond, Answer
<1>8. ASSUME NEW c \in Calls, ResultLost(c)
      PROVE  CallTypes' /\ Progress'
  BY <1>8 DEF ResultLost, Answer
<1>9. CASE UNCHANGED vars
  BY <1>9 DEF vars
<1> QED
  BY <1>1, <1>2, <1>3, <1>4, <1>5, <1>6, <1>7, <1>8, <1>9 DEF Next, Handle

-----------------------------------------------------------------------------
(* What a call has read stays its user's: the tables only grow, and its    *)
(* user changes only at the filter, before it has read anything.           *)
Own(u, x) == \/ x \in DOMAIN owner /\ owner[x] = u
             \/ x \in DOMAIN rows /\ owner[rows[x].vault] = u

LEMMA OwnGrows ==
    ASSUME Tables, Grow, NEW u, NEW x, Own(u, x)
    PROVE  Own(u, x)'
  BY DEF Tables, Grow, Own

(* What the four SELECTs find is the user's.                               *)
LEMMA FoundIsOwn ==
    ASSUME NEW u, NEW r, NEW found, NEW x \in found,
           \/ GetSelf(r, found) \/ GetUserVaults(u, r, found)
           \/ GetVaultItems(u, r, found) \/ GetVaultItem(u, r, found)
    PROVE  Own(u, x)
  BY DEF GetSelf, GetUserVaults, GetVaultItems, GetVaultItem, VaultsOf, ItemsOf,
         ItemOf, Owns, Own

LEMMA AnswersStep ==
    ASSUME IInv, [Next]_vars
    PROVE  AnswersAreOwn'
<1> SUFFICES ASSUME NEW c \in Calls, NEW x \in Vaults \cup Items, x \in data'[c]
             PROVE  Own(user[c], x)'
  BY DEF AnswersAreOwn, Own
<1>1. Tables /\ Grow /\ TypeOK /\ Progress
  BY TablesStep DEF IInv, Tables, TypeOK
<1>2. ASSUME x \in data[c], user'[c] = user[c]
      PROVE  Own(user[c], x)'
  <2>1. Own(user[c], x)
    BY <1>2 DEF IInv, AnswersAreOwn, Own
  <2> QED
    BY <1>1, <1>2, <2>1 DEF Own, Tables, Grow
<1>3. ASSUME NEW s \in Sessions, NEW u \in Users \cup {Nobody}, Authenticate(s, u)
      PROVE  Own(user[c], x)'
  BY <1>2, <1>3 DEF Authenticate, callVars
<1>4. ASSUME NEW d \in Calls, NEW r \in Requests, Arrive(d, r)
      PROVE  Own(user[c], x)'
  BY <1>2, <1>4 DEF Arrive
<1>5. ASSUME NEW d \in Calls, NEW s \in Sessions, DoFilter(d, s)
      PROVE  Own(user[c], x)'
  <2>1. data[d] = {}
    BY <1>1, <1>5 DEF DoFilter, Progress
  <2>2. c # d
    BY <1>1, <1>5, <2>1 DEF DoFilter, Answer, TypeOK
  <2> QED
    BY <1>1, <1>2, <1>5, <2>2 DEF DoFilter, Answer, TypeOK
<1>6. ASSUME NEW d \in Calls, ExecuteRead(d)
      PROVE  Own(user[c], x)'
  <2>1. CASE c # d
    BY <1>1, <1>2, <1>6, <2>1 DEF ExecuteRead, TypeOK
  <2>2. CASE c = d
    <3>1. PICK found \in SUBSET (Vaults \cup Items) :
             /\ \/ GetSelf(request[c], found)
                \/ GetUserVaults(user[c], request[c], found)
                \/ GetVaultItems(user[c], request[c], found)
                \/ GetVaultItem(user[c], request[c], found)
             /\ data' = [data EXCEPT ![c] = found]
      BY <1>6, <2>2 DEF ExecuteRead
    <3>2. x \in found
      BY <1>1, <3>1 DEF TypeOK
    <3>3. Own(user[c], x)
      BY <3>1, <3>2, FoundIsOwn
    <3>4. UNCHANGED <<owner, rows, user>>
      BY <1>6 DEF ExecuteRead
    <3> QED
      BY <3>3, <3>4 DEF Own
  <2> QED
    BY <2>1, <2>2
<1>7. ASSUME NEW d \in Calls,
             BadRequest(d) \/ RefuseWrite(d) \/ ReadFails(d) \/ ResultLost(d)
      PROVE  Own(user[c], x)'
  <2>1. user' = user /\ data' = [data EXCEPT ![d] = {}]
    BY <1>7 DEF BadRequest, RefuseWrite, ReadFails, ResultLost, Answer
  <2> QED
    BY <1>1, <1>2, <2>1 DEF TypeOK
<1>8. ASSUME NEW d \in Calls, Respond(d)
      PROVE  Own(user[c], x)'
  BY <1>1, <1>2, <1>8 DEF Respond, Answer, TypeOK
<1>9. ASSUME NEW d \in Calls, ExecuteWrite(d)
      PROVE  Own(user[c], x)'
  BY <1>2, <1>9 DEF ExecuteWrite
<1>10. CASE UNCHANGED vars
  BY <1>2, <1>10 DEF vars, callVars
<1> QED
  BY <1>3, <1>4, <1>5, <1>6, <1>7, <1>8, <1>9, <1>10 DEF Next, Handle

LEMMA Invariance == Spec => []IInv
<1>1. IInv /\ [Next]_vars => IInv'
  <2> SUFFICES ASSUME IInv, [Next]_vars PROVE IInv'
    OBVIOUS
  <2>1. Tables' /\ OwnersOnly'
    BY TablesStep DEF IInv
  <2>2. CallTypes' /\ Progress'
    BY CallTypesStep DEF IInv
  <2>3. TypeOK'
    BY <2>1, <2>2 DEF Tables, CallTypes, TypeOK
  <2> QED
    BY <2>1, <2>2, <2>3, AnswersStep DEF IInv
<1> QED
  BY <1>1, InitIInv, PTL DEF Spec

-----------------------------------------------------------------------------
(* Every variable has its type, the tables keep their foreign key, and a   *)
(* handler runs only for a user the filter has seen.                       *)
THEOREM TypeCorrect == Spec => []TypeOK
  BY Invariance, PTL DEF IInv

(* Whoever wrote an item last owns its vault, whatever ids clients choose  *)
(* and whoever logs in or out between the filter and the statement.        *)
THEOREM Ownership == Spec => []OwnersOnly
  BY Invariance, PTL DEF IInv

(* What a read gives away belongs to the user the filter saw.              *)
THEOREM AnswersOwned == Spec => []AnswersAreOwn
  BY Invariance, PTL DEF IInv

(* No step takes an item out of its vault or a vault from its owner.       *)
THEOREM Stay == Spec => ItemsStayInVault
<1>1. IInv /\ [Next]_vars => [Grow]_vars
  BY TablesStep DEF IInv
<1> QED
  BY <1>1, Invariance, PTL DEF Spec, ItemsStayInVault, Grow

-----------------------------------------------------------------------------
(* The server keeps its half of the promise the client's session makes.    *)
LEMMA PromiseInit == Init => Promise!Init
  BY DEF Init, Promise!Init

Issued == {c \in Calls : phase[c] # "idle"}
CallsMade == [c \in Calls |-> IF phase[c] = "answered" THEN 1 ELSE 0]
Outcomes == [c \in Calls |->
                IF phase[c] = "answered" THEN Outcome(code[c]) ELSE "pending"]

(* A function that is changed at one place.                                *)
LEMMA ExceptIs ==
    ASSUME NEW S, NEW c \in S, NEW v, NEW f, f = [x \in S |-> f[x]]
    PROVE  [f EXCEPT ![c] = v] = [x \in S |-> IF x = c THEN v ELSE f[x]]
OBVIOUS

(* An answer with its code is an answer of the promise.                    *)
LEMMA AnswerStep ==
    ASSUME TypeOK, NEW c \in Calls, phase[c] \in {"filter", "handler", "ran"},
           NEW status \in {200, 400, 401, 404, 500},
           NEW found, Answer(c, status, found), executed' = executed,
           status = 200 => executed[c] = 1,
           status = 401 => executed[c] = 0
    PROVE  Promise!Next
<1> DEFINE o == Outcome(status)
<1>1. /\ phase' = [phase EXCEPT ![c] = "answered"]
      /\ code' = [code EXCEPT ![c] = status]
  BY DEF Answer
<1>2. Issued' = Issued
  <2>1. c \in DOMAIN phase /\ phase[c] # "idle"
    BY DEF TypeOK
  <2>2. \A x \in Calls : phase'[x] # "idle" <=> phase[x] # "idle"
    BY <1>1, <2>1
  <2> QED
    BY <2>2 DEF Issued
<1>3. c \in Issued /\ CallsMade[c] = 0
  BY DEF Issued, CallsMade
<1>4. CallsMade' = [CallsMade EXCEPT ![c] = 1]
  <2>1. \A x \in Calls : phase'[x] = IF x = c THEN "answered" ELSE phase[x]
    BY <1>1 DEF TypeOK
  <2>2. CallsMade' = [x \in Calls |-> IF phase'[x] = "answered" THEN 1 ELSE 0]
    BY DEF CallsMade
  <2>3. [CallsMade EXCEPT ![c] = 1] = [x \in Calls |-> IF x = c THEN 1 ELSE CallsMade[x]]
    <3>1. CallsMade = [x \in Calls |-> CallsMade[x]]
      BY DEF CallsMade
    <3> QED
      BY <3>1, ExceptIs
  <2>4. \A x \in Calls : (IF phase'[x] = "answered" THEN 1 ELSE 0)
                           = IF x = c THEN 1 ELSE CallsMade[x]
    BY <2>1 DEF CallsMade
  <2> QED
    BY <2>2, <2>3, <2>4
<1>5. Outcomes' = [Outcomes EXCEPT ![c] = o]
  <2>1. \A d \in Calls : phase'[d] = IF d = c THEN "answered" ELSE phase[d]
    BY <1>1 DEF TypeOK
  <2>2. \A d \in Calls : code'[d] = IF d = c THEN status ELSE code[d]
    BY <1>1 DEF TypeOK
  <2>3. Outcomes' = [d \in Calls |-> IF phase'[d] = "answered"
                                     THEN Outcome(code'[d]) ELSE "pending"]
    BY DEF Outcomes
  <2>4. ASSUME NEW d \in Calls
        PROVE  (IF phase'[d] = "answered" THEN Outcome(code'[d]) ELSE "pending")
                  = IF d = c THEN o ELSE Outcomes[d]
    BY <2>1, <2>2 DEF Outcomes
  <2>5. [Outcomes EXCEPT ![c] = o] = [d \in Calls |-> IF d = c THEN o ELSE Outcomes[d]]
    <3>1. Outcomes = [d \in Calls |-> Outcomes[d]]
      BY DEF Outcomes
    <3> HIDE DEF o
    <3> QED
      BY <3>1, ExceptIs
  <2> HIDE DEF o
  <2> QED
    BY <2>3, <2>4, <2>5
<1>6. o \in Promise!Outcomes \ {"pending"}
  BY DEF Promise!Outcomes, Outcome
<1>7. (o = "none" => executed[c] = 1) /\ (o = "unauthorized" => executed[c] = 0)
  BY DEF Outcome
<1>8. Promise!Answer(c, o)
  BY <1>2, <1>3, <1>4, <1>5, <1>7
     DEF Promise!Answer, Issued, CallsMade, Outcomes
<1> QED
  BY <1>6, <1>8 DEF Promise!Next

(* Every step of the server is a step of the promise, or none.             *)
LEMMA PromiseStep ==
    ASSUME IInv, [Next]_vars
    PROVE  [Promise!Next]_Promise!vars
<1>1. TypeOK /\ Progress
  BY DEF IInv
<1>2. ASSUME Issued' = Issued, UNCHANGED executed, CallsMade' = CallsMade,
             Outcomes' = Outcomes
      PROVE  UNCHANGED Promise!vars
  BY <1>2 DEF Promise!vars, Issued, CallsMade, Outcomes
<1>3. ASSUME NEW s \in Sessions, NEW u \in Users \cup {Nobody}, Authenticate(s, u)
      PROVE  UNCHANGED Promise!vars
  BY <1>2, <1>3 DEF Authenticate, callVars, tableVars, Issued, CallsMade, Outcomes
<1>4. ASSUME NEW c \in Calls, NEW r \in Requests, Arrive(c, r)
      PROVE  Promise!Issue(c)
  <2>1. c \notin Issued /\ Issued' = Issued \cup {c}
    BY <1>1, <1>4 DEF Arrive, Issued, TypeOK
  <2>2. CallsMade' = CallsMade /\ Outcomes' = Outcomes /\ executed' = executed
    BY <1>1, <1>4 DEF Arrive, CallsMade, Outcomes, TypeOK, tableVars
  <2> QED
    BY <2>1, <2>2 DEF Promise!Issue, Issued, CallsMade, Outcomes
<1>5. ASSUME NEW c \in Calls, NEW s \in Sessions, DoFilter(c, s)
      PROVE  [Promise!Next]_Promise!vars
  <2>1. executed' = executed /\ executed[c] = 0
    BY <1>1, <1>5 DEF DoFilter, tableVars, Progress
  <2>2. CASE session[s] = Nobody
    BY <1>1, <1>5, <2>1, <2>2, AnswerStep DEF DoFilter
  <2>3. CASE session[s] # Nobody
    <3>1. Issued' = Issued /\ CallsMade' = CallsMade /\ Outcomes' = Outcomes
      BY <1>1, <1>5, <2>3 DEF DoFilter, Issued, CallsMade, Outcomes, TypeOK
    <3> QED
      BY <1>2, <2>1, <3>1
  <2> QED
    BY <2>2, <2>3
<1>6. ASSUME NEW c \in Calls, BadRequest(c) \/ RefuseWrite(c) \/ ReadFails(c)
      PROVE  Promise!Next
  BY <1>1, <1>6, AnswerStep DEF BadRequest, RefuseWrite, ReadFails, tableVars
<1>7. ASSUME NEW c \in Calls, ExecuteWrite(c) \/ ExecuteRead(c)
      PROVE  Promise!Execute(c)
  <2>1. phase[c] = "handler" /\ executed[c] = 0 /\ Ran(c) /\ code' = code
    BY <1>1, <1>7 DEF ExecuteWrite, ExecuteRead, Progress
  <2>2. executed' = [executed EXCEPT ![c] = 1]
    BY <2>1 DEF Ran
  <2>3. Issued' = Issued /\ CallsMade' = CallsMade /\ Outcomes' = Outcomes
    BY <1>1, <2>1 DEF Ran, Issued, CallsMade, Outcomes, TypeOK
  <2>4. c \in Issued /\ CallsMade[c] = 0
    BY <2>1 DEF Issued, CallsMade
  <2> QED
    BY <2>1, <2>2, <2>3, <2>4
       DEF Promise!Execute, Issued, CallsMade, Outcomes
<1>8. ASSUME NEW c \in Calls, Respond(c)
      PROVE  Promise!Next
  <2>1. phase[c] = "ran" /\ executed[c] = 1 /\ executed' = executed
    BY <1>1, <1>8 DEF Respond, Progress, tableVars
  <2>2. Answer(c, 404, {}) \/ Answer(c, 200, data[c])
    BY <1>8 DEF Respond
  <2> QED
    BY <1>1, <2>1, <2>2, AnswerStep
<1>9. ASSUME NEW c \in Calls, ResultLost(c)
      PROVE  Promise!Next
  <2>1. phase[c] = "ran" /\ executed' = executed
    BY <1>9 DEF ResultLost, tableVars
  <2>2. Answer(c, 400, {}) \/ Answer(c, 500, {})
    BY <1>9 DEF ResultLost
  <2> QED
    BY <1>1, <2>1, <2>2, AnswerStep
<1>10. CASE UNCHANGED vars
  BY <1>2, <1>10 DEF vars, callVars, tableVars, Issued, CallsMade, Outcomes
<1> QED
  BY <1>3, <1>4, <1>5, <1>6, <1>7, <1>8, <1>9, <1>10
     DEF Next, Handle, Promise!Next

(* The server implements the promise of the client's network session: it   *)
(* runs a request once at most, and its answer is true of what it did.     *)
THEOREM Refinement == Spec => ImplementsPromise
<1>1. IInv /\ [Next]_vars => [Promise!Next]_Promise!vars
  BY PromiseStep
<1> QED
  BY <1>1, PromiseInit, Invariance, PTL DEF Spec, ImplementsPromise, Promise!Spec
=============================================================================

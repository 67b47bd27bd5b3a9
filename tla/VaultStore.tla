----------------------------- MODULE VaultStore ------------------------------
(***************************************************************************)
(* The server's vaults and items: VaultController, VaultItemController and *)
(* UserController behind AuthFilter, and the statements of VaultDao,       *)
(* VaultItemDao and UserDao on the tables of schema.sql.                   *)
(*                                                                         *)
(* These routes take no session lock: a handler keeps the user the filter  *)
(* saw, and between the filter and its one statement other handlers run,   *)
(* of the same session too, and logins and logouts.  A statement is        *)
(* atomic; its connection may fail before it is executed, or after.        *)
(***************************************************************************)
EXTENDS Naturals, FiniteSets

CONSTANTS
    Users,
    Sessions,
    Calls,              \* one request each
    Vaults,             \* vault ids, which the client chooses
    Items,              \* item ids, likewise
    Hashes,             \* keyed hashes of item names
    Nobody,             \* no authenticated user
    Owner0,             \* vaults that exist at first, and whose they are
    Rows0               \* items that exist at first

(* A row of vault_items: the vault, the name_hash, and who wrote it last.  *)
Row == [vault : Vaults, hash : Hashes, by : Users]

ASSUME NobodyAssumption == Nobody \notin Users
ASSUME TablesAssumption ==
    /\ DOMAIN Owner0 \subseteq Vaults /\ DOMAIN Rows0 \subseteq Items
    /\ \A v \in DOMAIN Owner0 : Owner0[v] \in Users
    /\ \A i \in DOMAIN Rows0 :
          /\ Rows0[i] \in Row /\ Rows0[i].vault \in DOMAIN Owner0
          /\ Rows0[i].by = Owner0[Rows0[i].vault]
    /\ \A i, j \in DOMAIN Rows0 :
          (Rows0[i].vault = Rows0[j].vault /\ Rows0[i].hash = Rows0[j].hash)
              => i = j

VARIABLES
    session,            \* the authenticated user of a session
    phase,              \* where a call is
    request,            \* what a call asks
    user,               \* attribute "user_id" of a call
    code,               \* the status code of its answer
    data,               \* the vaults or items in its answer
    owner,              \* table vaults
    rows,               \* table vault_items: vault, name_hash, who wrote it
    executed            \* how often the statement of a call was executed

callVars == <<phase, request, user, code, data>>
tableVars == <<owner, rows, executed>>
vars == <<session, callVars, tableVars>>

Writes == {"AddVaults", "AddItem", "EditItem"}
Requests ==
    [op : {"GetSelf", "GetUserVaults"}]
        \cup [op : {"AddVaults", "GetVaultItems"}, vault : Vaults]
        \cup [op : {"GetVaultItem"}, item : Items]
        \cup [op : {"AddItem", "EditItem"}, item : Items, vault : Vaults,
              hash : Hashes]

(* What a status code tells the caller.                                    *)
Outcome(status) == CASE status = 200 -> "none"
                     [] status = 401 -> "unauthorized"
                     [] OTHER -> "failed"

Promise == INSTANCE RequestPromise WITH
    Requests <- Calls,
    issued <- {c \in Calls : phase[c] # "idle"},
    calls <- [c \in Calls |-> IF phase[c] = "answered" THEN 1 ELSE 0],
    outcome <- [c \in Calls |->
                   IF phase[c] = "answered" THEN Outcome(code[c]) ELSE "pending"]

Init ==
    /\ session \in [Sessions -> Users \cup {Nobody}]
    /\ phase = [c \in Calls |-> "idle"]
    /\ request = [c \in Calls |-> [op |-> "GetSelf"]]
    /\ user = [c \in Calls |-> Nobody]
    /\ code = [c \in Calls |-> 0]
    /\ data = [c \in Calls |-> {}]
    /\ owner = Owner0
    /\ rows = Rows0
    /\ executed = [c \in Calls |-> 0]
-----------------------------------------------------------------------------
(* The sessions, which AuthController and SessionService change meanwhile. *)
Authenticate(s, u) ==
    /\ session[s] # u
    /\ session' = [session EXCEPT ![s] = u]
    /\ UNCHANGED <<callVars, tableVars>>

(* ResponseBuilder.                                                        *)
Answer(c, status, found) ==
    /\ phase' = [phase EXCEPT ![c] = "answered"]
    /\ code' = [code EXCEPT ![c] = status]
    /\ data' = [data EXCEPT ![c] = found]

(* A request is routed to its filter.                                      *)
Arrive(c, r) ==
    /\ phase[c] = "idle"
    /\ phase' = [phase EXCEPT ![c] = "filter"]
    /\ request' = [request EXCEPT ![c] = r]
    /\ UNCHANGED <<session, user, code, data, tableVars>>

(* Mutant of DoFilter: goes on after the answer.                           *)
DoFilterGoesOn(c, s) ==
    /\ phase[c] = "filter"
    /\ user' = [user EXCEPT ![c] = session[s]]
    /\ phase' = [phase EXCEPT ![c] = "handler"]
    /\ UNCHANGED <<session, request, code, data, tableVars>>

(* AuthFilter::doFilter; what the body holds is read later.                *)
DoFilter(c, s) ==
    /\ phase[c] = "filter"
    /\ user' = [user EXCEPT ![c] = session[s]]
    /\ IF session[s] = Nobody
       THEN Answer(c, 401, {})
       ELSE /\ phase' = [phase EXCEPT ![c] = "handler"]
            /\ UNCHANGED <<code, data>>
    /\ UNCHANGED <<session, request, tableVars>>

(* A body or an id that cannot be read, a name that is not valid, or keys  *)
(* whose bytes repeat too much (isEntropySufficient).                      *)
BadRequest(c) ==
    /\ phase[c] = "handler"
    /\ request[c].op \notin {"GetSelf", "GetUserVaults"}
    /\ Answer(c, 400, {})
    /\ UNCHANGED <<session, request, user, tableVars>>
-----------------------------------------------------------------------------
(* The statements.  A write affects one row or none.                       *)
With(f, x, y) == [z \in DOMAIN f \cup {x} |-> IF z = x THEN y ELSE f[z]]
Owns(u, v) == v \in DOMAIN owner /\ owner[v] = u
NameTaken(i, v, h) ==
    \E j \in DOMAIN rows \ {i} : rows[j].vault = v /\ rows[j].hash = h

(* INSERT INTO vaults; the name may be the owner's already, or break the   *)
(* CHECK of the column, which is narrower than validateVaultName.  The     *)
(* column that VaultDao names protected_key is in the table here; in       *)
(* schema.sql:21 it is protected_vault_key, and on a table made from that  *)
(* this statement never succeeds (RefuseWrite), nor VaultsOf (ReadFails).  *)
InsertVault(u, v) ==
    /\ v \notin DOMAIN owner
    /\ owner' = With(owner, v, u)
    /\ UNCHANGED rows

(* Mutant of InsertItem: no "owner_id = $6".                               *)
InsertItemAnywhere(u, i, v, h) ==
    /\ v \in DOMAIN owner /\ i \notin DOMAIN rows /\ ~NameTaken(i, v, h)
    /\ rows' = With(rows, i, [vault |-> v, hash |-> h, by |-> u])
    /\ UNCHANGED owner

(* INSERT INTO vault_items ... SELECT ... FROM vaults WHERE owner_id = $6. *)
InsertItem(u, i, v, h) ==
    /\ Owns(u, v) /\ i \notin DOMAIN rows /\ ~NameTaken(i, v, h)
    /\ rows' = With(rows, i, [vault |-> v, hash |-> h, by |-> u])
    /\ UNCHANGED owner

(* Mutant of UpdateItem: "vault_id = $5" is set, not asked for.            *)
UpdateItemMoves(u, i, v, h) ==
    /\ Owns(u, v) /\ i \in DOMAIN rows /\ ~NameTaken(i, v, h)
    /\ rows' = [rows EXCEPT ![i] = [vault |-> v, hash |-> h, by |-> u]]
    /\ UNCHANGED owner

(* UPDATE vault_items ... WHERE id = $4 AND vault_id = $5 AND EXISTS ...:  *)
(* the item of the body, whatever the path names, and whatever its version.*)
UpdateItem(u, i, v, h) ==
    /\ Owns(u, v) /\ i \in DOMAIN rows /\ rows[i].vault = v
    /\ ~NameTaken(i, v, h)
    /\ rows' = [rows EXCEPT ![i] = [vault |-> v, hash |-> h, by |-> u]]
    /\ UNCHANGED owner

(* What the SELECTs find: vaults of the user, items in vaults of the user. *)
VaultsOf(u) == {v \in DOMAIN owner : owner[v] = u}
ItemsOf(u, v) == {i \in DOMAIN rows : rows[i].vault = v /\ Owns(u, v)}

(* Mutant of ItemOf: the item alone is asked for, not whose it is.         *)
ItemOfAnyone(u, i) == {j \in DOMAIN rows : j = i}

ItemOf(u, i) == {j \in DOMAIN rows : j = i /\ Owns(u, rows[j].vault)}
-----------------------------------------------------------------------------
(* The handlers.                                                           *)
AddVaults(u, r) == r.op = "AddVaults" /\ InsertVault(u, r.vault)
AddItem(u, r) == r.op = "AddItem" /\ InsertItem(u, r.item, r.vault, r.hash)
EditItem(u, r) == r.op = "EditItem" /\ UpdateItem(u, r.item, r.vault, r.hash)

GetSelf(r, found) == r.op = "GetSelf" /\ found = {}
GetUserVaults(u, r, found) == r.op = "GetUserVaults" /\ found = VaultsOf(u)
GetVaultItems(u, r, found) ==
    r.op = "GetVaultItems" /\ found = ItemsOf(u, r.vault)
GetVaultItem(u, r, found) == r.op = "GetVaultItem" /\ found = ItemOf(u, r.item)

Ran(c) ==
    /\ phase' = [phase EXCEPT ![c] = "ran"]
    /\ executed' = [executed EXCEPT ![c] = executed[c] + 1]

ExecuteWrite(c) ==
    /\ phase[c] = "handler" /\ request[c].op \in Writes
    /\ \/ AddVaults(user[c], request[c])
       \/ AddItem(user[c], request[c])
       \/ EditItem(user[c], request[c])
    /\ Ran(c)
    /\ UNCHANGED <<session, request, user, code, data>>

(* Mutant of RefuseWrite: affectedRows() is not looked at.                 *)
RefuseWriteUnseen(c) ==
    /\ phase[c] = "handler" /\ request[c].op \in Writes
    /\ Answer(c, 200, {})
    /\ UNCHANGED <<session, request, user, tableVars>>

(* No row is affected, the statement breaks a constraint, or it fails.     *)
RefuseWrite(c) ==
    /\ phase[c] = "handler" /\ request[c].op \in Writes
    /\ Answer(c, 400, {})
    /\ UNCHANGED <<session, request, user, tableVars>>

ExecuteRead(c) ==
    /\ phase[c] = "handler" /\ request[c].op \notin Writes
    /\ Ran(c)
    /\ \E found \in SUBSET (Vaults \cup Items) :
          /\ \/ GetSelf(request[c], found)
             \/ GetUserVaults(user[c], request[c], found)
             \/ GetVaultItems(user[c], request[c], found)
             \/ GetVaultItem(user[c], request[c], found)
          /\ data' = [data EXCEPT ![c] = found]
    /\ UNCHANGED <<session, request, user, code, owner, rows>>

ReadFails(c) ==
    /\ phase[c] = "handler" /\ request[c].op \notin Writes
    /\ Answer(c, 500, {})
    /\ UNCHANGED <<session, request, user, tableVars>>

(* The result of the statement comes back to the handler.                  *)
Respond(c) ==
    /\ phase[c] = "ran"
    /\ IF request[c].op = "GetVaultItem" /\ data[c] = {}
       THEN Answer(c, 404, {}) ELSE Answer(c, 200, data[c])
    /\ UNCHANGED <<session, request, user, tableVars>>

(* The connection fails first: a write reads as one that did nothing.      *)
ResultLost(c) ==
    /\ phase[c] = "ran"
    /\ Answer(c, IF request[c].op \in Writes THEN 400 ELSE 500, {})
    /\ UNCHANGED <<session, request, user, tableVars>>

Handle(c) ==
    \/ BadRequest(c) \/ ExecuteWrite(c) \/ RefuseWrite(c)
    \/ ExecuteRead(c) \/ ReadFails(c) \/ Respond(c) \/ ResultLost(c)

Next ==
    \/ \E s \in Sessions, u \in Users \cup {Nobody} : Authenticate(s, u)
    \/ \E c \in Calls :
          \/ \E r \in Requests : Arrive(c, r)
          \/ \E s \in Sessions : DoFilter(c, s)
          \/ Handle(c)

Spec == Init /\ [][Next]_vars
-----------------------------------------------------------------------------
(* The tables keep their foreign key: an item is in a vault that exists;   *)
(* and a handler runs only for a user the filter has seen.                 *)
TypeOK ==
    /\ session \in [Sessions -> Users \cup {Nobody}]
    /\ phase \in [Calls -> {"idle", "filter", "handler", "ran", "answered"}]
    /\ request \in [Calls -> Requests]
    /\ user \in [Calls -> Users \cup {Nobody}]
    /\ code \in [Calls -> {0, 200, 400, 401, 404, 500}]
    /\ data \in [Calls -> SUBSET (Vaults \cup Items)]
    /\ DOMAIN owner \subseteq Vaults /\ DOMAIN rows \subseteq Items
    /\ \A v \in DOMAIN owner : owner[v] \in Users
    /\ \A i \in DOMAIN rows : rows[i] \in Row /\ rows[i].vault \in DOMAIN owner
    /\ executed \in [Calls -> Nat]
    /\ \A c \in Calls : phase[c] \in {"handler", "ran"} => user[c] \in Users

(* Whoever wrote an item last owns the vault it is in: neither an id the   *)
(* client chose nor a path that names another item lets one user write to  *)
(* another's vault, though the session may have changed hands meanwhile.   *)
OwnersOnly == \A i \in DOMAIN rows : rows[i].by = owner[rows[i].vault]

(* What a read answers is of the user whom the filter saw when the request *)
(* arrived, whoever is logged in by the time the statement runs.           *)
AnswersAreOwn ==
    \A c \in Calls, x \in Vaults \cup Items :
       x \in data[c] => \/ x \in DOMAIN owner /\ owner[x] = user[c]
                        \/ /\ x \in DOMAIN rows
                           /\ owner[rows[x].vault] = user[c]

(* An edit changes an item where it is: an item never leaves its vault, a  *)
(* vault never changes hands, and neither ever goes away.                  *)
ItemsStayInVault ==
    [][/\ \A v \in DOMAIN owner : v \in DOMAIN owner' /\ owner'[v] = owner[v]
       /\ \A i \in DOMAIN rows :
             i \in DOMAIN rows' /\ rows'[i].vault = rows[i].vault]_vars

(* The server keeps its half of the promise the client's session makes: a  *)
(* request is run once at most, one answered 200 was run, one answered 401 *)
(* was not; any other code leaves it open.                                 *)
ImplementsPromise == Promise!Spec
=============================================================================

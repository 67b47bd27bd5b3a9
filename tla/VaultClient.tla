----------------------------- MODULE VaultClient -----------------------------
(***************************************************************************)
(* client/src/core/VaultManager.cpp with what drives it and shows what it  *)
(* holds: AppController, MainVaultPage, ItemInfoWidget, the dialogs and    *)
(* the two list models.                                                    *)
(*                                                                         *)
(* All of it runs on the GUI thread, so a click or an answer runs to its   *)
(* end with every slot it reaches; what interleaves are the requests,      *)
(* which the server executes one after the other, and whose answers come   *)
(* in any order.  Encrypted contents are made and opened elsewhere         *)
(* (Items): here an item is its name and its favourite flag.               *)
(***************************************************************************)
EXTENDS Naturals, FiniteSets

CONSTANTS
    Vaults,             \* vault ids
    Items,              \* item ids
    Names,              \* item names, up to their case
    Stored,             \* the items the account had before the login
    MaxRequests,        \* bound: requests under way at the same time
    MaxClicks           \* bound: what the user does

ASSUME StoredAssumption == DOMAIN Stored \subseteq Items
ASSUME BoundAssumption == MaxRequests \in Nat \ {0}

VARIABLES
    isWorking,          \* VaultManager::m_isWorking
    vaults,             \* m_vaults: are their keys decrypted?
    items,              \* m_vaultItems: vault, name, favourite, data at hand?
    requests,           \* operations under way, with what they carry
    storedVaults,       \* the server's vaults of this user
    storedItems,        \* ... and items
    vaultList,          \* VaultListModel: the vaults to choose from
    selected,           \* the current row of the vault list, at most one
    list,               \* VaultItemListModel: m_errorMessage and m_items
    info,               \* ItemInfoWidget: page, m_currentVaultId, m_currentModel
    editDialog,         \* EditItemDialog::m_model while it is shown
    addItemDialog,      \* m_addItemDialog and its confirm button
    addVaultDialog,     \* m_addVaultDialog and its confirm button
    clicks,             \* how often the user did something
    unsure              \* items some of whose requests overlapped or failed

managerVars == <<isWorking, vaults, items>>
serverVars == <<storedVaults, storedItems>>
pageVars == <<vaultList, selected, list>>
dialogVars == <<addItemDialog, addVaultDialog>>
vars == <<managerVars, requests, serverVars, pageVars, info, editDialog,
          dialogVars, clicks, unsure>>

Slots == 1 .. MaxRequests
PutOps == {"editItem", "toggleFavorite"}
Empty == [x \in {} |-> x]
NoRows == [i \in Items |-> 0]

(* After the login: MainVaultPage::onShow has asked for the vault list.     *)
Init ==
    /\ isWorking = TRUE
    /\ vaults = Empty
    /\ items = Empty
    /\ requests = [s \in {1} |-> [op |-> "updateVaultList", got |-> {},
                                  status |-> "sent"]]
    /\ storedVaults = {Stored[i].vault : i \in DOMAIN Stored}
    /\ storedItems = Stored
    /\ vaultList = {}
    /\ selected = {}
    /\ list = [error |-> FALSE, rows |-> NoRows]
    /\ info = [page |-> "empty", vault |-> {}, model |-> {}]
    /\ editDialog = {}
    /\ addItemDialog = "none"
    /\ addVaultDialog = "open"
    /\ clicks = 0
    /\ unsure = {}
-----------------------------------------------------------------------------
(* Requests, and which of them are about the same item.                    *)
With(f, x, y) == [z \in DOMAIN f \cup {x} |-> IF z = x THEN y ELSE f[z]]
Without(f, x) == [z \in DOMAIN f \ {x} |-> f[z]]

UnderWay == {requests[s] : s \in DOMAIN requests}
Puts(i) == {s \in DOMAIN requests :
                requests[s].op \in PutOps /\ requests[s].item = i}
OpensVaultOf(r, i) ==
    r.op = "openVault" /\ i \in DOMAIN items /\ items[i].vault = r.vault

(* An edit while the item is being added or edited, or its vault or the    *)
(* list of vaults read; or its vault read while it is being edited.        *)
Overlaps(r, i) ==
    \/ /\ r.op \in PutOps /\ r.item = i
       /\ \/ Puts(i) # {}
          \/ \E q \in UnderWay :
                \/ OpensVaultOf(q, i) \/ q.op = "updateVaultList"
                \/ q.op = "addItem" /\ q.item = i
    \/ OpensVaultOf(r, i) /\ Puts(i) # {}

Send(r) ==
    /\ Cardinality(DOMAIN requests) < MaxRequests
    /\ LET slot == CHOOSE s \in Slots : s \notin DOMAIN requests
       IN  requests' = With(requests, slot, r)
    /\ unsure' = unsure \cup {i \in Items : Overlaps(r, i)}

DoNotSend == UNCHANGED <<requests, unsure>>

Click == clicks < MaxClicks /\ clicks' = clicks + 1
-----------------------------------------------------------------------------
(* VaultListModel: a reset drops the current row without a signal.         *)
SetVaults(got) == vaultList' = got /\ selected' = {}
AddVaultRow(v) == vaultList' = vaultList \cup {v} /\ UNCHANGED selected

OnFetchVaultListResult(r) ==
    /\ r.op = "updateVaultList"
    /\ isWorking' = FALSE
    /\ \/ r.status = "failed" /\ UNCHANGED <<vaults, vaultList, selected>>
       \/ /\ r.status = "ok"
          /\ vaults' = [v \in r.got |-> "locked"]
          /\ SetVaults(r.got)
    /\ UNCHANGED <<items, list, info, editDialog, dialogVars>>

(* VaultItemListModel.                                                     *)
ClearItems == list' = [error |-> FALSE, rows |-> NoRows]
SetItems(loaded) ==
    list' = [error |-> FALSE,
             rows |-> [i \in Items |-> IF i \in loaded THEN 1 ELSE 0]]
AddRow(i) == list' = [list EXCEPT !.rows[i] = @ + 1]

(* Mutant of EnterErrorMode: the rows stay in the model.                   *)
EnterErrorModeKeepsRows == list' = [list EXCEPT !.error = TRUE]

EnterErrorMode == list' = [error |-> TRUE, rows |-> NoRows]

(* A vault is selected: the item page and the item list are emptied first. *)
FindVault(v) == v \in DOMAIN vaults
DecryptVaultKey(v) == FindVault(v) /\ vaults' = [vaults EXCEPT ![v] = "decrypted"]

OpenVaultFails ==
    /\ EnterErrorMode
    /\ isWorking' = FALSE
    /\ UNCHANGED vaults
    /\ DoNotSend

OpenVault(v) ==
    \/ isWorking /\ OpenVaultFails
    \/ /\ ~isWorking
       /\ ~FindVault(v) \/ vaults[v] = "locked"
       /\ OpenVaultFails            \* no such vault, or its key is not ours
    \/ /\ ~isWorking /\ DecryptVaultKey(v)
       /\ ClearItems
       /\ isWorking' = TRUE
       /\ Send([op |-> "openVault", vault |-> v, got |-> Empty,
                status |-> "sent"])

OnVaultSelected(v) ==
    /\ Click
    /\ v \in vaultList /\ v \notin selected
    /\ selected' = {v}
    /\ info' = [info EXCEPT !.page = "empty"]
    /\ OpenVault(v)
    /\ UNCHANGED <<items, serverVars, vaultList, editDialog, dialogVars>>

(* The answer replaces the vault's items, whatever is selected by now; an  *)
(* item that cannot be opened leaves those before it and an error.         *)
VaultItems(v) == {i \in DOMAIN items : items[i].vault = v}

Reload(v, loaded, got) ==
    items' = [i \in (DOMAIN items \ VaultItems(v)) \cup loaded |->
                 IF i \in loaded
                 THEN [vault |-> v, name |-> got[i].name, fav |-> got[i].fav,
                       data |-> FALSE]
                 ELSE items[i]]

OnOpenVaultResult(r) ==
    /\ r.op = "openVault"
    /\ isWorking' = FALSE
    /\ IF r.status = "ok" /\ FindVault(r.vault)
       THEN \/ /\ vaults[r.vault] = "decrypted" \/ r.got = Empty
               /\ Reload(r.vault, DOMAIN r.got, r.got)
               /\ SetItems(DOMAIN r.got)
            \/ \E loaded \in SUBSET DOMAIN r.got :
                   /\ loaded # DOMAIN r.got
                   /\ vaults[r.vault] = "locked" => loaded = {}
                   /\ Reload(r.vault, loaded, r.got)
                   /\ EnterErrorMode
       ELSE EnterErrorMode /\ UNCHANGED items
    /\ UNCHANGED <<vaults, vaultList, selected, info, editDialog, dialogVars>>

(* A vault is added: its keys are made on a worker, then it is sent.       *)
(* Mutant of AddVaultFails: m_isWorking is not reset.                      *)
AddVaultFailsStaysBusy ==
    /\ UNCHANGED isWorking
    /\ addVaultDialog' = "open"

AddVaultFails ==
    /\ isWorking' = FALSE
    /\ addVaultDialog' = "open"

NewVaults == Vaults \ (storedVaults \cup DOMAIN vaults
                 \cup {r.vault : r \in {q \in UnderWay : q.op = "addVault"}})

AddVault ==
    \/ AddVaultFails /\ DoNotSend           \* busy, or the name exists
    \/ /\ ~isWorking /\ isWorking' = TRUE
       /\ addVaultDialog' = "loading"
       /\ \E v \in NewVaults :
             Send([op |-> "addVault", vault |-> v, status |-> "computing"])

(* The dialog refuses a name that is not valid without asking anyone.      *)
OnAddVaultClicked ==
    /\ Click
    /\ addVaultDialog = "open"
    /\ \/ AddVault
       \/ UNCHANGED <<isWorking, addVaultDialog>> /\ DoNotSend
    /\ UNCHANGED <<vaults, items, serverVars, pageVars, info, editDialog,
                   addItemDialog>>

OnAddVaultComputed(s) ==
    /\ requests[s].status = "computing"
    /\ \/ /\ requests' = [requests EXCEPT ![s].status = "sent"]
          /\ UNCHANGED <<isWorking, addVaultDialog>>
       \/ requests' = Without(requests, s) /\ AddVaultFails
    /\ UNCHANGED <<clicks, vaults, items, serverVars, pageVars, info, editDialog,
                   addItemDialog, unsure>>

OnAddVaultResult(r) ==
    /\ r.op = "addVault"
    /\ \/ /\ r.status = "failed" /\ AddVaultFails
          /\ UNCHANGED <<vaults, vaultList, selected>>
       \/ /\ r.status = "ok"
          /\ isWorking' = FALSE
          /\ addVaultDialog' = "open"
          /\ vaults' = IF FindVault(r.vault) THEN vaults
                       ELSE With(vaults, r.vault, "decrypted")
          /\ AddVaultRow(r.vault)
    /\ UNCHANGED <<items, list, info, editDialog, addItemDialog>>
-----------------------------------------------------------------------------
(* An item is added to the vault that is selected when it is confirmed.    *)
InVault(i, v) == i \in DOMAIN items /\ items[i].vault = v
Decrypted(v) == v \in DOMAIN vaults /\ vaults[v] = "decrypted"
ItemNameExists(v, name, except) ==
    \E i \in VaultItems(v) \ except : items[i].name = name

OnAddItemButtonClicked ==
    /\ Click
    /\ selected # {}
    /\ addItemDialog = "none" /\ addItemDialog' = "open"
    /\ UNCHANGED <<managerVars, requests, serverVars, pageVars, info,
                   editDialog, addVaultDialog, unsure>>

NewItems == Items \ (DOMAIN storedItems \cup DOMAIN items
                \cup {r.item : r \in {q \in UnderWay : q.op = "addItem"}})

AddItem(v, i, name) ==
    \/ /\ isWorking \/ ItemNameExists(v, name, {}) \/ ~Decrypted(v)
       /\ isWorking' = FALSE
       /\ UNCHANGED addItemDialog /\ DoNotSend
    \/ /\ ~isWorking /\ ~ItemNameExists(v, name, {}) /\ Decrypted(v)
       /\ isWorking' = TRUE
       /\ addItemDialog' = "loading"
       /\ Send([op |-> "addItem", vault |-> v, item |-> i, name |-> name,
                fav |-> FALSE, status |-> "sent"])

(* AddItemDialog::onConfirmClicked makes the id; without a selected vault  *)
(* there is a message box, and the dialog still loads.                     *)
OnAddItem(i, name) ==
    /\ Click
    /\ addItemDialog = "open"
    /\ i \in NewItems
    /\ \/ \E v \in selected : AddItem(v, i, name)
       \/ /\ selected = {}
          /\ addItemDialog' = "loading"
          /\ UNCHANGED isWorking /\ DoNotSend
    /\ UNCHANGED <<vaults, items, serverVars, pageVars, info, editDialog,
                   addVaultDialog>>

(* The row is inserted in whatever list is shown by now.                   *)
ItemAdded(r) == r.op = "addItem" /\ r.status = "ok"

OnAddItemResult(r) ==
    /\ r.op = "addItem"
    /\ isWorking' = FALSE
    /\ \/ /\ r.status = "failed"
          /\ addItemDialog' = "open"
          /\ UNCHANGED <<items, list>>
       \/ /\ ItemAdded(r)
          /\ addItemDialog' = "none"
          /\ items' = IF r.item \in DOMAIN items THEN items
                      ELSE With(items, r.item,
                                [vault |-> r.vault, name |-> r.name,
                                 fav |-> r.fav, data |-> TRUE])
          /\ AddRow(r.item)
    /\ UNCHANGED <<vaults, vaultList, selected, info, editDialog,
                   addVaultDialog>>
-----------------------------------------------------------------------------
(* An item is opened: its page shows that it loads, then the item or an    *)
(* error; what is shown is what was opened last, not what is selected.     *)
ShowPage(page) == info' = [info EXCEPT !.page = page]

ModelOf(i) == [id |-> i, name |-> items[i].name, fav |-> items[i].fav]

OpenItemInfoPage(v, model) ==
    info' = [page |-> "info", vault |-> {v}, model |-> {model}]

(* onOpenItemSuccess: the contents may fail to open.                       *)
ShowItem(v, i) ==
    \/ /\ Decrypted(v)
       /\ OpenItemInfoPage(v, ModelOf(i))
    \/ ShowPage("error")

(* Mutant of OpenItemRefused: the refusal is not shown.                    *)
OpenItemRefusedSilently ==
    /\ isWorking' = FALSE
    /\ ShowPage("loading")
    /\ DoNotSend

OpenItemRefused ==
    /\ isWorking' = FALSE
    /\ ShowPage("error")
    /\ DoNotSend

OpenItem(v, i) ==
    \/ isWorking /\ OpenItemRefused
    \/ ~isWorking /\ ~InVault(i, v) /\ OpenItemRefused
    \/ /\ ~isWorking /\ FindVault(v) /\ InVault(i, v) /\ items[i].data
       /\ isWorking' = FALSE
       /\ ShowItem(v, i)
       /\ DoNotSend
    \/ /\ ~isWorking /\ FindVault(v) /\ InVault(i, v) /\ ~items[i].data
       /\ isWorking' = TRUE
       /\ ShowPage("loading")
       /\ Send([op |-> "openItem", vault |-> v, item |-> i, status |-> "sent"])

OnItemSelected(i) ==
    /\ Click
    /\ ~list.error /\ list.rows[i] > 0
    /\ \/ \E v \in selected : OpenItem(v, i)
       \/ /\ selected = {}
          /\ ShowPage("empty")
          /\ UNCHANGED isWorking /\ DoNotSend
    /\ UNCHANGED <<vaults, items, serverVars, pageVars, editDialog, dialogVars>>

(* The row of the error message has no id: no item is found.               *)
OnErrorRowSelected ==
    /\ Click
    /\ list.error /\ selected # {}
    /\ OpenItemRefused
    /\ UNCHANGED <<vaults, items, serverVars, pageVars, editDialog, dialogVars>>

OnOpenItemResult(r) ==
    /\ r.op = "openItem"
    /\ isWorking' = FALSE
    /\ IF r.status = "ok" /\ FindVault(r.vault) /\ InVault(r.item, r.vault)
       THEN /\ items' = [items EXCEPT ![r.item].data = TRUE]
            /\ ShowItem(r.vault, r.item)
       ELSE ShowPage("error") /\ UNCHANGED items
    /\ UNCHANGED <<vaults, pageVars, editDialog, dialogVars>>
-----------------------------------------------------------------------------
(* An item is edited, or its favourite flag toggled: either way all of it  *)
(* is sent, and neither marks the manager as working.                      *)
OnEditClicked ==
    /\ Click
    /\ info.page = "info"
    /\ editDialog' = info.model
    /\ UNCHANGED <<managerVars, requests, serverVars, pageVars, info,
                   dialogVars, unsure>>

OnCancel ==
    /\ Click
    /\ editDialog # {} /\ editDialog' = {}
    /\ UNCHANGED <<managerVars, requests, serverVars, pageVars, info,
                   dialogVars, unsure>>

(* Mutant of EditAllowed: any vault's item will do.                        *)
EditAllowedAnywhere(v, m) == ~isWorking /\ Decrypted(v)

(* ItemInfoWidget::onItemUpdated names the vault shown by now, which need  *)
(* not be the one the dialog was opened for.                               *)
EditAllowed(v, m) ==
    /\ ~isWorking /\ Decrypted(v) /\ InVault(m.id, v)
    /\ items[m.id].name # m.name => ~ItemNameExists(v, m.name, {m.id})

PutItem(op, v, m) ==
    Send([op |-> op, vault |-> v, item |-> m.id, name |-> m.name,
          fav |-> m.fav, status |-> "sent"])

EditItem(v, m) ==
    /\ isWorking' = FALSE
    /\ IF EditAllowed(v, m) THEN PutItem("editItem", v, m) ELSE DoNotSend

OnConfirm(name) ==
    /\ Click
    /\ \E m \in editDialog, v \in info.vault :
          LET edited == [m EXCEPT !.name = name]
          IN  editDialog' = {edited} /\ EditItem(v, edited)
    /\ UNCHANGED <<vaults, items, serverVars, pageVars, info, dialogVars>>

(* What is sent is the item the manager holds, with the flag of the page.  *)
ToggleFavorite(v, m) ==
    /\ isWorking' = FALSE
    /\ IF ~isWorking /\ Decrypted(v) /\ InVault(m.id, v) /\ items[m.id].data
       THEN PutItem("toggleFavorite", v, [ModelOf(m.id) EXCEPT !.fav = m.fav])
       ELSE DoNotSend

OnFavoriteClicked ==
    /\ Click
    /\ info.page = "info"
    /\ \E m \in info.model, v \in info.vault :
          LET toggled == [m EXCEPT !.fav = ~m.fav]
          IN  /\ info' = [info EXCEPT !.model = {toggled}]
              /\ ToggleFavorite(v, toggled)
    /\ UNCHANGED <<vaults, items, serverVars, pageVars, editDialog, dialogVars>>

(* Is the item of this answer the one on the page?                         *)
OnPage(r) ==
    /\ selected = {r.vault} /\ info.vault = {r.vault}
    /\ \E m \in info.model : m.id = r.item

(* ItemInfoWidget shows it, and the dialog closes.                         *)
OnItemEdited(r) ==
    /\ info' = [info EXCEPT !.model =
                   {[id |-> r.item, name |-> r.name, fav |-> r.fav]}]
    /\ editDialog' = {}

(* Mutant of OnEditItemResult: the item keeps its old name.                *)
OnEditItemResultKeepsName(r) ==
    /\ r.op = "editItem"
    /\ isWorking' = FALSE
    /\ UNCHANGED <<vaults, items, pageVars, dialogVars, info, editDialog>>

OnEditItemResult(r) ==
    /\ r.op = "editItem"
    /\ isWorking' = FALSE
    /\ IF r.status = "ok" /\ FindVault(r.vault) /\ InVault(r.item, r.vault)
       THEN /\ items' = [items EXCEPT ![r.item] =
                 [vault |-> r.vault, name |-> r.name, fav |-> r.fav,
                  data |-> TRUE]]
            /\ IF Decrypted(r.vault) /\ OnPage(r) THEN OnItemEdited(r)
               ELSE UNCHANGED <<info, editDialog>>
       ELSE UNCHANGED <<items, info, editDialog>>
    /\ UNCHANGED <<vaults, pageVars, dialogVars>>

(* A failed toggle is told to the edit dialog and leaves the star as it    *)
(* was clicked; one that succeeds does not touch the flag m_isWorking.     *)
OnFavoriteToggled(r) ==
    /\ r.op = "toggleFavorite"
    /\ IF r.status = "ok"
       THEN /\ items' = IF InVault(r.item, r.vault)
                        THEN [items EXCEPT ![r.item].fav = r.fav] ELSE items
            /\ info' = IF OnPage(r)
                       THEN [info EXCEPT !.model =
                                {[m EXCEPT !.fav = r.fav] : m \in info.model}]
                       ELSE info
            /\ UNCHANGED isWorking
       ELSE isWorking' = FALSE /\ UNCHANGED <<items, info>>
    /\ UNCHANGED <<vaults, pageVars, editDialog, dialogVars>>
-----------------------------------------------------------------------------
(* The server, one request after the other (VaultStore), and the network,  *)
(* which may lose a request before it is executed, or its answer after.    *)
ServerClash(r) ==
    \E i \in DOMAIN storedItems :
        /\ i # r.item
        /\ storedItems[i].vault = r.vault /\ storedItems[i].name = r.name

Answer(s, status) == requests' = [requests EXCEPT ![s].status = status]
AnswerWith(s, got) ==
    requests' = [requests EXCEPT ![s].status = "ok", ![s].got = got]

ExecuteVaultRequest(s, r) ==
    \/ /\ r.op = "updateVaultList" /\ AnswerWith(s, storedVaults)
       /\ UNCHANGED storedVaults
    \/ /\ r.op = "openVault"
       /\ AnswerWith(s, [i \in {j \in DOMAIN storedItems :
                                    storedItems[j].vault = r.vault}
                           |-> storedItems[i]])
       /\ UNCHANGED storedVaults
    \/ /\ r.op = "addVault" /\ Answer(s, "ok")
       /\ storedVaults' = storedVaults \cup {r.vault}

ExecuteItemRequest(s, r) ==
    \/ /\ r.op = "openItem" /\ Answer(s, "ok")
       /\ UNCHANGED storedItems
    \/ /\ r.op \in {"addItem"} \cup PutOps /\ ~ServerClash(r)
       /\ Answer(s, "ok")
       /\ storedItems' = With(storedItems, r.item,
                              [vault |-> r.vault, name |-> r.name,
                               fav |-> r.fav])

Execute(s) ==
    /\ requests[s].status = "sent"
    /\ \/ ExecuteVaultRequest(s, requests[s]) /\ UNCHANGED storedItems
       \/ ExecuteItemRequest(s, requests[s]) /\ UNCHANGED storedVaults
       \/ Answer(s, "failed") /\ UNCHANGED serverVars
    /\ UNCHANGED <<clicks, managerVars, pageVars, info, editDialog, dialogVars, unsure>>

LoseAnswer(s) ==
    /\ requests[s].status = "ok"
    /\ Answer(s, "failed")
    /\ unsure' = unsure \cup {i \in Items : s \in Puts(i)}
    /\ UNCHANGED <<clicks, managerVars, serverVars, pageVars, info, editDialog,
                   dialogVars>>

OnResult(s) ==
    LET r == requests[s]
    IN  /\ r.status \in {"ok", "failed"}
        /\ requests' = Without(requests, s)
        /\ \/ OnFetchVaultListResult(r) \/ OnOpenVaultResult(r)
           \/ OnAddVaultResult(r) \/ OnAddItemResult(r)
           \/ OnOpenItemResult(r) \/ OnEditItemResult(r)
           \/ OnFavoriteToggled(r)
        /\ UNCHANGED <<clicks, serverVars, unsure>>

Next ==
    \/ \E v \in Vaults : OnVaultSelected(v)
    \/ OnAddVaultClicked \/ OnAddItemButtonClicked
    \/ \E i \in Items, name \in Names : OnAddItem(i, name)
    \/ \E i \in Items : OnItemSelected(i)
    \/ OnErrorRowSelected
    \/ OnEditClicked \/ OnCancel
    \/ \E name \in Names : OnConfirm(name)
    \/ OnFavoriteClicked
    \/ \E s \in DOMAIN requests :
          OnAddVaultComputed(s) \/ Execute(s) \/ LoseAnswer(s) \/ OnResult(s)

(* Workers end, the server answers or the connection breaks (no transfer   *)
(* timeout is set: this is assumed), and the event loop delivers every     *)
(* answer; the user need do nothing.                                       *)
Fairness ==
    \A s \in Slots :
        /\ WF_vars(s \in DOMAIN requests /\ OnAddVaultComputed(s))
        /\ WF_vars(s \in DOMAIN requests /\ Execute(s))
        /\ WF_vars(s \in DOMAIN requests /\ OnResult(s))

Spec == Init /\ [][Next]_vars /\ Fairness
-----------------------------------------------------------------------------
(* Every row of the item list names an item the vault manager holds,       *)
(* however answers for several vaults overtake one another                 *)
(* (VaultManager::onOpenVaultResult clears and refills what the rows name). *)
(* An item that is in its vault's answer and then confirmed as added has   *)
(* two rows, and never more.                                               *)
RowsAreHeld ==
    \A i \in Items : list.rows[i] > 0 =>
        i \in DOMAIN items /\ list.rows[i] <= 2

(* Edits and toggles send all of an item.  An item none of whose requests  *)
(* overlapped another, or ended in an error after it was executed, is      *)
(* known to the client as the server has it.                               *)
ClientAgreesWithServer ==
    \A i \in DOMAIN items \ unsure :
        Puts(i) = {} =>
            /\ i \in DOMAIN storedItems
            /\ items[i].vault = storedItems[i].vault
            /\ items[i].name = storedItems[i].name
            /\ items[i].fav = storedItems[i].fav

(* An item is sent only to the vault it is in (VaultManager::editItem is   *)
(* given the vault on the page, which may be another by then).             *)
PutsNameTheirVault ==
    \A r \in UnderWay :
        r.op \in PutOps =>
            r.item \in DOMAIN storedItems /\ storedItems[r.item].vault = r.vault

(* The manager is never busy for ever: every way an operation ends resets  *)
(* m_isWorking.                                                            *)
WorkEnds == isWorking ~> ~isWorking

(* The page that says an item is loading, and the dialog that says a vault *)
(* is being added, are always replaced by an answer.                       *)
LoadingEnds ==
    /\ info.page = "loading" ~> info.page # "loading"
    /\ addVaultDialog = "loading" ~> addVaultDialog # "loading"

(* VaultManager.cpp:40: one operation at a time ("Another operation is     *)
(* already in progress").                                                  *)
OneOperationAtATime == Cardinality(DOMAIN requests) <= 1
=============================================================================

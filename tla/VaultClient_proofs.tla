-------------------------- MODULE VaultClient_proofs --------------------------
(***************************************************************************)
(* Proofs about VaultClient.tla, for any account, any number of requests   *)
(* under way and any number of clicks: what the list shows is held, what   *)
(* is sent names the right vault, and what is held is what the server has. *)
(***************************************************************************)
EXTENDS VaultClient, FiniteSetTheorems, TLAPS

Statuses == {"computing", "sent", "ok", "failed"}

(* What a request carries depends on its operation only.                   *)
IsRequest(r) ==
    \/ /\ r.op = "updateVaultList"
       /\ r \in [op : {r.op}, got : {r.got}, status : Statuses]
    \/ /\ r.op = "openVault"
       /\ r \in [op : {r.op}, vault : {r.vault}, got : {r.got}, status : Statuses]
    \/ /\ r.op = "addVault"
       /\ r \in [op : {r.op}, vault : {r.vault}, status : Statuses]
    \/ /\ r.op = "openItem"
       /\ r \in [op : {r.op}, vault : {r.vault}, item : {r.item},
                 status : Statuses]
    \/ /\ r.op \in {"addItem"} \cup PutOps
       /\ r \in [op : {r.op}, vault : {r.vault}, item : {r.item},
                 name : {r.name}, fav : {r.fav}, status : Statuses]

(* The server has item i in vault v; it never moves it.                    *)
StoredIn(i, v, st) == i \in DOMAIN st /\ st[i].vault = v

Good(r, st) ==
    /\ IsRequest(r)
    /\ r.status = "computing" => r.op = "addVault"
    /\ r.op \in PutOps => StoredIn(r.item, r.vault, st)
    /\ r.op = "openVault" /\ r.status = "ok" =>
          \A i \in DOMAIN r.got : StoredIn(i, r.vault, st)
    /\ r.op = "addItem" =>
          /\ r.status = "sent" => r.item \notin DOMAIN st
          /\ r.status = "ok" => StoredIn(r.item, r.vault, st)

RequestInv ==
    /\ DOMAIN requests \subseteq Slots
    /\ DOMAIN storedItems \subseteq Items
    /\ \A s \in DOMAIN requests :
          /\ Good(requests[s], storedItems)
          /\ requests[s].op = "addItem" => requests[s].item \in Items
    /\ \A s, t \in DOMAIN requests :
          requests[s].op = "addItem" /\ requests[t].op = "addItem"
          /\ requests[s].item = requests[t].item => s = t

(* The items held are stored, in the vault they are held in.               *)
IsItem(x) ==
    x \in [vault : {x.vault}, name : {x.name}, fav : {x.fav}, data : {x.data}]

HeldInv ==
    /\ items = [i \in DOMAIN items |-> items[i]]
    /\ \A i \in DOMAIN items :
          IsItem(items[i]) /\ StoredIn(i, items[i].vault, storedItems)

(* An item has a second row only once its addition has been answered.      *)
RowsInv ==
    /\ list \in [error : BOOLEAN, rows : [Items -> Nat]]
    /\ RowsAreHeld
    /\ \A s \in DOMAIN requests :
          requests[s].op = "addItem" /\ requests[s].item \in Items =>
              list.rows[requests[s].item] <= 1

IInv == RequestInv /\ HeldInv /\ RowsInv
-----------------------------------------------------------------------------
LEMMA InitIInv == Init => IInv
<1> SUFFICES ASSUME Init PROVE IInv
  OBVIOUS
<1>1. RequestInv
  BY StoredAssumption, BoundAssumption
     DEF Init, RequestInv, Good, IsRequest, Statuses, PutOps, Slots
<1>2. HeldInv
  BY DEF Init, HeldInv, Empty
<1>3. RowsInv
  BY DEF Init, RowsInv, RowsAreHeld, NoRows
<1> QED
  BY <1>1, <1>2, <1>3 DEF IInv

Same(x, y) == x.name = y.name /\ x.fav = y.fav

(* A request that is answered keeps what it carries.                       *)
LEMMA Answered ==
    ASSUME NEW r, IsRequest(r), NEW status \in Statuses,
           NEW q, q = [r EXCEPT !.status = status]
    PROVE  /\ IsRequest(q) /\ q.op = r.op /\ q.status = status
           /\ r.op # "updateVaultList" => q.vault = r.vault
           /\ r.op \in {"addItem", "openItem"} \cup PutOps => q.item = r.item
           /\ r.op \in {"addItem"} \cup PutOps => Same(q, r)
           /\ r.op = "openVault" => q.got = r.got
<1> USE DEF Same
<1> USE DEF IsRequest, PutOps
<1>1. CASE r.op = "updateVaultList"
  BY <1>1
<1>2. CASE r.op = "openVault"
  BY <1>2
<1>3. CASE r.op = "addVault"
  BY <1>3
<1>4. CASE r.op = "openItem"
  BY <1>4
<1>5. CASE r.op \in {"addItem"} \cup PutOps
  BY <1>5
<1> QED
  BY <1>1, <1>2, <1>3, <1>4, <1>5

(* A new request joins those under way, in a slot of its own.              *)
LEMMA FreeSlot ==
    ASSUME DOMAIN requests \subseteq Slots, NEW r, Send(r)
    PROVE  \E slot \in Slots \ DOMAIN requests :
               requests' = With(requests, slot, r)
<1>1. Cardinality(Slots) = MaxRequests
  BY BoundAssumption, FS_Interval DEF Slots
<1>2. \E slot \in Slots : slot \notin DOMAIN requests
  <2> SUFFICES ASSUME DOMAIN requests = Slots PROVE FALSE
    OBVIOUS
  <2> QED
    BY <1>1, BoundAssumption DEF Send
<1> QED
  BY <1>2 DEF Send

LEMMA SendStep ==
    ASSUME RequestInv, NEW r, Send(r), UNCHANGED storedItems,
           Good(r, storedItems),
           r.op = "addItem" => r.item \in Items /\ \A t \in DOMAIN requests :
               requests[t].op = "addItem" => requests[t].item # r.item
    PROVE  /\ RequestInv'
           /\ \A s \in DOMAIN requests' :
                 \/ requests'[s] = r
                 \/ s \in DOMAIN requests /\ requests'[s] = requests[s]
<1>1. PICK slot \in Slots : requests' = With(requests, slot, r)
  BY FreeSlot DEF RequestInv
<1>2. /\ DOMAIN requests' = DOMAIN requests \cup {slot}
      /\ \A s \in DOMAIN requests' :
            requests'[s] = IF s = slot THEN r ELSE requests[s]
  BY <1>1 DEF With
<1>3. \A s \in DOMAIN requests' :
          /\ Good(requests'[s], storedItems')
          /\ requests'[s].op = "addItem" => requests'[s].item \in Items
  BY <1>2 DEF RequestInv
<1>4. \A s, t \in DOMAIN requests' :
          requests'[s].op = "addItem" /\ requests'[t].op = "addItem"
          /\ requests'[s].item = requests'[t].item => s = t
  <2> TAKE s, t \in DOMAIN requests'
  <2> HAVE requests'[s].op = "addItem" /\ requests'[t].op = "addItem"
           /\ requests'[s].item = requests'[t].item
  <2>1. CASE s = slot \/ t = slot
    BY <1>2, <2>1
  <2>2. CASE s # slot /\ t # slot
    BY <1>2, <2>2 DEF RequestInv
  <2> QED
    BY <2>1, <2>2
<1> QED
  BY <1>2, <1>3, <1>4 DEF RequestInv

(* Fewer requests, or the same.                                            *)
LEMMA FewerRequests ==
    ASSUME RequestInv, UNCHANGED storedItems,
           \A s \in DOMAIN requests' :
               s \in DOMAIN requests /\ requests'[s] = requests[s]
    PROVE  RequestInv'
  BY DEF RequestInv

(* What the server stores grows, and stays in its vault.                   *)
LEMMA StoreGrows ==
    ASSUME NEW r, NEW st, Good(r, st), r.op \in {"addItem"} \cup PutOps,
           r.status = "sent", NEW x, x.vault = r.vault
    PROVE  /\ StoredIn(r.item, r.vault, With(st, r.item, x))
           /\ \A i, v : StoredIn(i, v, st) => StoredIn(i, v, With(st, r.item, x))
           /\ \A i : i \in DOMAIN With(st, r.item, x) => i \in DOMAIN st \/ i = r.item
  BY DEF Good, StoredIn, With, PutOps

(* The user's clicks: the items stay, the list stays or is emptied, and at *)
(* most one request is sent, for an item the server has in that vault or   *)
(* for one that nobody has.                                                *)
Fresh(r) ==
    /\ Good(r, storedItems)
    /\ r.op # "updateVaultList"
    /\ r.op \in {"openVault", "addItem"} \cup PutOps => r.status = "sent"
    /\ r.op \in PutOps => InVault(r.item, r.vault) /\ FindVault(r.vault)
    /\ r.op = "toggleFavorite" => r.name = items[r.item].name
    /\ r.op = "addItem" =>
        /\ r.item \in Items /\ r.item \notin DOMAIN items
        /\ \A t \in DOMAIN requests :
              requests[t].op = "addItem" => requests[t].item # r.item

Clicked ==
    /\ UNCHANGED <<items, storedItems>>
    /\ list' = list \/ list' \in [error : BOOLEAN, rows : {NoRows}]
    /\ DOMAIN vaults' = DOMAIN vaults
    /\ UNCHANGED <<requests, unsure>> \/ \E r : Send(r) /\ Fresh(r)

LEMMA ClickedStep == IInv /\ Clicked => IInv'
<1> SUFFICES ASSUME IInv, Clicked PROVE IInv'
  OBVIOUS
<1> USE DEF IInv, Clicked
<1>1. HeldInv'
  BY DEF HeldInv
<1>2. list' \in [error : BOOLEAN, rows : [Items -> Nat]] /\ RowsAreHeld'
  BY DEF RowsInv, RowsAreHeld, NoRows
<1>3. \A i \in Items : list'.rows[i] <= list.rows[i]
  BY DEF RowsInv, NoRows
<1>4. CASE UNCHANGED <<requests, unsure>>
  <2>1. RequestInv'
    BY <1>4 DEF RequestInv
  <2>2. RowsInv'
    BY <1>2, <1>3, <1>4 DEF RowsInv
  <2> QED
    BY <1>1, <2>1, <2>2
<1>5. ASSUME NEW r, Send(r), Fresh(r) PROVE IInv'
  <2>1. /\ RequestInv'
        /\ \A s \in DOMAIN requests' :
              \/ requests'[s] = r
              \/ s \in DOMAIN requests /\ requests'[s] = requests[s]
    BY <1>5, SendStep DEF Fresh
  <2>2. r.op = "addItem" /\ r.item \in Items => list.rows[r.item] = 0
    BY <1>5 DEF Fresh, RowsInv, RowsAreHeld
  <2>3. ASSUME NEW s \in DOMAIN requests', requests'[s].op = "addItem",
               requests'[s].item \in Items
        PROVE  list'.rows[requests'[s].item] <= 1
    <3>1. list.rows[requests'[s].item] <= 1
      BY <2>1, <2>2, <2>3 DEF RowsInv
    <3> QED
      BY <1>2, <1>3, <2>3, <3>1 DEF RowsInv
  <2> QED
    BY <1>1, <1>2, <2>1, <2>3 DEF RowsInv
<1> QED
  BY <1>4, <1>5

(* An edit or a toggle is sent for an item of the vault it names.          *)
LEMMA PutIsFresh ==
    ASSUME HeldInv, NEW op \in PutOps, NEW v, NEW m, InVault(m.id, v),
           Decrypted(v), op = "toggleFavorite" => m.name = items[m.id].name,
           PutItem(op, v, m)
    PROVE  \E r : Send(r) /\ Fresh(r)
<1> DEFINE r == [op |-> op, vault |-> v, item |-> m.id, name |-> m.name,
                 fav |-> m.fav, status |-> "sent"]
<1>1. StoredIn(m.id, v, storedItems)
  BY DEF InVault, HeldInv
<1>2. Fresh(r)
  BY <1>1 DEF Fresh, Good, IsRequest, Statuses, PutOps, Decrypted, FindVault
<1>3. Send(r)
  BY DEF PutItem
<1> QED
  BY <1>2, <1>3

LEMMA VaultClicks ==
    ASSUME HeldInv,
           \/ \E v \in Vaults : OnVaultSelected(v)
           \/ OnAddVaultClicked \/ OnAddItemButtonClicked
           \/ \E i \in Items, name \in Names : OnAddItem(i, name)
    PROVE  Clicked
<1>1. ASSUME NEW v \in Vaults, OnVaultSelected(v) PROVE Clicked
  <2>0. /\ UNCHANGED <<items, storedItems>> /\ OpenVault(v)
        /\ DOMAIN vaults' = DOMAIN vaults
    BY <1>1 DEF OnVaultSelected, serverVars, OpenVault, OpenVaultFails,
                DecryptVaultKey
  <2>1. list' \in [error : BOOLEAN, rows : {NoRows}]
    <3>1. list' = [error |-> TRUE, rows |-> NoRows]
          \/ list' = [error |-> FALSE, rows |-> NoRows]
      BY <2>0, Zenon DEF OpenVault, OpenVaultFails, EnterErrorMode, ClearItems
    <3>2. \A e \in BOOLEAN : [error |-> e, rows |-> NoRows]
                                \in [error : BOOLEAN, rows : {NoRows}]
      OBVIOUS
    <3> QED
      BY <3>1, <3>2
  <2>2. CASE DoNotSend
    BY <2>0, <2>1, <2>2 DEF DoNotSend, Clicked
  <2>3. CASE Send([op |-> "openVault", vault |-> v, got |-> Empty,
                   status |-> "sent"])
    <3> DEFINE r == [op |-> "openVault", vault |-> v, got |-> Empty,
                     status |-> "sent"]
    <3>1. Fresh(r)
      BY DEF Fresh, Good, IsRequest, Statuses, PutOps
    <3> QED
      BY <2>0, <2>1, <2>3, <3>1 DEF Clicked
  <2> QED
    BY <2>0, <2>2, <2>3, Zenon DEF OpenVault, OpenVaultFails
<1>2. CASE OnAddVaultClicked
  <2>1. UNCHANGED <<items, storedItems, list, vaults>>
    BY <1>2 DEF OnAddVaultClicked, serverVars, pageVars
  <2>2. CASE DoNotSend
    BY <2>1, <2>2 DEF DoNotSend, Clicked
  <2>3. ASSUME NEW v, Send([op |-> "addVault", vault |-> v,
                            status |-> "computing"])
        PROVE  Clicked
    <3> DEFINE r == [op |-> "addVault", vault |-> v, status |-> "computing"]
    <3>1. Fresh(r)
      BY DEF Fresh, Good, IsRequest, Statuses, PutOps
    <3> QED
      BY <2>1, <2>3, <3>1 DEF Clicked
  <2> QED
    BY <1>2, <2>2, <2>3 DEF OnAddVaultClicked, AddVault
<1>3. CASE OnAddItemButtonClicked
  BY <1>3 DEF OnAddItemButtonClicked, Clicked, managerVars, serverVars, pageVars
<1>4. ASSUME NEW i \in Items, NEW name \in Names, OnAddItem(i, name) PROVE Clicked
  <2>1. UNCHANGED <<items, storedItems, list, vaults>> /\ i \in NewItems
    BY <1>4 DEF OnAddItem, serverVars, pageVars
  <2>2. CASE DoNotSend
    BY <2>1, <2>2 DEF DoNotSend, Clicked
  <2>3. ASSUME NEW v, Send([op |-> "addItem", vault |-> v, item |-> i,
                            name |-> name, fav |-> FALSE, status |-> "sent"])
        PROVE  Clicked
    <3> DEFINE r == [op |-> "addItem", vault |-> v, item |-> i, name |-> name,
                     fav |-> FALSE, status |-> "sent"]
    <3>1. /\ i \notin DOMAIN storedItems /\ i \notin DOMAIN items
          /\ \A t \in DOMAIN requests :
                requests[t].op = "addItem" => requests[t].item # i
      BY <2>1 DEF NewItems, UnderWay
    <3>2. Fresh(r)
      BY <3>1 DEF Fresh, Good, IsRequest, Statuses, PutOps
    <3> QED
      BY <2>1, <2>3, <3>2 DEF Clicked
  <2> QED
    BY <1>4, <2>2, <2>3 DEF OnAddItem, AddItem
<1> QED
  BY <1>1, <1>2, <1>3, <1>4

LEMMA ItemClicks ==
    ASSUME HeldInv,
           \/ \E i \in Items : OnItemSelected(i)
           \/ OnErrorRowSelected \/ OnEditClicked \/ OnCancel
           \/ \E name \in Names : OnConfirm(name)
           \/ OnFavoriteClicked
    PROVE  Clicked
<1>1. ASSUME NEW i \in Items, OnItemSelected(i) PROVE Clicked
  <2>1. UNCHANGED <<items, storedItems, list, vaults>>
    BY <1>1 DEF OnItemSelected, serverVars, pageVars
  <2>2. CASE DoNotSend
    BY <2>1, <2>2 DEF DoNotSend, Clicked
  <2>3. ASSUME NEW v, Send([op |-> "openItem", vault |-> v, item |-> i,
                            status |-> "sent"])
        PROVE  Clicked
    <3> DEFINE r == [op |-> "openItem", vault |-> v, item |-> i,
                     status |-> "sent"]
    <3>1. Fresh(r)
      BY DEF Fresh, Good, IsRequest, Statuses, PutOps
    <3> QED
      BY <2>1, <2>3, <3>1 DEF Clicked
  <2> QED
    BY <1>1, <2>2, <2>3 DEF OnItemSelected, OpenItem, OpenItemRefused
<1>2. CASE OnErrorRowSelected \/ OnEditClicked \/ OnCancel
  BY <1>2 DEF OnErrorRowSelected, OpenItemRefused, DoNotSend, OnEditClicked,
              OnCancel, Clicked, managerVars, serverVars, pageVars
<1>3. ASSUME NEW name \in Names, OnConfirm(name) PROVE Clicked
  <2>1. UNCHANGED <<items, storedItems, list, vaults>>
    BY <1>3 DEF OnConfirm, serverVars, pageVars
  <2>2. CASE DoNotSend
    BY <2>1, <2>2 DEF DoNotSend, Clicked
  <2>3. ASSUME NEW v, NEW m, InVault(m.id, v), Decrypted(v),
               PutItem("editItem", v, m)
        PROVE  Clicked
    BY <2>1, <2>3, PutIsFresh DEF Clicked, PutOps
  <2> QED
    BY <1>3, <2>2, <2>3 DEF OnConfirm, EditItem, EditAllowed
<1>4. CASE OnFavoriteClicked
  <2>1. UNCHANGED <<items, storedItems, list, vaults>>
    BY <1>4 DEF OnFavoriteClicked, serverVars, pageVars
  <2>2. CASE DoNotSend
    BY <2>1, <2>2 DEF DoNotSend, Clicked
  <2>3. ASSUME NEW v, NEW n, InVault(n.id, v), Decrypted(v),
               PutItem("toggleFavorite", v, [ModelOf(n.id) EXCEPT !.fav = n.fav])
        PROVE  Clicked
    <3>1. /\ [ModelOf(n.id) EXCEPT !.fav = n.fav].id = n.id
          /\ [ModelOf(n.id) EXCEPT !.fav = n.fav].name = items[n.id].name
      BY DEF ModelOf
    <3> QED
      BY <2>1, <2>3, <3>1, PutIsFresh DEF Clicked, PutOps
  <2> QED
    BY <1>4, <2>2, <2>3 DEF OnFavoriteClicked, ToggleFavorite
<1> QED
  BY <1>1, <1>2, <1>3, <1>4
-----------------------------------------------------------------------------
(* A request takes a further step, by which the server may store its item. *)
LEMMA AnsweredStep ==
    ASSUME IInv, NEW s \in DOMAIN requests, NEW q,
           DOMAIN requests' = DOMAIN requests,
           \A t \in DOMAIN requests :
               requests'[t] = IF t = s THEN q ELSE requests[t],
           Good(q, storedItems'), q.op = requests[s].op,
           q.op = "addItem" => q.item = requests[s].item,
           \A i, v : StoredIn(i, v, storedItems) => StoredIn(i, v, storedItems'),
           \A i \in DOMAIN storedItems' :
               \/ i \in DOMAIN storedItems
               \/ requests[s].op = "addItem" /\ i = requests[s].item,
           UNCHANGED <<items, list>>
    PROVE  IInv'
<1>1. \A t \in DOMAIN requests' : Good(requests'[t], storedItems')
  <2> TAKE t \in DOMAIN requests'
  <2>1. CASE t = s
    BY <2>1
  <2>2. CASE t # s
    <3>1. requests'[t] = requests[t] /\ Good(requests[t], storedItems)
      BY <2>2 DEF IInv, RequestInv
    <3>2. requests[t].op = "addItem" /\ requests[t].status = "sent" =>
              requests[t].item \notin DOMAIN storedItems'
      BY <2>2, <3>1 DEF IInv, RequestInv, Good
    <3> QED
      BY <3>1, <3>2 DEF Good
  <2> QED
    BY <2>1, <2>2
<1>2. \A t \in DOMAIN requests' :
          /\ requests'[t].op = requests[t].op
          /\ requests'[t].op = "addItem" => requests'[t].item = requests[t].item
  OBVIOUS
<1>3. RequestInv'
  BY <1>1, <1>2 DEF IInv, RequestInv
<1>4. HeldInv'
  BY DEF IInv, HeldInv
<1>5. RowsInv'
  BY <1>2 DEF IInv, RowsInv, RowsAreHeld
<1> QED
  BY <1>3, <1>4, <1>5 DEF IInv

(* Nothing is stored, and what the request carries stays.                  *)
LEMMA StatusStep ==
    ASSUME IInv, NEW s \in DOMAIN requests, NEW status \in {"sent", "ok", "failed"},
           requests' = [requests EXCEPT ![s].status = status],
           UNCHANGED <<items, storedItems, list>>,
           \/ status = "failed"
           \/ requests[s].op \notin {"addItem", "openVault"}
    PROVE  IInv'
<1> DEFINE r == requests[s]
           q == [r EXCEPT !.status = status]
<1>1. Good(r, storedItems)
  BY DEF IInv, RequestInv
<1>2. /\ IsRequest(q) /\ q.op = r.op /\ q.status = status
      /\ r.op # "updateVaultList" => q.vault = r.vault
      /\ r.op \in {"addItem", "openItem"} \cup PutOps => q.item = r.item
  BY <1>1, Answered DEF Good, Statuses
<1>3. Good(q, storedItems)
  BY <1>1, <1>2 DEF Good, PutOps
<1>4. /\ DOMAIN requests' = DOMAIN requests
      /\ \A t \in DOMAIN requests :
            requests'[t] = IF t = s THEN q ELSE requests[t]
  OBVIOUS
<1> HIDE DEF q
<1> QED
  BY <1>2, <1>3, <1>4, AnsweredStep

LEMMA ComputedStep ==
    ASSUME IInv, NEW s \in DOMAIN requests, OnAddVaultComputed(s)
    PROVE  IInv'
<1>1. UNCHANGED <<items, storedItems, list>> /\ requests[s].op = "addVault"
  BY DEF OnAddVaultComputed, serverVars, pageVars, IInv, RequestInv, Good
<1>2. CASE requests' = [requests EXCEPT ![s].status = "sent"]
  BY <1>1, <1>2, StatusStep
<1>3. CASE requests' = Without(requests, s)
  <2>1. \A t \in DOMAIN requests' :
            t \in DOMAIN requests /\ requests'[t] = requests[t]
    BY <1>3 DEF Without
  <2>2. RequestInv'
    BY <1>1, <2>1, FewerRequests DEF IInv
  <2>3. HeldInv' /\ RowsInv'
    BY <1>1, <2>1 DEF IInv, HeldInv, RowsInv, RowsAreHeld
  <2> QED
    BY <2>2, <2>3 DEF IInv
<1> QED
  BY <1>2, <1>3 DEF OnAddVaultComputed

LEMMA LoseStep ==
    ASSUME IInv, NEW s \in DOMAIN requests, LoseAnswer(s)
    PROVE  IInv'
<1>1. UNCHANGED <<items, storedItems, list>>
      /\ requests' = [requests EXCEPT ![s].status = "failed"]
  BY DEF LoseAnswer, Answer, managerVars, serverVars, pageVars
<1> QED
  BY <1>1, StatusStep

(* The server answers with what it has, or stores the item it is sent.     *)
LEMMA AnswerStep ==
    ASSUME IInv, NEW s \in DOMAIN requests, NEW got,
           requests[s].op \in {"updateVaultList", "openVault"},
           AnswerWith(s, got), UNCHANGED <<items, storedItems, list>>,
           requests[s].op = "openVault" =>
               \A i \in DOMAIN got : StoredIn(i, requests[s].vault, storedItems)
    PROVE  IInv'
<1> DEFINE r == requests[s]
           q == [r EXCEPT !.status = "ok", !.got = got]
<1>1. Good(r, storedItems)
  BY DEF IInv, RequestInv
<1>2. /\ IsRequest(q) /\ q.op = r.op /\ q.status = "ok" /\ q.got = got
      /\ r.op = "openVault" => q.vault = r.vault
  <2>1. IsRequest(r) /\ r.op \in {"updateVaultList", "openVault"}
    BY <1>1 DEF Good
  <2> HIDE DEF r
  <2> QED
    BY <2>1 DEF IsRequest, PutOps, Statuses
<1>3. Good(q, storedItems)
  BY <1>1, <1>2 DEF Good, PutOps
<1>4. /\ DOMAIN requests' = DOMAIN requests
      /\ \A t \in DOMAIN requests :
            requests'[t] = IF t = s THEN q ELSE requests[t]
  BY DEF AnswerWith
<1> HIDE DEF q
<1> QED
  BY <1>2, <1>3, <1>4, AnsweredStep

LEMMA StoreStep ==
    ASSUME IInv, NEW s \in DOMAIN requests, NEW x, x.vault = requests[s].vault,
           requests[s].op \in {"addItem"} \cup PutOps,
           requests[s].status = "sent", Answer(s, "ok"),
           storedItems' = With(storedItems, requests[s].item, x),
           UNCHANGED <<items, list>>
    PROVE  IInv'
<1> DEFINE r == requests[s]
           q == [r EXCEPT !.status = "ok"]
<1>1. Good(r, storedItems)
  BY DEF IInv, RequestInv
<1>2. /\ IsRequest(q) /\ q.op = r.op /\ q.status = "ok"
      /\ q.vault = r.vault /\ q.item = r.item
  BY <1>1, Answered DEF Good, Statuses, PutOps
<1>3. /\ StoredIn(r.item, r.vault, storedItems')
      /\ \A i, v : StoredIn(i, v, storedItems) => StoredIn(i, v, storedItems')
      /\ \A i \in DOMAIN storedItems' : i \in DOMAIN storedItems \/ i = r.item
  BY <1>1, StoreGrows
<1>4. \A i \in DOMAIN storedItems' :
          \/ i \in DOMAIN storedItems
          \/ r.op = "addItem" /\ i = r.item
  BY <1>1, <1>3 DEF Good, StoredIn
<1>5. Good(q, storedItems')
  BY <1>2, <1>3 DEF Good, PutOps
<1>6. /\ DOMAIN requests' = DOMAIN requests
      /\ \A t \in DOMAIN requests :
            requests'[t] = IF t = s THEN q ELSE requests[t]
  BY DEF Answer
<1> HIDE DEF q
<1> QED
  BY <1>2, <1>3, <1>4, <1>5, <1>6, AnsweredStep

LEMMA ExecuteStep ==
    ASSUME IInv, NEW s \in DOMAIN requests, Execute(s)
    PROVE  IInv'
<1> DEFINE r == requests[s]
<1>1. UNCHANGED <<items, list>> /\ r.status = "sent"
  BY DEF Execute, managerVars, pageVars
<1>2. CASE ExecuteVaultRequest(s, r) /\ UNCHANGED storedItems
  <2>1. CASE r.op = "updateVaultList" /\ AnswerWith(s, storedVaults)
    BY <1>1, <1>2, <2>1, AnswerStep
  <2>2. CASE r.op = "openVault"
             /\ AnswerWith(s, [i \in {j \in DOMAIN storedItems :
                                          storedItems[j].vault = r.vault}
                                  |-> storedItems[i]])
    <3> DEFINE got == [i \in {j \in DOMAIN storedItems :
                                  storedItems[j].vault = r.vault}
                          |-> storedItems[i]]
    <3>1. \A i \in DOMAIN got : StoredIn(i, r.vault, storedItems)
      BY DEF StoredIn
    <3> HIDE DEF got
    <3> QED
      BY <1>1, <1>2, <2>2, <3>1, AnswerStep DEF got
  <2>3. CASE r.op = "addVault" /\ Answer(s, "ok")
    BY <1>1, <1>2, <2>3, StatusStep DEF Answer
  <2> QED
    BY <1>2, <2>1, <2>2, <2>3 DEF ExecuteVaultRequest
<1>3. CASE ExecuteItemRequest(s, r)
  <2>1. CASE r.op = "openItem" /\ Answer(s, "ok") /\ UNCHANGED storedItems
    BY <1>1, <2>1, StatusStep DEF Answer
  <2>2. CASE /\ r.op \in {"addItem"} \cup PutOps /\ Answer(s, "ok")
             /\ storedItems' = With(storedItems, r.item,
                                    [vault |-> r.vault, name |-> r.name,
                                     fav |-> r.fav])
    BY <1>1, <2>2, StoreStep
  <2> QED
    BY <1>3, <2>1, <2>2 DEF ExecuteItemRequest
<1>4. CASE Answer(s, "failed") /\ UNCHANGED serverVars
  BY <1>1, <1>4, StatusStep DEF Answer, serverVars
<1> QED
  BY <1>2, <1>3, <1>4 DEF Execute
-----------------------------------------------------------------------------
(* An answer is delivered: it leaves, and its handler changes what is held *)
(* and shown.  Requests for the addition of other items remain.            *)
Delivered(s) ==
    /\ requests' = Without(requests, s)
    /\ UNCHANGED storedItems

LEMMA DeliveredStep ==
    ASSUME IInv, NEW s \in DOMAIN requests, Delivered(s)
    PROVE  /\ RequestInv'
           /\ \A t \in DOMAIN requests' :
                 t \in DOMAIN requests /\ t # s /\ requests'[t] = requests[t]
<1>1. \A t \in DOMAIN requests' :
          t \in DOMAIN requests /\ t # s /\ requests'[t] = requests[t]
  BY DEF Delivered, Without
<1>2. RequestInv'
  BY <1>1, FewerRequests DEF IInv, Delivered
<1> QED
  BY <1>1, <1>2

(* The same items, or some held with other contents: the rows stay held.   *)
LEMMA SameItems ==
    ASSUME IInv, NEW s \in DOMAIN requests, Delivered(s), HeldInv',
           DOMAIN items' = DOMAIN items, UNCHANGED list
    PROVE  IInv'
  BY DeliveredStep DEF IInv, RowsInv, RowsAreHeld

(* The list is emptied, or shows each of what is held once.                *)
LEMMA NewRows ==
    ASSUME IInv, NEW s \in DOMAIN requests, Delivered(s), HeldInv',
           \/ EnterErrorMode
           \/ \E loaded \in SUBSET DOMAIN items' : SetItems(loaded)
    PROVE  IInv'
<1>1. /\ list' \in [error : BOOLEAN, rows : [Items -> Nat]]
      /\ \A i \in Items : list'.rows[i] <= 1
      /\ \A i \in Items : list'.rows[i] > 0 => i \in DOMAIN items'
  <2>1. CASE EnterErrorMode
    BY <2>1 DEF EnterErrorMode, NoRows
  <2>2. ASSUME NEW loaded \in SUBSET DOMAIN items', SetItems(loaded)
        PROVE  /\ list' \in [error : BOOLEAN, rows : [Items -> Nat]]
               /\ \A i \in Items : list'.rows[i] <= 1
               /\ \A i \in Items : list'.rows[i] > 0 => i \in DOMAIN items'
    BY <2>2 DEF SetItems
  <2> QED
    BY <2>1, <2>2
<1>2. RowsInv'
  BY <1>1 DEF RowsInv, RowsAreHeld
<1> QED
  BY <1>2, DeliveredStep DEF IInv

(* A vault's items are replaced by those of its answer.                    *)
LEMMA ReloadHolds ==
    ASSUME HeldInv, NEW v, NEW got, NEW loaded \in SUBSET DOMAIN got,
           Reload(v, loaded, got), UNCHANGED storedItems,
           \A i \in DOMAIN got : StoredIn(i, v, storedItems)
    PROVE  HeldInv' /\ loaded \in SUBSET DOMAIN items'
  BY DEF HeldInv, Reload, IsItem, StoredIn

LEMMA OpenVaultResult ==
    ASSUME IInv, NEW s \in DOMAIN requests, Delivered(s),
           OnOpenVaultResult(requests[s])
    PROVE  IInv'
<1> DEFINE r == requests[s]
<1>1. CASE EnterErrorMode /\ UNCHANGED items
  <2>1. HeldInv'
    BY <1>1 DEF IInv, HeldInv, Delivered
  <2> QED
    BY <1>1, <2>1, NewRows
<1>2. ASSUME NEW loaded \in SUBSET DOMAIN r.got, Reload(r.vault, loaded, r.got),
             r.status = "ok", SetItems(loaded) \/ EnterErrorMode
      PROVE  IInv'
  <2>1. \A i \in DOMAIN r.got : StoredIn(i, r.vault, storedItems)
    BY <1>2 DEF OnOpenVaultResult, IInv, RequestInv, Good
  <2>2. HeldInv' /\ loaded \in SUBSET DOMAIN items'
    BY <1>2, <2>1, ReloadHolds DEF IInv, Delivered
  <2> QED
    BY <1>2, <2>2, NewRows
<1> QED
  BY <1>1, <1>2, Zenon DEF OnOpenVaultResult

LEMMA AddItemResult ==
    ASSUME IInv, NEW s \in DOMAIN requests, Delivered(s),
           OnAddItemResult(requests[s])
    PROVE  IInv'
<1> DEFINE r == requests[s]
<1>1. CASE r.status = "failed" /\ UNCHANGED <<items, list>>
  <2>1. HeldInv'
    BY <1>1 DEF IInv, HeldInv, Delivered
  <2> QED
    BY <1>1, <2>1, SameItems
<1>2. CASE /\ ItemAdded(r) /\ AddRow(r.item)
           /\ items' = IF r.item \in DOMAIN items THEN items
                       ELSE With(items, r.item,
                                 [vault |-> r.vault, name |-> r.name,
                                  fav |-> r.fav, data |-> TRUE])
  <2>1. StoredIn(r.item, r.vault, storedItems)
    BY <1>2 DEF ItemAdded, IInv, RequestInv, Good
  <2>2. HeldInv' /\ DOMAIN items' = DOMAIN items \cup {r.item}
    BY <1>2, <2>1 DEF IInv, HeldInv, With, IsItem, Delivered
  <2>3. /\ list' \in [error : BOOLEAN, rows : [Items -> Nat]]
        /\ \A i \in Items :
              list'.rows[i] = IF i = r.item THEN list.rows[i] + 1
                              ELSE list.rows[i]
    BY <1>2 DEF AddRow, IInv, RowsInv
  <2>4. r.item \in Items => list.rows[r.item] <= 1
    BY <1>2 DEF ItemAdded, IInv, RowsInv
  <2>5. RowsAreHeld'
    BY <2>2, <2>3, <2>4 DEF IInv, RowsInv, RowsAreHeld
  <2>6. ASSUME NEW t \in DOMAIN requests', requests'[t].op = "addItem",
               requests'[t].item \in Items
        PROVE  list'.rows[requests'[t].item] <= 1
    <3>1. t \in DOMAIN requests /\ t # s /\ requests'[t] = requests[t]
      BY DeliveredStep
    <3>2. requests[t].item # r.item
      BY <1>2, <2>6, <3>1 DEF ItemAdded, IInv, RequestInv
    <3> QED
      BY <2>3, <2>6, <3>1, <3>2 DEF IInv, RowsInv
  <2> QED
    BY <2>2, <2>3, <2>5, <2>6, DeliveredStep DEF IInv, RowsInv
<1> QED
  BY <1>1, <1>2, Zenon DEF OnAddItemResult

(* The other answers replace at most what is held of one item.             *)
LEMMA OneItem ==
    ASSUME IInv, NEW s \in DOMAIN requests, Delivered(s), UNCHANGED list,
           \/ UNCHANGED items
           \/ \E i, x :
                 /\ items' = [items EXCEPT ![i] = x]
                 /\ i \in DOMAIN items =>
                       IsItem(x) /\ StoredIn(i, x.vault, storedItems)
    PROVE  IInv'
<1>1. HeldInv' /\ DOMAIN items' = DOMAIN items
  BY DEF IInv, HeldInv, Delivered
<1> QED
  BY <1>1, SameItems

LEMMA OtherResults ==
    ASSUME IInv, NEW s \in DOMAIN requests, Delivered(s), NEW r, r = requests[s],
           \/ OnFetchVaultListResult(r) \/ OnAddVaultResult(r)
           \/ OnOpenItemResult(r) \/ OnEditItemResult(r) \/ OnFavoriteToggled(r)
    PROVE  IInv'
<1>1. CASE OnFetchVaultListResult(r) \/ OnAddVaultResult(r)
  BY <1>1, OneItem DEF OnFetchVaultListResult, OnAddVaultResult
<1>2. CASE OnOpenItemResult(r)
  <2> DEFINE x == [items[r.item] EXCEPT !.data = TRUE]
  <2>1. r.item \in DOMAIN items =>
            IsItem(x) /\ StoredIn(r.item, x.vault, storedItems)
    BY DEF IInv, HeldInv, IsItem, StoredIn
  <2>2. UNCHANGED list /\ (UNCHANGED items \/ items' = [items EXCEPT ![r.item] = x])
    BY <1>2 DEF OnOpenItemResult, pageVars
  <2> QED
    BY <2>1, <2>2, OneItem
<1>3. CASE OnEditItemResult(r)
  <2> DEFINE x == [vault |-> r.vault, name |-> r.name, fav |-> r.fav, data |-> TRUE]
  <2>1. StoredIn(r.item, x.vault, storedItems) /\ IsItem(x)
    BY <1>3 DEF OnEditItemResult, IInv, RequestInv, Good, IsItem, PutOps
  <2>2. UNCHANGED list /\ (UNCHANGED items \/ items' = [items EXCEPT ![r.item] = x])
    BY <1>3 DEF OnEditItemResult, pageVars
  <2> QED
    BY <2>1, <2>2, OneItem
<1>4. CASE OnFavoriteToggled(r)
  <2> DEFINE x == [items[r.item] EXCEPT !.fav = r.fav]
  <2>1. r.item \in DOMAIN items =>
            IsItem(x) /\ StoredIn(r.item, x.vault, storedItems)
    BY DEF IInv, HeldInv, IsItem, StoredIn
  <2>2. UNCHANGED list /\ (UNCHANGED items \/ items' = [items EXCEPT ![r.item] = x])
    BY <1>4 DEF OnFavoriteToggled, pageVars
  <2> QED
    BY <2>1, <2>2, OneItem
<1> QED
  BY <1>1, <1>2, <1>3, <1>4

LEMMA ResultStep ==
    ASSUME IInv, NEW s \in DOMAIN requests, OnResult(s)
    PROVE  IInv'
<1>1. Delivered(s)
  BY DEF OnResult, Delivered, serverVars
<1> QED
  BY <1>1, OpenVaultResult, AddItemResult, OtherResults DEF OnResult
-----------------------------------------------------------------------------
(* What is known of an item that is not unsure.  While an edit or toggle   *)
(* of it is under way nothing else is that could change it at either end;  *)
(* what the server has is what that request carries once it is executed,   *)
(* and before that, or without one, what the client holds.  An answer that *)
(* is not delivered yet has the item as the server has it.                 *)
PutInv(s, i) ==
    LET r == requests[s]
    IN  /\ i \in DOMAIN items /\ FindVault(r.vault)
        /\ \A t \in DOMAIN requests :
              /\ requests[t].op \in PutOps /\ requests[t].item = i => t = s
              /\ requests[t].op # "updateVaultList"
              /\ requests[t].op = "openVault" => requests[t].vault # r.vault
              /\ requests[t].op = "addItem" => requests[t].item # i
        /\ r.op = "toggleFavorite" => r.name = items[i].name
        /\ IF r.status = "ok" THEN Same(r, storedItems[i])
           ELSE Same(items[i], storedItems[i])

AnswerInv(r, i) ==
    /\ r.op = "openVault" /\ r.status = "ok" /\ i \in DOMAIN r.got =>
          Same(r.got[i], storedItems[i])
    /\ r.op = "addItem" /\ r.status = "ok" /\ r.item = i =>
          Same(r, storedItems[i])

AgreeInv ==
    \A i \in Items \ unsure :
        /\ i \in DOMAIN items => Puts(i) # {} \/ Same(items[i], storedItems[i])
        /\ \A s \in Puts(i) : PutInv(s, i)
        /\ \A s \in DOMAIN requests : AnswerInv(requests[s], i)

LEMMA InitAgree == Init => AgreeInv
  BY DEF Init, AgreeInv, Puts, PutOps, Empty, AnswerInv

LEMMA AgreeClicked == IInv /\ AgreeInv /\ Clicked => AgreeInv'
<1> SUFFICES ASSUME IInv, AgreeInv, Clicked PROVE AgreeInv'
  OBVIOUS
<1>1. /\ UNCHANGED <<items, storedItems>>
      /\ \A v : FindVault(v)' <=> FindVault(v)
  BY DEF Clicked, FindVault
<1>2. CASE UNCHANGED <<requests, unsure>>
  BY <1>1, <1>2 DEF AgreeInv, Puts, PutInv, AnswerInv
<1>3. ASSUME NEW r, Send(r), Fresh(r), NEW i \in Items \ unsure'
      PROVE  /\ i \in DOMAIN items' =>
                    Puts(i)' # {} \/ Same(items[i], storedItems[i])'
             /\ \A s \in Puts(i)' : PutInv(s, i)'
             /\ \A s \in DOMAIN requests' : AnswerInv(requests[s], i)'
  <2>1. PICK slot \in Slots \ DOMAIN requests : requests' = With(requests, slot, r)
    BY <1>3, FreeSlot DEF IInv, RequestInv
  <2>2. /\ slot \in DOMAIN requests' /\ requests'[slot] = r
        /\ \A s \in DOMAIN requests : s \in DOMAIN requests'
                                      /\ s # slot /\ requests'[s] = requests[s]
        /\ \A s \in DOMAIN requests' : s # slot => s \in DOMAIN requests
    BY <2>1 DEF With
  <2>3. i \in Items \ unsure /\ ~Overlaps(r, i)
    BY <1>3 DEF Send
  <2>4. r.op \in PutOps /\ r.item = i =>
            /\ Puts(i) = {}
            /\ \A s \in DOMAIN requests :
                  /\ ~OpensVaultOf(requests[s], i)
                  /\ requests[s].op # "updateVaultList"
                  /\ ~(requests[s].op = "addItem" /\ requests[s].item = i)
    BY <2>3 DEF Overlaps, UnderWay
  <2>5. /\ i \in DOMAIN items => Puts(i) # {} \/ Same(items[i], storedItems[i])
        /\ \A s \in Puts(i) : PutInv(s, i)
        /\ \A s \in DOMAIN requests : AnswerInv(requests[s], i)
    BY <2>3 DEF AgreeInv
  <2>6. i \in DOMAIN items' => Puts(i)' # {} \/ Same(items[i], storedItems[i])'
    BY <1>1, <2>2, <2>5 DEF Puts
  <2>7. \A s \in DOMAIN requests' : AnswerInv(requests[s], i)'
    BY <1>1, <1>3, <2>2, <2>5 DEF AnswerInv, Fresh
  <2>8. ASSUME NEW s \in Puts(i)' PROVE PutInv(s, i)'
    <3>1. CASE s = slot
      <4>1. r.op \in PutOps /\ r.item = i
        BY <2>2, <2>8, <3>1 DEF Puts
      <4>2. /\ i \in DOMAIN items /\ items[i].vault = r.vault
            /\ FindVault(r.vault) /\ r.status = "sent"
            /\ r.op = "toggleFavorite" => r.name = items[i].name
        BY <1>3, <4>1 DEF Fresh, InVault
      <4>3. Same(items[i], storedItems[i])
        BY <2>4, <2>5, <4>1, <4>2
      <4>4. ASSUME NEW t \in DOMAIN requests
            PROVE  /\ ~(requests[t].op \in PutOps /\ requests[t].item = i)
                   /\ requests[t].op # "updateVaultList"
                   /\ requests[t].op = "openVault" => requests[t].vault # r.vault
                   /\ requests[t].op = "addItem" => requests[t].item # i
        BY <2>4, <4>1, <4>2, <4>4 DEF OpensVaultOf, Puts
      <4> QED
        BY <1>1, <2>2, <3>1, <4>1, <4>2, <4>3, <4>4
           DEF PutInv, PutOps, Same
    <3>2. CASE s # slot
      <4>1. s \in Puts(i) /\ PutInv(s, i)
        BY <2>2, <2>5, <2>8, <3>2 DEF Puts
      <4>2. i \in DOMAIN items /\ items[i].vault = requests[s].vault
        BY <4>1 DEF PutInv, Puts, IInv, RequestInv, Good, HeldInv, StoredIn
      <4>3. /\ ~(r.op \in PutOps /\ r.item = i)
            /\ r.op # "updateVaultList"
            /\ r.op = "openVault" => r.vault # requests[s].vault
            /\ r.op = "addItem" => r.item # i
        BY <1>3, <2>3, <4>1, <4>2 DEF Overlaps, OpensVaultOf, Fresh
      <4> QED
        BY <1>1, <2>2, <3>2, <4>1, <4>3 DEF PutInv, Puts, Same
    <3> QED
      BY <3>1, <3>2
  <2> QED
    BY <2>6, <2>7, <2>8
<1> QED
  BY <1>2, <1>3 DEF Clicked, AgreeInv

(* A request takes a further step, and carries what it carried.            *)
Carries(q, r) ==
    /\ q.op = r.op
    /\ r.op \in PutOps \cup {"addItem"} => q.item = r.item /\ Same(q, r)
    /\ r.op \in PutOps \cup {"openVault"} => q.vault = r.vault

LEMMA AgreeAnswered ==
    ASSUME IInv, AgreeInv, NEW s \in DOMAIN requests, NEW q,
           DOMAIN requests' = DOMAIN requests,
           \A t \in DOMAIN requests :
               requests'[t] = IF t = s THEN q ELSE requests[t],
           Carries(q, requests[s]),
           UNCHANGED <<items, vaults, storedItems>>, unsure \subseteq unsure',
           q.status = "ok" => q.op \notin PutOps \cup {"addItem"},
           q.status = "ok" /\ q.op = "openVault" =>
               \A i \in DOMAIN q.got : q.got[i] = storedItems[i],
           requests[s].op \in PutOps /\ requests[s].status = "ok" =>
               requests[s].item \in unsure' \/ requests[s].item \notin Items
    PROVE  AgreeInv'
<1> DEFINE r == requests[s]
<1>1. \A t \in DOMAIN requests :
          /\ requests'[t].op = requests[t].op
          /\ requests[t].op \in PutOps \cup {"addItem"} =>
                requests'[t].item = requests[t].item
                /\ Same(requests'[t], requests[t])
          /\ requests[t].op \in PutOps \cup {"openVault"} =>
                requests'[t].vault = requests[t].vault
          /\ t # s => requests'[t] = requests[t]
  BY DEF Carries, Same
<1>2. ASSUME NEW i \in Items \ unsure'
      PROVE  /\ i \in DOMAIN items' =>
                    Puts(i)' # {} \/ Same(items[i], storedItems[i])'
             /\ \A t \in Puts(i)' : PutInv(t, i)'
             /\ \A t \in DOMAIN requests' : AnswerInv(requests[t], i)'
  <2>1. /\ i \in DOMAIN items => Puts(i) # {} \/ Same(items[i], storedItems[i])
        /\ \A t \in Puts(i) : PutInv(t, i)
        /\ \A t \in DOMAIN requests : AnswerInv(requests[t], i)
    BY <1>2 DEF AgreeInv
  <2>2. \A t : t \in Puts(i)' <=> t \in Puts(i)
    BY <1>1 DEF Puts
  <2>3. \A t \in DOMAIN requests' : AnswerInv(requests[t], i)'
    BY <1>1, <2>1 DEF AnswerInv, Same
  <2>4. ASSUME NEW t \in Puts(i)' PROVE PutInv(t, i)'
    <3>1. t \in Puts(i) /\ PutInv(t, i)
      BY <2>1, <2>2, <2>4
    <3>2. requests'[t].status = "ok" <=> requests[t].status = "ok"
      <4>1. CASE t = s
        BY <1>2, <3>1, <4>1 DEF Puts, Carries
      <4>2. CASE t # s
        BY <1>1, <3>1, <4>2 DEF Puts
      <4> QED
        BY <4>1, <4>2
    <3> QED
      BY <1>1, <3>1, <3>2 DEF PutInv, Puts, Same, FindVault
  <2> QED
    BY <2>1, <2>2, <2>3, <2>4
<1> QED
  BY <1>2 DEF AgreeInv

(* The server stores the item a request carries.                           *)
LEMMA AgreeStored ==
    ASSUME IInv, AgreeInv, NEW s \in DOMAIN requests, NEW q, NEW x,
           DOMAIN requests' = DOMAIN requests,
           \A t \in DOMAIN requests :
               requests'[t] = IF t = s THEN q ELSE requests[t],
           Carries(q, requests[s]), q.status = "ok",
           requests[s].op \in {"addItem"} \cup PutOps,
           requests[s].status = "sent",
           storedItems' = With(storedItems, requests[s].item, x),
           Same(x, requests[s]),
           UNCHANGED <<items, vaults, unsure>>
    PROVE  AgreeInv'
<1> DEFINE r == requests[s]
<1>1. \A t \in DOMAIN requests :
          /\ requests'[t].op = requests[t].op
          /\ requests[t].op \in PutOps \cup {"addItem"} =>
                requests'[t].item = requests[t].item
                /\ Same(requests'[t], requests[t])
          /\ requests[t].op \in PutOps \cup {"openVault"} =>
                requests'[t].vault = requests[t].vault
          /\ t # s => requests'[t] = requests[t]
  BY DEF Carries, Same
<1>2. /\ Same(storedItems'[r.item], r)
      /\ \A i \in DOMAIN storedItems : i # r.item => storedItems'[i] = storedItems[i]
  BY DEF With, Same
<1>3. \A t \in DOMAIN requests : Good(requests[t], storedItems)
  BY DEF IInv, RequestInv
<1>4. ASSUME NEW i \in Items \ unsure
      PROVE  /\ i \in DOMAIN items' =>
                    Puts(i)' # {} \/ Same(items[i], storedItems[i])'
             /\ \A t \in Puts(i)' : PutInv(t, i)'
             /\ \A t \in DOMAIN requests' : AnswerInv(requests[t], i)'
  <2>1. /\ i \in DOMAIN items => Puts(i) # {} \/ Same(items[i], storedItems[i])
        /\ \A t \in Puts(i) : PutInv(t, i)
        /\ \A t \in DOMAIN requests : AnswerInv(requests[t], i)
    BY <1>4 DEF AgreeInv
  <2>2. \A t : t \in Puts(i)' <=> t \in Puts(i)
    BY <1>1 DEF Puts
  <2>3. CASE i # r.item
    <3>1. i \in DOMAIN items => storedItems'[i] = storedItems[i]
      BY <1>2, <2>3 DEF IInv, HeldInv, StoredIn
    <3>2. \A t \in Puts(i) : t # s
      BY <2>3 DEF Puts
    <3>3. \A t \in Puts(i)' : PutInv(t, i)'
      BY <1>1, <2>1, <2>2, <3>1, <3>2 DEF PutInv, Puts, Same, FindVault
    <3>4. ASSUME NEW t \in DOMAIN requests' PROVE AnswerInv(requests[t], i)'
      <4>1. CASE t = s
        BY <1>1, <2>3, <4>1 DEF AnswerInv, PutOps, Carries
      <4>2. CASE t # s
        BY <1>1, <1>2, <1>3, <2>1, <2>3, <4>2 DEF AnswerInv, Good, StoredIn
      <4> QED
        BY <4>1, <4>2
    <3> QED
      BY <2>1, <2>2, <3>1, <3>3, <3>4
  <2>4. CASE i = r.item /\ r.op = "addItem"
    <3>1. i \notin DOMAIN storedItems /\ i \notin DOMAIN items
      BY <1>3, <2>4 DEF Good, IInv, HeldInv, StoredIn
    <3>2. Puts(i) = {}
      BY <1>3, <3>1 DEF Puts, Good, StoredIn
    <3>3. ASSUME NEW t \in DOMAIN requests' PROVE AnswerInv(requests[t], i)'
      <4>1. CASE t = s
        BY <1>1, <1>2, <2>4, <4>1 DEF AnswerInv, Same
      <4>2. CASE t # s
        BY <1>1, <1>3, <2>4, <3>1, <4>2
           DEF AnswerInv, Good, StoredIn, IInv, RequestInv
      <4> QED
        BY <4>1, <4>2
    <3> QED
      BY <2>2, <3>1, <3>2, <3>3
  <2>5. CASE i = r.item /\ r.op \in PutOps
    <3>1. s \in Puts(i) /\ PutInv(s, i)
      BY <2>1, <2>5 DEF Puts
    <3>2. \A t \in Puts(i) : t = s
      BY <3>1 DEF PutInv, Puts
    <3>3. PutInv(s, i)'
      BY <1>1, <1>2, <2>5, <3>1 DEF PutInv, Same, FindVault
    <3>4. ASSUME NEW t \in DOMAIN requests' PROVE AnswerInv(requests[t], i)'
      <4>1. CASE t = s
        BY <1>1, <2>5, <4>1 DEF AnswerInv, PutOps
      <4>2. CASE t # s
        BY <1>1, <1>3, <2>5, <3>1, <4>2
           DEF AnswerInv, Good, StoredIn, PutInv
      <4> QED
        BY <4>1, <4>2
    <3> QED
      BY <2>2, <3>1, <3>2, <3>3, <3>4
  <2> QED
    BY <2>3, <2>4, <2>5
<1> QED
  BY <1>4 DEF AgreeInv

LEMMA AgreeStatus ==
    ASSUME IInv, AgreeInv, NEW s \in DOMAIN requests,
           NEW status \in {"sent", "ok", "failed"},
           requests' = [requests EXCEPT ![s].status = status],
           UNCHANGED <<items, vaults, storedItems>>, unsure \subseteq unsure',
           status = "ok" => requests[s].op \in {"openItem", "addVault"},
           requests[s].op \in PutOps /\ requests[s].status = "ok" =>
               requests[s].item \in unsure' \/ requests[s].item \notin Items
    PROVE  AgreeInv'
<1> DEFINE r == requests[s]
           q == [r EXCEPT !.status = status]
<1>1. IsRequest(r)
  BY DEF IInv, RequestInv, Good
<1>2. q.status = status /\ Carries(q, r)
  BY <1>1, Answered DEF Statuses, Carries, PutOps
<1>3. /\ DOMAIN requests' = DOMAIN requests
      /\ \A t \in DOMAIN requests :
            requests'[t] = IF t = s THEN q ELSE requests[t]
  OBVIOUS
<1>4. q.status = "ok" => q.op \in {"openItem", "addVault"}
  BY <1>2 DEF Carries
<1> HIDE DEF q
<1> QED
  BY <1>2, <1>3, <1>4, AgreeAnswered DEF PutOps

LEMMA AgreeComputed ==
    ASSUME IInv, AgreeInv, NEW s \in DOMAIN requests, OnAddVaultComputed(s)
    PROVE  AgreeInv'
<1>1. UNCHANGED <<items, storedItems, vaults, unsure>> /\ requests[s].op = "addVault"
  BY DEF OnAddVaultComputed, serverVars, IInv, RequestInv, Good
<1>2. CASE requests' = [requests EXCEPT ![s].status = "sent"]
  BY <1>1, <1>2, AgreeStatus DEF PutOps
<1>3. CASE requests' = Without(requests, s)
  BY <1>1, <1>3 DEF Without, AgreeInv, Puts, PutInv, AnswerInv, PutOps, FindVault
<1> QED
  BY <1>2, <1>3 DEF OnAddVaultComputed

LEMMA AgreeLost ==
    ASSUME IInv, AgreeInv, NEW s \in DOMAIN requests, LoseAnswer(s)
    PROVE  AgreeInv'
<1>1. /\ UNCHANGED <<items, storedItems, vaults>>
      /\ requests' = [requests EXCEPT ![s].status = "failed"]
      /\ unsure \subseteq unsure'
      /\ \A i \in Items : s \in Puts(i) => i \in unsure'
  BY DEF LoseAnswer, Answer, managerVars, serverVars
<1>2. requests[s].op \in PutOps =>
          requests[s].item \in unsure' \/ requests[s].item \notin Items
  BY <1>1 DEF Puts
<1> QED
  BY <1>1, <1>2, AgreeStatus

LEMMA AgreeExecuted ==
    ASSUME IInv, AgreeInv, NEW s \in DOMAIN requests, Execute(s)
    PROVE  AgreeInv'
<1> DEFINE r == requests[s]
<1>1. UNCHANGED <<items, vaults, unsure>> /\ r.status = "sent" /\ IsRequest(r)
  BY DEF Execute, managerVars, IInv, RequestInv, Good
<1>2. ASSUME NEW got, r.op \in {"updateVaultList", "openVault"},
             AnswerWith(s, got), UNCHANGED storedItems,
             r.op = "openVault" => \A i \in DOMAIN got : got[i] = storedItems[i]
      PROVE  AgreeInv'
  <2> DEFINE q == [r EXCEPT !.status = "ok", !.got = got]
  <2>1. /\ q.status = "ok" /\ q.got = got /\ q.op = r.op
        /\ r.op = "openVault" => q.vault = r.vault
    <3> HIDE DEF r
    <3> QED
      BY <1>1, <1>2 DEF IsRequest, PutOps, Statuses
  <2>2. Carries(q, r)
    BY <1>2, <2>1 DEF Carries, PutOps
  <2>3. /\ DOMAIN requests' = DOMAIN requests
        /\ \A t \in DOMAIN requests :
              requests'[t] = IF t = s THEN q ELSE requests[t]
    BY <1>2 DEF AnswerWith
  <2> HIDE DEF q
  <2> QED
    BY <1>1, <1>2, <2>1, <2>2, <2>3, AgreeAnswered DEF PutOps
<1>3. CASE ExecuteVaultRequest(s, r) /\ UNCHANGED storedItems
  <2>1. CASE r.op = "updateVaultList" /\ AnswerWith(s, storedVaults)
    BY <1>2, <1>3, <2>1
  <2>2. CASE r.op = "openVault"
             /\ AnswerWith(s, [i \in {j \in DOMAIN storedItems :
                                          storedItems[j].vault = r.vault}
                                  |-> storedItems[i]])
    <3> DEFINE got == [i \in {j \in DOMAIN storedItems :
                                  storedItems[j].vault = r.vault}
                          |-> storedItems[i]]
    <3>1. \A i \in DOMAIN got : got[i] = storedItems[i]
      OBVIOUS
    <3> HIDE DEF got
    <3> QED
      BY <1>2, <1>3, <2>2, <3>1 DEF got
  <2>3. CASE r.op = "addVault" /\ Answer(s, "ok")
    BY <1>1, <1>3, <2>3, AgreeStatus DEF Answer, PutOps
  <2> QED
    BY <1>3, <2>1, <2>2, <2>3 DEF ExecuteVaultRequest
<1>4. CASE ExecuteItemRequest(s, r)
  <2>1. CASE r.op = "openItem" /\ Answer(s, "ok") /\ UNCHANGED storedItems
    BY <1>1, <2>1, AgreeStatus DEF Answer, PutOps
  <2>2. CASE /\ r.op \in {"addItem"} \cup PutOps /\ Answer(s, "ok")
             /\ storedItems' = With(storedItems, r.item,
                                    [vault |-> r.vault, name |-> r.name,
                                     fav |-> r.fav])
    <3> DEFINE q == [r EXCEPT !.status = "ok"]
               x == [vault |-> r.vault, name |-> r.name, fav |-> r.fav]
    <3>1. q.status = "ok" /\ Carries(q, r)
      BY <1>1, <2>2, Answered DEF Statuses, Carries, PutOps
    <3>2. /\ DOMAIN requests' = DOMAIN requests
          /\ \A t \in DOMAIN requests :
                requests'[t] = IF t = s THEN q ELSE requests[t]
      BY <2>2 DEF Answer
    <3>3. Same(x, r) /\ storedItems' = With(storedItems, r.item, x)
      BY <2>2 DEF Same
    <3> HIDE DEF q, x
    <3> QED
      BY <1>1, <2>2, <3>1, <3>2, <3>3, AgreeStored
  <2> QED
    BY <1>4, <2>1, <2>2 DEF ExecuteItemRequest
<1>5. CASE Answer(s, "failed") /\ UNCHANGED serverVars
  BY <1>1, <1>5, AgreeStatus DEF Answer, serverVars
<1> QED
  BY <1>3, <1>4, <1>5 DEF Execute

(* An answer is delivered: each item it changes becomes what the server    *)
(* has, and the others with a request under way stay.                      *)
LEMMA AgreeDelivered ==
    ASSUME IInv, AgreeInv, NEW s \in DOMAIN requests, Delivered(s),
           UNCHANGED unsure,
           DOMAIN vaults \subseteq DOMAIN vaults'
               \/ requests[s].op = "updateVaultList",
           \A i \in Items \ unsure : i \in DOMAIN items' =>
               \/ Same(items'[i], storedItems[i])
               \/ i \in DOMAIN items /\ Same(items'[i], items[i]) /\ s \notin Puts(i),
           \A i \in Items \ unsure : \A t \in Puts(i) : t # s =>
               i \in DOMAIN items' /\ Same(items'[i], items[i])
    PROVE  AgreeInv'
<1>1. /\ UNCHANGED storedItems
      /\ \A t : t \in DOMAIN requests' <=> t \in DOMAIN requests /\ t # s
      /\ \A t \in DOMAIN requests' : requests'[t] = requests[t]
  BY DEF Delivered, Without
<1>2. ASSUME NEW i \in Items \ unsure
      PROVE  /\ i \in DOMAIN items' =>
                    Puts(i)' # {} \/ Same(items[i], storedItems[i])'
             /\ \A t \in Puts(i)' : PutInv(t, i)'
             /\ \A t \in DOMAIN requests' : AnswerInv(requests[t], i)'
  <2>1. /\ i \in DOMAIN items => Puts(i) # {} \/ Same(items[i], storedItems[i])
        /\ \A t \in Puts(i) : PutInv(t, i)
        /\ \A t \in DOMAIN requests : AnswerInv(requests[t], i)
    BY <1>2 DEF AgreeInv
  <2>2. \A t : t \in Puts(i)' <=> t \in Puts(i) /\ t # s
    BY <1>1 DEF Puts
  <2>3. i \in DOMAIN items' => Puts(i)' # {} \/ Same(items[i], storedItems[i])'
    BY <1>1, <1>2, <2>1, <2>2 DEF Same
  <2>4. ASSUME NEW t \in Puts(i)' PROVE PutInv(t, i)'
    <3>1. t \in Puts(i) /\ t # s /\ PutInv(t, i) /\ t \in DOMAIN requests'
      BY <2>1, <2>2, <2>4 DEF Puts
    <3>2. requests[s].op # "updateVaultList"
      BY <3>1 DEF PutInv
    <3>3. i \in DOMAIN items' /\ Same(items'[i], items[i])
      BY <1>2, <3>1
    <3> QED
      BY <1>1, <3>1, <3>2, <3>3 DEF PutInv, Same, FindVault
  <2> QED
    BY <1>1, <2>1, <2>3, <2>4 DEF AnswerInv
<1> QED
  BY <1>2 DEF AgreeInv

(* An answer that changes no item: an edit or a toggle that failed, or one *)
(* that is not about items.                                                *)
LEMMA AgreeUnchanged ==
    ASSUME IInv, AgreeInv, NEW s \in DOMAIN requests, Delivered(s),
           UNCHANGED <<unsure, items>>,
           DOMAIN vaults \subseteq DOMAIN vaults'
               \/ requests[s].op = "updateVaultList",
           \A i \in Items \ unsure : s \in Puts(i) => requests[s].status # "ok"
    PROVE  AgreeInv'
<1>1. \A i \in Items \ unsure : i \in DOMAIN items' =>
          \/ Same(items'[i], storedItems[i])
          \/ i \in DOMAIN items /\ Same(items'[i], items[i]) /\ s \notin Puts(i)
  BY DEF AgreeInv, PutInv, Same
<1>2. \A i \in Items \ unsure : \A t \in Puts(i) : t # s =>
          i \in DOMAIN items' /\ Same(items'[i], items[i])
  BY DEF AgreeInv, PutInv, Same
<1> QED
  BY <1>1, <1>2, AgreeDelivered

LEMMA AgreeOpenVault ==
    ASSUME IInv, AgreeInv, NEW s \in DOMAIN requests, Delivered(s),
           OnOpenVaultResult(requests[s]), UNCHANGED unsure
    PROVE  AgreeInv'
<1> DEFINE r == requests[s]
<1>1. UNCHANGED vaults /\ r.op = "openVault" /\ \A i : s \notin Puts(i)
  BY DEF OnOpenVaultResult, Puts, PutOps
<1>2. CASE UNCHANGED items
  BY <1>1, <1>2, AgreeUnchanged
<1>3. ASSUME NEW loaded \in SUBSET DOMAIN r.got, Reload(r.vault, loaded, r.got),
             r.status = "ok"
      PROVE  AgreeInv'
  <2>1. /\ DOMAIN items' = (DOMAIN items \ VaultItems(r.vault)) \cup loaded
        /\ \A i \in DOMAIN items' :
              IF i \in loaded THEN Same(items'[i], r.got[i])
              ELSE items'[i] = items[i]
    BY <1>3 DEF Reload, Same
  <2>2. \A i \in Items \ unsure : i \in loaded => Same(r.got[i], storedItems[i])
    BY <1>1, <1>3 DEF AgreeInv, AnswerInv
  <2>3. \A i \in Items \ unsure : i \in DOMAIN items' =>
            \/ Same(items'[i], storedItems[i])
            \/ i \in DOMAIN items /\ Same(items'[i], items[i]) /\ s \notin Puts(i)
    BY <1>1, <2>1, <2>2 DEF Same
  <2>4. ASSUME NEW i \in Items \ unsure, NEW t \in Puts(i), t # s
        PROVE  i \in DOMAIN items' /\ Same(items'[i], items[i])
    <3>1. PutInv(t, i) /\ t \in DOMAIN requests /\ requests[t].op \in PutOps
          /\ requests[t].item = i
      BY <2>4 DEF AgreeInv, Puts
    <3>2. i \in DOMAIN items /\ requests[t].vault # r.vault
      BY <1>1, <3>1 DEF PutInv
    <3>3. /\ StoredIn(i, requests[t].vault, storedItems)
          /\ items[i].vault = requests[t].vault
      BY <3>1, <3>2 DEF IInv, RequestInv, Good, HeldInv, StoredIn
    <3>4. i \notin loaded
      BY <1>1, <1>3, <3>2, <3>3 DEF IInv, RequestInv, Good, StoredIn
    <3> QED
      BY <2>1, <3>2, <3>3, <3>4 DEF VaultItems, Same
  <2> QED
    BY <1>1, <2>3, <2>4, AgreeDelivered
<1> QED
  BY <1>2, <1>3, Zenon DEF OnOpenVaultResult

(* The answers that change one item at most.                               *)
LEMMA AgreeOneItem ==
    ASSUME IInv, AgreeInv, NEW s \in DOMAIN requests, Delivered(s),
           UNCHANGED <<unsure, vaults>>, NEW j, NEW x,
           DOMAIN items' = DOMAIN items \cup {j},
           \A i \in DOMAIN items' : items'[i] = IF i = j THEN x ELSE items[i],
           \A i \in Items \ unsure : s \in Puts(i) => i = j,
           j \in Items \ unsure =>
               \/ Same(x, storedItems[j]) /\ \A t \in Puts(j) : t = s
               \/ j \in DOMAIN items /\ Same(x, items[j]) /\ s \notin Puts(j)
    PROVE  AgreeInv'
<1>1. \A i \in Items \ unsure : i \in DOMAIN items' =>
          \/ Same(items'[i], storedItems[i])
          \/ i \in DOMAIN items /\ Same(items'[i], items[i]) /\ s \notin Puts(i)
  BY DEF Same
<1>2. \A i \in Items \ unsure : \A t \in Puts(i) : t # s =>
          i \in DOMAIN items' /\ Same(items'[i], items[i])
  BY DEF AgreeInv, PutInv, Same
<1> QED
  BY <1>1, <1>2, AgreeDelivered

LEMMA AgreeAddItem ==
    ASSUME IInv, AgreeInv, NEW s \in DOMAIN requests, Delivered(s),
           OnAddItemResult(requests[s]), UNCHANGED unsure
    PROVE  AgreeInv'
<1> DEFINE r == requests[s]
<1>1. UNCHANGED vaults /\ r.op = "addItem" /\ \A i : s \notin Puts(i)
  BY DEF OnAddItemResult, Puts, PutOps
<1>2. CASE UNCHANGED items
  BY <1>1, <1>2, AgreeUnchanged
<1>3. CASE /\ ItemAdded(r)
           /\ r.item \notin DOMAIN items
           /\ items' = With(items, r.item,
                            [vault |-> r.vault, name |-> r.name,
                             fav |-> r.fav, data |-> TRUE])
  <2> DEFINE x == [vault |-> r.vault, name |-> r.name, fav |-> r.fav, data |-> TRUE]
  <2>1. /\ DOMAIN items' = DOMAIN items \cup {r.item}
        /\ \A i \in DOMAIN items' : items'[i] = IF i = r.item THEN x ELSE items[i]
    BY <1>3 DEF With
  <2>2. r.item \in Items \ unsure => Same(x, storedItems[r.item])
    BY <1>1, <1>3 DEF ItemAdded, AgreeInv, AnswerInv, Same
  <2>3. r.item \in Items \ unsure => Puts(r.item) = {}
    BY <1>3 DEF AgreeInv, PutInv
  <2> HIDE DEF x
  <2> QED
    BY <1>1, <2>1, <2>2, <2>3, AgreeOneItem
<1> QED
  BY <1>2, <1>3 DEF OnAddItemResult

LEMMA AgreeOpenItem ==
    ASSUME IInv, AgreeInv, NEW s \in DOMAIN requests, Delivered(s),
           OnOpenItemResult(requests[s]), UNCHANGED unsure
    PROVE  AgreeInv'
<1> DEFINE r == requests[s]
<1>1. UNCHANGED vaults /\ \A i : s \notin Puts(i)
  BY DEF OnOpenItemResult, Puts, PutOps
<1>2. CASE UNCHANGED items
  BY <1>1, <1>2, AgreeUnchanged
<1>3. CASE r.item \in DOMAIN items /\ items' = [items EXCEPT ![r.item].data = TRUE]
  <2> DEFINE x == [items[r.item] EXCEPT !.data = TRUE]
  <2>1. /\ DOMAIN items' = DOMAIN items \cup {r.item}
        /\ \A i \in DOMAIN items' : items'[i] = IF i = r.item THEN x ELSE items[i]
    BY <1>3
  <2>2. Same(x, items[r.item])
    BY <1>3 DEF IInv, HeldInv, IsItem, Same
  <2> DEFINE i0 == r.item
  <2>3. /\ DOMAIN items' = DOMAIN items \cup {i0}
        /\ \A i \in DOMAIN items' : items'[i] = IF i = i0 THEN x ELSE items[i]
        /\ i0 \in DOMAIN items /\ Same(x, items[i0])
    BY <1>3, <2>1, <2>2
  <2> HIDE DEF x, i0
  <2> QED
    BY <1>1, <2>3, AgreeOneItem
<1> QED
  BY <1>2, <1>3 DEF OnOpenItemResult, InVault

(* An edit or toggle that the server has executed becomes what is held.    *)
LEMMA PutIsHeld ==
    ASSUME IInv, AgreeInv, NEW s \in DOMAIN requests, NEW i \in Items \ unsure,
           s \in Puts(i)
    PROVE  /\ InVault(i, requests[s].vault) /\ FindVault(requests[s].vault)
           /\ \A t \in Puts(i) : t = s
           /\ requests[s].status = "ok" => Same(requests[s], storedItems[i])
           /\ requests[s].op = "toggleFavorite" => requests[s].name = items[i].name
<1>1. PutInv(s, i) /\ requests[s].op \in PutOps /\ requests[s].item = i
  BY DEF AgreeInv, Puts
<1>2. InVault(i, requests[s].vault)
  BY <1>1 DEF PutInv, IInv, RequestInv, Good, HeldInv, StoredIn, InVault
<1> QED
  BY <1>1, <1>2 DEF PutInv, Puts

LEMMA AgreePut ==
    ASSUME IInv, AgreeInv, NEW s \in DOMAIN requests, Delivered(s),
           OnEditItemResult(requests[s]) \/ OnFavoriteToggled(requests[s]),
           UNCHANGED unsure
    PROVE  AgreeInv'
<1> DEFINE r == requests[s]
<1>1. UNCHANGED vaults /\ \A i : s \in Puts(i) <=> i = r.item
  BY DEF OnEditItemResult, OnFavoriteToggled, Puts, PutOps
<1>2. CASE UNCHANGED items /\ (r.item \in Items \ unsure => r.status # "ok")
  BY <1>1, <1>2, AgreeUnchanged
<1>3. ASSUME NEW x, r.item \in DOMAIN items, items' = [items EXCEPT ![r.item] = x],
             r.item \in Items \ unsure => Same(x, storedItems[r.item])
      PROVE  AgreeInv'
  <2>1. /\ DOMAIN items' = DOMAIN items \cup {r.item}
        /\ \A i \in DOMAIN items' : items'[i] = IF i = r.item THEN x ELSE items[i]
    BY <1>3
  <2>2. r.item \in Items \ unsure => \A t \in Puts(r.item) : t = s
    BY <1>1, PutIsHeld
  <2> QED
    BY <1>1, <1>3, <2>1, <2>2, AgreeOneItem
<1>4. r.item \in Items \ unsure =>
          /\ InVault(r.item, r.vault) /\ FindVault(r.vault)
          /\ r.status = "ok" => Same(r, storedItems[r.item])
          /\ r.op = "toggleFavorite" => r.name = items[r.item].name
  BY <1>1, PutIsHeld
<1>5. CASE OnEditItemResult(r)
  <2> DEFINE x == [vault |-> r.vault, name |-> r.name, fav |-> r.fav, data |-> TRUE]
  <2>1. CASE r.status = "ok" /\ FindVault(r.vault) /\ InVault(r.item, r.vault)
    <3>1. r.item \in DOMAIN items /\ items' = [items EXCEPT ![r.item] = x]
      BY <1>5, <2>1 DEF OnEditItemResult, InVault
    <3>2. r.item \in Items \ unsure => Same(x, storedItems[r.item])
      BY <1>4, <2>1 DEF Same
    <3> QED
      BY <1>3, <3>1, <3>2
  <2>2. CASE ~(r.status = "ok" /\ FindVault(r.vault) /\ InVault(r.item, r.vault))
    BY <1>2, <1>4, <1>5, <2>2 DEF OnEditItemResult
  <2> QED
    BY <2>1, <2>2
<1>6. CASE OnFavoriteToggled(r)
  <2> DEFINE x == [items[r.item] EXCEPT !.fav = r.fav]
  <2>1. CASE r.status = "ok" /\ InVault(r.item, r.vault)
    <3>1. r.item \in DOMAIN items /\ items' = [items EXCEPT ![r.item] = x]
      BY <1>6, <2>1 DEF OnFavoriteToggled, InVault
    <3>2. x.name = items[r.item].name /\ x.fav = r.fav
      BY <3>1 DEF IInv, HeldInv, IsItem
    <3>3. r.item \in Items \ unsure => Same(x, storedItems[r.item])
      BY <1>4, <1>6, <2>1, <3>2 DEF Same, OnFavoriteToggled
    <3> QED
      BY <1>3, <3>1, <3>3
  <2>2. CASE ~(r.status = "ok" /\ InVault(r.item, r.vault))
    BY <1>2, <1>4, <1>6, <2>2 DEF OnFavoriteToggled
  <2> QED
    BY <2>1, <2>2
<1> QED
  BY <1>5, <1>6

LEMMA AgreeResult ==
    ASSUME IInv, AgreeInv, NEW s \in DOMAIN requests, OnResult(s)
    PROVE  AgreeInv'
<1>1. Delivered(s) /\ UNCHANGED unsure
  BY DEF OnResult, Delivered, serverVars
<1>2. CASE OnFetchVaultListResult(requests[s])
  BY <1>1, <1>2, AgreeUnchanged DEF OnFetchVaultListResult, Puts, PutOps
<1>3. CASE OnAddVaultResult(requests[s])
  BY <1>1, <1>3, AgreeUnchanged DEF OnAddVaultResult, Puts, PutOps, With
<1> QED
  BY <1>1, <1>2, <1>3, AgreeOpenVault, AgreeAddItem, AgreeOpenItem, AgreePut
     DEF OnResult

LEMMA NextAgree == IInv /\ AgreeInv /\ [Next]_vars => AgreeInv'
<1> SUFFICES ASSUME IInv, AgreeInv, [Next]_vars PROVE AgreeInv'
  OBVIOUS
<1>1. ASSUME NEW s \in DOMAIN requests,
             OnAddVaultComputed(s) \/ Execute(s) \/ LoseAnswer(s) \/ OnResult(s)
      PROVE  AgreeInv'
  BY <1>1, AgreeComputed, AgreeExecuted, AgreeLost, AgreeResult
<1>2. CASE Clicked
  BY <1>2, AgreeClicked
<1>3. CASE UNCHANGED vars
  BY <1>3 DEF vars, managerVars, serverVars, AgreeInv, Puts, PutInv, AnswerInv,
              FindVault
<1>4. HeldInv
  BY DEF IInv
<1> QED
  BY <1>1, <1>2, <1>3, <1>4, VaultClicks, ItemClicks, Zenon DEF Next

-----------------------------------------------------------------------------
LEMMA NextIInv == IInv /\ [Next]_vars => IInv'
<1> SUFFICES ASSUME IInv, [Next]_vars PROVE IInv'
  OBVIOUS
<1>1. ASSUME NEW s \in DOMAIN requests,
             OnAddVaultComputed(s) \/ Execute(s) \/ LoseAnswer(s) \/ OnResult(s)
      PROVE  IInv'
  BY <1>1, ComputedStep, ExecuteStep, LoseStep, ResultStep
<1>2. CASE Clicked
  BY <1>2, ClickedStep
<1>3. CASE UNCHANGED vars
  BY <1>3 DEF vars, managerVars, serverVars, pageVars, IInv, RequestInv,
              HeldInv, RowsInv, RowsAreHeld
<1>4. HeldInv
  BY DEF IInv
<1> QED
  BY <1>1, <1>2, <1>3, <1>4, VaultClicks, ItemClicks, Zenon DEF Next

LEMMA Invariance == Spec => []IInv
  BY InitIInv, NextIInv, PTL DEF Spec

(* Every row of the item list names an item the vault manager holds, in    *)
(* whatever order the answers for several vaults come, and no item has     *)
(* more than two rows (VaultManager::onOpenVaultResult, onAddItemResult).  *)
THEOREM RowsHeld == Spec => []RowsAreHeld
<1>1. IInv => RowsAreHeld
  BY DEF IInv, RowsInv
<1> QED
  BY <1>1, Invariance, PTL

(* Whatever vault is on the page by the time the user confirms, an edit or *)
(* a toggle under way names the vault the server has the item in           *)
(* (VaultManager::editItem, toggleFavorite).                               *)
THEOREM PutsNamed == Spec => []PutsNameTheirVault
<1>1. IInv => PutsNameTheirVault
  BY DEF IInv, RequestInv, Good, StoredIn, PutsNameTheirVault, UnderWay
<1> QED
  BY <1>1, Invariance, PTL

(* However requests overtake each other and whatever is lost, an item whose*)
(* own requests did not overlap and did not fail after they were executed  *)
(* is held as the server has it (the handlers of VaultManager's answers,   *)
(* VaultManager::onEditItemResult above all).                              *)
THEOREM Agreement == Spec => []ClientAgreesWithServer
<1>1. IInv /\ AgreeInv => ClientAgreesWithServer
  BY DEF IInv, RequestInv, HeldInv, StoredIn, AgreeInv, Same,
         ClientAgreesWithServer
<1> QED
  BY <1>1, Invariance, InitAgree, NextAgree, PTL DEF Spec
=============================================================================

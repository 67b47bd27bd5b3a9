----------------------------- MODULE Items_proofs -----------------------------
(***************************************************************************)
(* Proofs about Items.tla and the keys of VaultKeys.tla, for any devices,  *)
(* vaults and items, with the dialogs and the keys in any interleaving.    *)
(***************************************************************************)
EXTENDS Items, TLAPS

(* A device past its login has the account key that the server keeps       *)
(* wrapped, and the master key that opens it.                              *)
AccountInv ==
    /\ keys = [d \in Devices |-> keys[d]] /\ loggedIn \subseteq Devices
    /\ \A d \in loggedIn :
        /\ account # NoEnvelope
        /\ keys[d] = [master |-> DeriveMasterKey(ExportKey, Username),
                      account |-> account.data]

(* What a device holds of a vault is what the server stores of it, and an  *)
(* opened vault has the keys that follow from that.                        *)
Opened(vault, row) ==
    /\ vault.vaultKey = row.blob.data
    /\ vault.indexKey = IndexKey(row.blob.data, row.salt)

HoldsRow(vault, row) ==
    /\ row # NoRow
    /\ vault.blob = row.blob
    /\ vault.salt = row.salt
    /\ vault.isDecrypted => Opened(vault, row)

IsVault(vault) ==
    vault \in [blob : {vault.blob}, salt : {vault.salt},
               vaultKey : {vault.vaultKey}, indexKey : {vault.indexKey},
               isDecrypted : BOOLEAN]

VaultInv ==
    /\ vaultRows = [v \in Vaults |-> vaultRows[v]]
    /\ held = [d \in Devices |-> [v \in Vaults |-> held[d][v]]]
    /\ \A d \in Devices, v \in Vaults : held[d][v] # NoVault =>
          IsVault(held[d][v]) /\ HoldsRow(held[d][v], vaultRows[v])

KeysInv == AccountInv /\ VaultInv
-----------------------------------------------------------------------------
LEMMA KeysInitInv == KeysInit => KeysInv
<1> SUFFICES ASSUME KeysInit PROVE KeysInv
  OBVIOUS
<1>1. AccountInv
  BY DEF KeysInit, AccountInv
<1>2. VaultInv
  BY DEF KeysInit, VaultInv
<1> QED
  BY <1>1, <1>2 DEF KeysInv

(* The account's envelope never changes once it is there.                  *)
LEMMA AccountStep == AccountInv /\ [KeysNext]_keyVars => AccountInv'
<1> SUFFICES ASSUME AccountInv, [KeysNext]_keyVars PROVE AccountInv'
  OBVIOUS
<1> USE DEF AccountInv
<1>1. ASSUME NEW d \in Devices, Register(d) PROVE AccountInv'
  <2>1. d \notin loggedIn /\ loggedIn' = loggedIn
    BY <1>1 DEF Register
  <2>2. \A e \in loggedIn : keys'[e] = keys[e]
    BY <1>1, <2>1 DEF Register
  <2>3. account # NoEnvelope => account' = account
    BY <1>1 DEF Register
  <2>4. keys' = [e \in Devices |-> keys'[e]]
    BY <1>1 DEF Register
  <2> QED
    BY <2>1, <2>2, <2>3, <2>4
<1>2. ASSUME NEW d \in Devices, Login(d) PROVE AccountInv'
  BY <1>2 DEF Login
<1>3. ASSUME NEW d \in Devices, NEW v \in Vaults,
             MakeVault(d, v) \/ ReceiveVault(d, v) \/ DecryptVaultKey(d, v)
      PROVE  AccountInv'
  BY <1>3 DEF MakeVault, ReceiveVault, DecryptVaultKey
<1>4. CASE UNCHANGED keyVars
  BY <1>4 DEF keyVars
<1> QED
  BY <1>1, <1>2, <1>3, <1>4 DEF KeysNext

(* A vault is put in its place, on one device.                             *)
LEMMA PutVault ==
    ASSUME VaultInv, NEW d \in Devices, NEW v \in Vaults, NEW vault, NEW row,
           held' = [held EXCEPT ![d][v] = vault],
           vaultRows' = [vaultRows EXCEPT ![v] = row],
           IsVault(vault), HoldsRow(vault, row),
           row = vaultRows[v] \/ \A e \in Devices : held[e][v] = NoVault
    PROVE  VaultInv'
<1> USE DEF VaultInv
<1>1. held' = [held EXCEPT ![d] = [held[d] EXCEPT ![v] = vault]]
  OBVIOUS
<1>2. /\ vaultRows'[v] = row /\ held'[d][v] = vault
      /\ \A w \in Vaults \ {v} : vaultRows'[w] = vaultRows[w]
      /\ \A e \in Devices, w \in Vaults :
            e # d \/ w # v => held'[e][w] = held[e][w]
  <2>1. vaultRows'[v] = row /\ \A w \in Vaults \ {v} : vaultRows'[w] = vaultRows[w]
    OBVIOUS
  <2>2. /\ held'[d] = [held[d] EXCEPT ![v] = vault]
        /\ \A e \in Devices \ {d} : held'[e] = held[e]
    BY <1>1
  <2>3. held'[d][v] = vault /\ \A w \in Vaults \ {v} : held'[d][w] = held[d][w]
    BY <2>2
  <2> QED
    BY <2>1, <2>2, <2>3, Zenon
<1>3. /\ vaultRows' = [w \in Vaults |-> vaultRows'[w]]
      /\ held' = [e \in Devices |-> [w \in Vaults |-> held'[e][w]]]
  <2>1. vaultRows' = [w \in Vaults |-> vaultRows'[w]]
    OBVIOUS
  <2>2. \A e \in Devices : held'[e] = [w \in Vaults |-> held'[e][w]]
    BY <1>1
  <2>3. held' = [e \in Devices |-> held'[e]]
    BY <1>1
  <2> QED
    BY <2>1, <2>2, <2>3
<1>4. ASSUME NEW e \in Devices, NEW w \in Vaults, held'[e][w] # NoVault
      PROVE  IsVault(held'[e][w]) /\ HoldsRow(held'[e][w], vaultRows'[w])
  <2>1. CASE e = d /\ w = v
    BY <1>2, <2>1
  <2>2. CASE e # d /\ w = v
    BY <1>2, <1>4, <2>2
  <2>3. CASE w # v
    BY <1>2, <1>4, <2>3
  <2> QED
    BY <2>1, <2>2, <2>3
<1> QED
  BY <1>3, <1>4 DEF IsVault, HoldsRow, Opened

LEMMA VaultStep == VaultInv /\ [KeysNext]_keyVars => VaultInv'
<1> SUFFICES ASSUME VaultInv, [KeysNext]_keyVars PROVE VaultInv'
  OBVIOUS
<1>1. ASSUME UNCHANGED <<held, vaultRows>> PROVE VaultInv'
  BY <1>1 DEF VaultInv
<1>2. ASSUME NEW d \in Devices, NEW v \in Vaults, MakeVault(d, v) PROVE VaultInv'
  <2> DEFINE new == NewVault(d, v)
             row == [blob |-> new.blob, salt |-> new.salt]
  <2>1. IsVault(new)
    BY DEF NewVault, IsVault
  <2>2. HoldsRow(new, row)
    BY DEF NewVault, ExportVaultKey, SealBound, Seal, NoRow, NoEnvelope, HoldsRow,
           Opened
  <2>3. \A e \in Devices : held[e][v] = NoVault
    BY <1>2 DEF MakeVault, VaultInv, HoldsRow
  <2>4. /\ vaultRows' = [vaultRows EXCEPT ![v] = row]
        /\ held' = [held EXCEPT ![d][v] = new]
    BY <1>2 DEF MakeVault
  <2> QED
    BY <2>1, <2>2, <2>3, <2>4, PutVault
<1>3. ASSUME NEW d \in Devices, NEW v \in Vaults, ReceiveVault(d, v)
      PROVE  VaultInv'
  <2> DEFINE new == LoadedVault(vaultRows[v])
  <2>1. IsVault(new)
    BY DEF LoadedVault, NoVault, IsVault
  <2>2. HoldsRow(new, vaultRows[v])
    BY <1>3 DEF ReceiveVault, LoadedVault, NoVault, HoldsRow
  <2>3. held' = [held EXCEPT ![d][v] = new]
    BY <1>3 DEF ReceiveVault
  <2>4. vaultRows' = [vaultRows EXCEPT ![v] = vaultRows[v]]
    BY <1>3 DEF ReceiveVault, VaultInv
  <2> QED
    BY <2>1, <2>2, <2>3, <2>4, PutVault
<1>4. ASSUME NEW d \in Devices, NEW v \in Vaults, DecryptVaultKey(d, v)
      PROVE  VaultInv'
  <2> DEFINE new == DecryptedVault(d, v)
  <2>1. IsVault(held[d][v]) /\ HoldsRow(held[d][v], vaultRows[v])
    BY <1>4 DEF DecryptVaultKey, VaultInv
  <2>2. /\ new.blob = held[d][v].blob /\ new.salt = held[d][v].salt
        /\ new.vaultKey = held[d][v].blob.data
        /\ new.indexKey = IndexKey(held[d][v].blob.data, held[d][v].salt)
    BY <2>1 DEF IsVault, DecryptedVault
  <2>3. IsVault(new)
    BY <2>1, <2>2 DEF IsVault, DecryptedVault
  <2>4. HoldsRow(new, vaultRows[v])
    BY <2>1, <2>2 DEF HoldsRow, Opened
  <2>5. held' = [held EXCEPT ![d][v] = new]
    BY <1>4 DEF DecryptVaultKey
  <2>6. vaultRows' = [vaultRows EXCEPT ![v] = vaultRows[v]]
    BY <1>4 DEF DecryptVaultKey, VaultInv
  <2> QED
    BY <2>3, <2>4, <2>5, <2>6, PutVault
<1>5. CASE UNCHANGED keyVars
  BY <1>1, <1>5 DEF keyVars
<1>6. ASSUME NEW d \in Devices, Register(d) \/ Login(d) PROVE VaultInv'
  BY <1>1, <1>6 DEF Register, Login
<1> QED
  BY <1>2, <1>3, <1>4, <1>5, <1>6 DEF KeysNext

(* An item sealed on one device of the account opens on every other one:   *)
(* all of them have the same account key, and the same keys of each vault, *)
(* made on one device and recovered on the others.                         *)
THEOREM KeysAgree == Spec => []DevicesAgree
<1>1. Init => KeysInv
  BY KeysInitInv DEF Init
<1>2. KeysInv /\ [Next]_<<keyVars, formVars>> => KeysInv'
  BY AccountStep, VaultStep DEF KeysInv, Next
<1>3. KeysInv => DevicesAgree
  <2> SUFFICES ASSUME KeysInv, NEW d \in Devices, NEW e \in Devices
               PROVE  /\ {d, e} \subseteq loggedIn => keys[d] = keys[e]
                      /\ \A v \in Vaults :
                           held[d][v].isDecrypted /\ held[e][v].isDecrypted =>
                             /\ held[d][v].vaultKey = held[e][v].vaultKey
                             /\ GetItemNameHash(held[d][v], "name")
                                  = GetItemNameHash(held[e][v], "name")
    BY DEF DevicesAgree
  <2>1. {d, e} \subseteq loggedIn => keys[d] = keys[e]
    BY DEF KeysInv, AccountInv
  <2>2. ASSUME NEW v \in Vaults, held[d][v].isDecrypted, held[e][v].isDecrypted
        PROVE  /\ held[d][v].vaultKey = held[e][v].vaultKey
               /\ held[d][v].indexKey = held[e][v].indexKey
    <3>1. held[d][v] # NoVault /\ held[e][v] # NoVault
      BY <2>2 DEF NoVault
    <3> QED
      BY <2>2, <3>1 DEF KeysInv, VaultInv, HoldsRow, Opened
  <2> QED
    BY <2>1, <2>2 DEF GetItemNameHash
<1> QED
  BY <1>1, <1>2, <1>3, PTL DEF Spec
-----------------------------------------------------------------------------
(* A field holds a string or a Boolean, as its type says, and a row of     *)
(* inputs one of each.                                                     *)
Strings == Texts \cup {NoText}
Field ==
    {f \in [type : FieldTypes, string : Strings, bool : BOOLEAN] :
        IF f.type = "Boolean" THEN f.string = NoText ELSE ~f.bool}
Row == [type : FieldTypes, string : [{"Text", "Password"} -> Strings], bool : BOOLEAN]

(* The numbers of an expiry, the fields of a note and their rows.          *)
Expiry == Nat \X Nat
FieldList == Seq(Field)
RowList == Seq(Row)

IsDetails(d) ==
    /\ d = [kind |-> d.kind, text |-> d.text, extra |-> d.extra]
    /\ d.kind \in Kinds
    /\ d.kind = "card" => d.extra \in Expiry
    /\ d.kind = "note" => d.extra \in FieldList

IsModel(m) ==
    /\ m = [id |-> m.id, name |-> m.name, details |-> m.details]
    /\ IsDetails(m.details)

IsPage(p, k) ==
    /\ p = [text |-> p.text, extra |-> p.extra]
    /\ k = "card" => p.extra \in Expiry
    /\ k = "note" => p.extra \in RowList
-----------------------------------------------------------------------------
LEMMA FieldOfRow ==
    ASSUME NEW f \in Field
    PROVE  RowOf(f) \in Row /\ FieldOf(RowOf(f)) = f
<1>1. f.type \in FieldTypes /\ f.string \in Strings /\ f.bool \in BOOLEAN
  BY DEF Field
<1>2. f = [type |-> f.type, string |-> f.string, bool |-> f.bool]
  BY DEF Field
<1>3. CASE f.type = "Boolean"
  <2>1. f.string = NoText
    BY <1>3 DEF Field
  <2> QED
    BY <1>1, <1>2, <1>3, <2>1 DEF RowOf, FieldOf, Row, FieldTypes, Strings
<1>4. CASE f.type # "Boolean"
  <2>1. f.bool = FALSE
    BY <1>4, <1>1 DEF Field
  <2> QED
    BY <1>1, <1>2, <1>4, <2>1 DEF RowOf, FieldOf, Row, FieldTypes, Strings
<1> QED
  BY <1>3, <1>4

LEMMA FieldOfIsField ==
    ASSUME NEW r \in Row
    PROVE  FieldOf(r) \in Field
BY DEF Row, Field, FieldOf, FieldTypes, Strings

LEMMA FieldsOfRows ==
    ASSUME NEW fields \in FieldList
    PROVE  RowsOf(fields) \in RowList /\ FieldsOf(RowsOf(fields)) = fields
BY FieldOfRow DEF RowsOf, FieldsOf, FieldList, RowList

LEMMA FieldsOfIsFields ==
    ASSUME NEW rows \in RowList
    PROVE  FieldsOf(rows) \in FieldList
BY FieldOfIsField DEF FieldsOf, FieldList, RowList

LEMMA DetailsAre ==
    ASSUME NEW k \in Kinds, NEW t, NEW x,
           k = "card" => x \in Expiry,
           k = "note" => x \in FieldList
    PROVE  /\ IsDetails(Details(k, t, x))
           /\ Details(k, t, x).kind = k
           /\ Details(k, t, x).text = t
           /\ Details(k, t, x).extra = x
BY DEF Details, IsDetails

LEMMA DetailsWith ==
    ASSUME NEW d, IsDetails(d), NEW t, NEW x
    PROVE  /\ [d EXCEPT !.text = t] = Details(d.kind, t, d.extra)
           /\ [d EXCEPT !.extra = x] = Details(d.kind, d.text, x)
<1>1. d = [kind |-> d.kind, text |-> d.text, extra |-> d.extra]
  BY DEF IsDetails
<1>2. [d EXCEPT !.text = t] = Details(d.kind, t, d.extra)
  BY <1>1 DEF Details
<1>3. [d EXCEPT !.extra = x] = Details(d.kind, d.text, x)
  BY <1>1 DEF Details
<1> QED
  BY <1>2, <1>3

LEMMA BlankIsDetails ==
    ASSUME NEW k \in Kinds
    PROVE  IsDetails(Blank(k)) /\ Blank(k).kind = k
<1>1. k = "card" => NoExtra(k) \in Expiry
  BY DEF NoExtra, NoExpiry, Expiry
<1>2. k = "note" => NoExtra(k) \in FieldList
  BY DEF NoExtra, NoFields, FieldList
<1> QED
  BY <1>1, <1>2, DetailsAre DEF Blank

LEMMA ExpiryIsNumbers ==
    ASSUME NEW d, IsDetails(d), d.kind = "card", NEW month \in Nat, NEW year \in Nat
    PROVE  LET e == SetExpirationDate(d, month, year) IN
           IsDetails(e) /\ e.kind = "card" /\ e.text = d.text
<1> DEFINE e == [d EXCEPT !.extra = <<month, year>>]
<1>1. d = [kind |-> "card", text |-> d.text, extra |-> d.extra]
  BY DEF IsDetails
<1>2. e = [kind |-> "card", text |-> d.text, extra |-> <<month, year>>]
  BY <1>1
<1>3. IsDetails(e) /\ e.kind = "card" /\ e.text = d.text
  BY <1>2 DEF IsDetails, Kinds, Expiry
<1> QED
  BY <1>3 DEF SetExpirationDate

LEMMA TypedExpiryIsNumbers ==
    ASSUME NEW d, NEW date \in Expiry, IsDetails(d), d.kind = "card"
    PROVE  LET e == SetExpirationText(d, date) IN
           IsDetails(e) /\ e.kind = "card" /\ e.text = d.text
<1>1. WithoutZeros(date[1]) \in Nat /\ WithoutZeros(date[2]) \in Nat
  BY DEF WithoutZeros, Expiry
<1> QED
  BY <1>1, ExpiryIsNumbers DEF Expiry, SetExpirationText

(* What a page shows of details it is set with, and what it makes of them. *)
Agrees(page, d) ==
    /\ page.text = d.text
    /\ d.kind = "login" => page.extra = d.extra
    /\ d.kind = "identity" /\ d.extra # NoDate => page.extra = d.extra
    /\ d.kind = "note" => FieldsOf(page.extra) = d.extra

SetShows(set, d) ==
    /\ IsPage(set.page, d.kind)
    /\ IsDetails(set.details)
    /\ set.details.kind = d.kind
    /\ Agrees(set.page, set.details)
    /\ set.details # d => d.kind = "identity" /\ d.extra = NoDate

LEMMA SetPageShows ==
    ASSUME NEW d, IsDetails(d), NEW page, IsPage(page, d.kind)
    PROVE  SetShows(SetPageModel(page, d), d)
<1> DEFINE set == SetPageModel(page, d)
<1>1. d = [kind |-> d.kind, text |-> d.text, extra |-> d.extra] /\ d.kind \in Kinds
  BY DEF IsDetails
<1>2. CASE d.kind = "login"
  <2>1. set.page = [text |-> d.text, extra |-> d.extra] /\ set.details = d
    BY <1>2 DEF SetPageModel, SetLoginModel
  <2> HIDE DEF set
  <2>2. SetShows(set, d)
    BY <1>2, <2>1 DEF IsPage, Agrees, SetShows
  <2> QED
    BY <2>2 DEF set
<1>3. CASE d.kind = "card"
  <2>1. set.page = [text |-> d.text, extra |-> page.extra] /\ set.details = d
    BY <1>3 DEF SetPageModel, SetCardModel
  <2> HIDE DEF set
  <2>3. page.extra \in Expiry
    BY <1>3 DEF IsPage
  <2>4. IsPage(set.page, d.kind)
    BY <1>3, <2>1, <2>3 DEF IsPage
  <2>5. Agrees(set.page, set.details)
    BY <1>3, <2>1, SMTT(60) DEF Agrees
  <2>2. SetShows(set, d)
    BY <1>3, <2>1, <2>4, <2>5 DEF SetShows
  <2> QED
    BY <2>2 DEF set
<1>4. CASE d.kind = "identity"
  <2> DEFINE date == IF d.extra = NoDate THEN <<Today>> ELSE d.extra
             dated == [d EXCEPT !.extra = date]
  <2>1. /\ set.page = [text |-> d.text, extra |-> date]
        /\ set.details = IF page.extra = date THEN d ELSE dated
    BY <1>4 DEF SetPageModel, SetIdentityModel
  <2>2. d.extra # NoDate => date = d.extra
    OBVIOUS
  <2> HIDE DEF set, date
  <2>3. dated = [kind |-> "identity", text |-> d.text, extra |-> date]
    BY <1>1, <1>4
  <2> HIDE DEF dated
  <2>4. d.extra # NoDate => dated = d
    BY <1>1, <1>4, <2>2, <2>3
  <2>5. IsDetails(dated)
    BY <2>3 DEF IsDetails, Kinds
  <2>6. ASSUME set.details = d PROVE SetShows(set, d)
    BY <1>4, <2>1, <2>2, <2>6 DEF SetShows, IsPage, Agrees
  <2>7. ASSUME set.details = dated PROVE SetShows(set, d)
    BY <1>4, <2>1, <2>3, <2>4, <2>5, <2>7 DEF SetShows, IsPage, Agrees
  <2>8. SetShows(set, d)
    BY <2>1, <2>6, <2>7
  <2> QED
    BY <2>8 DEF set
<1>5. CASE d.kind = "note"
  <2>1. set.page = [text |-> d.text, extra |-> RowsOf(d.extra)] /\ set.details = d
    BY <1>5 DEF SetPageModel, SetNoteModel
  <2>2. d.extra \in FieldList
    BY <1>5 DEF IsDetails
  <2>3. RowsOf(d.extra) \in RowList /\ FieldsOf(RowsOf(d.extra)) = d.extra
    BY <2>2, FieldsOfRows
  <2> HIDE DEF set
  <2>4. SetShows(set, d)
    BY <1>5, <2>1, <2>3 DEF IsPage, Agrees, SetShows
  <2> QED
    BY <2>4 DEF set
<1> QED
  BY <1>1, <1>2, <1>3, <1>4, <1>5 DEF Kinds

-----------------------------------------------------------------------------
(* What the two dialogs have in common, and that a page is in step with    *)
(* the model while the dialog is not astray.                               *)
IsDialog(dialog) ==
    /\ {"kind", "pages", "model", "astray", "generator", "untouched"} \subseteq DOMAIN dialog
    /\ dialog = [f \in DOMAIN dialog |-> dialog[f]]
    /\ dialog.kind \in Kinds
    /\ dialog.pages = [k \in Kinds |-> dialog.pages[k]]
    /\ \A k \in Kinds : IsPage(dialog.pages[k], k)
    /\ IsModel(dialog.model)
    /\ dialog.astray \in BOOLEAN

InStep(dialog) ==
    ~dialog.astray =>
        /\ dialog.model.details.kind = dialog.kind
        /\ Agrees(dialog.pages[dialog.kind], dialog.model.details)

(* Of a dialog, only these members change.                                 *)
Keeps(changed, dialog) ==
    /\ DOMAIN changed = DOMAIN dialog
    /\ \A f \in DOMAIN dialog \ {"kind", "pages", "model", "astray", "generator", "untouched"} :
          changed[f] = dialog[f]
    /\ changed.model.name = dialog.model.name

PageBecomes(c, dialog, k, page, d) ==
    /\ IsDialog(c) /\ Keeps(c, dialog)
    /\ c.kind = dialog.kind /\ c.untouched = FALSE
    /\ c.pages[k] = page
    /\ c.astray = (dialog.astray \/ dialog.model.details.kind # k)
    /\ dialog.model.details.kind = k => c.model.details = d

IsDetailsOf(dialog, k, d) == dialog.model.details.kind = k => IsDetails(d) /\ d.kind = k

LEMMA Changes ==
    ASSUME NEW dialog, IsDialog(dialog), NEW k \in Kinds, NEW page, IsPage(page, k), NEW d,
           IsDetailsOf(dialog, k, d), NEW c \in Changed(dialog, k, page, d)
    PROVE  PageBecomes(c, dialog, k, page, d)
<1>1. PICK w \in Written(dialog, k, d) :
         c = [dialog EXCEPT !.pages[k] = page, !.model.details = w, !.untouched = FALSE,
                            !.astray = @ \/ dialog.model.details.kind # k]
  BY DEF Changed
<1>2. IsDetails(w) /\ (dialog.model.details.kind = k => w = d)
  <2>1. CASE dialog.model.details.kind = k
    BY <2>1 DEF Written, IsDetailsOf
  <2>2. CASE dialog.model.details.kind # k
    <3>1. PICK t \in Texts : w = [dialog.model.details EXCEPT !.text = t]
      BY <2>2 DEF Written
    <3> DEFINE old == dialog.model.details
    <3>2. IsDetails(old)
      BY DEF IsDialog, IsModel
    <3> HIDE DEF old
    <3>3. w = [old EXCEPT !.text = t]
      BY <3>1 DEF old
    <3>4. w = [kind |-> old.kind, text |-> t, extra |-> old.extra]
      BY <3>2, <3>3 DEF IsDetails
    <3>5. IsDetails(w)
      BY <3>2, <3>4 DEF IsDetails
    <3> QED
      BY <2>2, <3>5
  <2> QED
    BY <2>1, <2>2
<1>3. /\ DOMAIN c = DOMAIN dialog
      /\ c = [f \in DOMAIN c |-> c[f]]
      /\ c.kind = dialog.kind /\ c.untouched = FALSE
      /\ c.pages = [dialog.pages EXCEPT ![k] = page]
      /\ c.model = [dialog.model EXCEPT !.details = w]
  BY <1>1 DEF IsDialog
<1>4. c.astray = (dialog.astray \/ dialog.model.details.kind # k)
  BY <1>1 DEF IsDialog
<1>5. Keeps(c, dialog)
  <2>1. c.model.name = dialog.model.name
    BY <1>3 DEF IsDialog, IsModel
  <2> QED
    BY <1>1, <2>1 DEF IsDialog, Keeps
<1>6. IsModel(c.model) /\ c.model.details = w
  BY <1>2, <1>3 DEF IsDialog, IsModel
<1>7. /\ c.pages = [l \in Kinds |-> c.pages[l]]
      /\ c.pages[k] = page
      /\ \A l \in Kinds : IsPage(c.pages[l], l)
  BY <1>3 DEF IsDialog
<1>8. IsDialog(c)
  BY <1>3, <1>4, <1>6, <1>7 DEF IsDialog
<1> QED
  BY <1>2, <1>3, <1>4, <1>5, <1>6, <1>7, <1>8 DEF PageBecomes

(* The details that a page's inputs stand for agree with the page.         *)
Follows(e, k, page) == IsDetails(e) /\ e.kind = k /\ Agrees(page, e)

LEMMA FromNoteFollows ==
    ASSUME NEW page, IsPage(page, "note")
    PROVE  Follows(FromNote(page), "note", page)
<1>1. FieldsOf(page.extra) \in FieldList
  BY FieldsOfIsFields DEF IsPage, FieldList, RowList
<1> QED
  BY <1>1, DetailsAre DEF FromNote, Follows, Agrees, Kinds

(* A change of what makes the kind special leaves the text of the details. *)
LEMMA FromExtraFollows ==
    ASSUME NEW k \in Kinds, NEW page, IsPage(page, k),
           NEW d, IsDetails(d), d.kind = k
    PROVE  LET e == FromExtra(k, page, d) IN
           /\ IsDetails(e) /\ e.kind = k
           /\ d.text = page.text => Agrees(page, e)
<1> DEFINE e == FromExtra(k, page, d)
<1>1. CASE k = "card"
  <2>1. page.extra \in Expiry
    BY <1>1 DEF IsPage
  <2>2. e = SetExpirationText(d, page.extra)
    BY <1>1 DEF FromExtra
  <2> HIDE DEF e
  <2>3. IsDetails(e) /\ e.kind = "card" /\ e.text = d.text
    BY <1>1, <2>1, <2>2, TypedExpiryIsNumbers
  <2> QED
    BY <1>1, <2>3 DEF Agrees, e
<1>2. CASE k = "note"
  <2>1. e = FromNote(page)
    BY <1>2 DEF FromExtra
  <2> HIDE DEF e
  <2> QED
    BY <1>2, <2>1, FromNoteFollows DEF Follows, e
<1>3. CASE k \notin {"card", "note"}
  <2>1. e = [d EXCEPT !.extra = page.extra]
    BY <1>3 DEF FromExtra
  <2>2. e = Details(k, d.text, page.extra)
    BY <2>1, DetailsWith, Zenon
  <2> HIDE DEF e
  <2>3. IsDetails(e) /\ e.kind = k /\ e.text = d.text /\ e.extra = page.extra
    BY <1>3, <2>2, DetailsAre
  <2> QED
    BY <1>3, <2>3 DEF Agrees, e
<1> QED
  BY <1>1, <1>2, <1>3

(* A change of an input leaves the dialog in step, if it was, and touched. *)
Touched(c, dialog) ==
    IsDialog(c) /\ Keeps(c, dialog) /\ InStep(c) /\ c.untouched = FALSE

LEMMA TextTouches ==
    ASSUME NEW dialog, IsDialog(dialog), InStep(dialog), NEW c \in TextTyped(dialog)
    PROVE  Touched(c, dialog)
<1> DEFINE k == dialog.kind
           old == dialog.pages[k]
           was == dialog.model.details
           Page(t) == [old EXCEPT !.text = t]
<1>1. PICK t \in Texts : c \in Changed(dialog, k, Page(t), FromText(k, Page(t), was))
  BY DEF TextTyped
<1> DEFINE page == Page(t)
           d == FromText(k, page, was)
<1>2. k \in Kinds /\ IsPage(old, k) /\ IsDetails(was)
  BY DEF IsDialog, IsModel
<1>3. page = [text |-> t, extra |-> old.extra] /\ IsPage(page, k)
  <2> HIDE DEF old
  <2> QED
    BY <1>2 DEF IsPage
<1>4. c \in Changed(dialog, k, page, d)
  BY <1>1
<1>5. ASSUME was.kind = k
      PROVE  IsDetails(d) /\ d.kind = k /\ (~dialog.astray => Agrees(page, d))
  <2>1. CASE k = "note"
    <3>1. d = FromNote(page)
      BY <2>1 DEF FromText
    <3> HIDE DEF k, page, was, d
    <3> QED
      BY <1>3, <2>1, <3>1, FromNoteFollows DEF Follows
  <2>2. CASE k # "note"
    <3>1. d = [was EXCEPT !.text = page.text]
      BY <2>2 DEF FromText
    <3>2. ~dialog.astray => Agrees(old, was)
      BY DEF InStep
    <3> HIDE DEF k, page, was, d, old
    <3>3. d = [kind |-> k, text |-> t, extra |-> was.extra]
      BY <1>2, <1>3, <1>5, <3>1 DEF IsDetails
    <3>4. IsDetails(d) /\ d.kind = k
      BY <1>2, <1>5, <2>2, <3>3 DEF IsDetails
    <3> QED
      BY <1>3, <1>5, <2>2, <3>2, <3>3, <3>4 DEF Agrees
  <2> QED
    BY <2>1, <2>2
<1> HIDE DEF page, d
<1>6. PageBecomes(c, dialog, k, page, d)
  <2>1. IsDetailsOf(dialog, k, d)
    BY <1>5 DEF IsDetailsOf
  <2> HIDE DEF k
  <2> QED
    BY <1>2, <1>3, <1>4, <2>1, Changes
<1>7. InStep(c)
  BY <1>5, <1>6 DEF InStep, IsDialog, PageBecomes
<1> QED
  BY <1>6, <1>7 DEF Touched, PageBecomes

FitsPage(k, extra) ==
    /\ k = "card" => extra \in Expiry
    /\ k = "note" => extra \in RowList

LEMMA ExtraTouches ==
    ASSUME NEW dialog, IsDialog(dialog), InStep(dialog), NEW k \in Kinds, NEW extras,
           \A e \in extras : FitsPage(k, e), NEW c \in ExtraTyped(dialog, k, extras)
    PROVE  Touched(c, dialog)
<1> DEFINE old == dialog.pages[k]
           was == dialog.model.details
           Page(e) == [old EXCEPT !.extra = e]
           From(e) == IF was.kind = k THEN FromExtra(k, Page(e), was) ELSE was
<1>1. PICK e \in extras : c \in Changed(dialog, k, Page(e), From(e))
  BY DEF ExtraTyped
<1> DEFINE page == Page(e)
           d == From(e)
<1>2. dialog.kind = k /\ IsPage(old, k) /\ IsDetails(was)
  BY DEF IsDialog, IsModel, ExtraTyped
<1>3. IsPage(page, k) /\ page.text = old.text
  <2>1. page = [text |-> old.text, extra |-> e]
    <3> HIDE DEF old
    <3> QED
      BY <1>2 DEF IsPage
  <2>2. FitsPage(k, e)
    OBVIOUS
  <2> HIDE DEF page
  <2> QED
    BY <2>1, <2>2 DEF IsPage, FitsPage
<1>4. c \in Changed(dialog, k, page, d)
  BY <1>1
<1>5. ASSUME was.kind = k
      PROVE  IsDetails(d) /\ d.kind = k /\ (~dialog.astray => Agrees(page, d))
  <2>1. d = FromExtra(k, page, was)
    BY <1>5
  <2>2. ~dialog.astray => was.text = old.text
    BY <1>2 DEF InStep, Agrees
  <2> HIDE DEF page, was, d, old
  <2>3. IsDetails(d) /\ d.kind = k /\ (was.text = page.text => Agrees(page, d))
    BY <1>2, <1>3, <1>5, <2>1, FromExtraFollows
  <2> QED
    BY <1>3, <2>2, <2>3
<1> HIDE DEF page, d
<1>6. PageBecomes(c, dialog, k, page, d)
  <2>1. IsDetailsOf(dialog, k, d)
    BY <1>5 DEF IsDetailsOf
  <2> QED
    BY <1>3, <1>4, <2>1, Changes
<1>7. InStep(c)
  BY <1>2, <1>5, <1>6 DEF InStep, IsDialog, PageBecomes
<1> QED
  BY <1>6, <1>7 DEF Touched, PageBecomes

LEMMA RemovedStays ==
    ASSUME NEW S, NEW s \in Seq(S), NEW i \in DOMAIN s
    PROVE  RemoveAt(s, i) \in Seq(S)
<1>1. SubSeq(s, 1, i - 1) \in Seq(S) /\ SubSeq(s, i + 1, Len(s)) \in Seq(S)
  OBVIOUS
<1> QED
  BY <1>1 DEF RemoveAt

LEMMA RowsStayRows ==
    ASSUME NEW rows \in Seq(Row)
    PROVE  /\ Append(rows, NewRow) \in Seq(Row)
           /\ \A i \in DOMAIN rows :
                 RemoveAt(rows, i) \in Seq(Row)
           /\ \A i \in DOMAIN rows, t \in FieldTypes : [rows EXCEPT ![i].type = t] \in Seq(Row)
           /\ \A i \in DOMAIN rows : [rows EXCEPT ![i].bool = ~@] \in Seq(Row)
           /\ \A i \in DOMAIN rows, t \in Texts :
                 rows[i].type # "Boolean" =>
                   [rows EXCEPT ![i].string[rows[i].type] = t] \in Seq(Row)
<1>1. NewRow \in Row
  BY DEF NewRow, RowOf, Row, FieldTypes, Strings
<1>2. \A i \in DOMAIN rows : i \in 1..Len(rows) /\ rows[i] \in Row
  OBVIOUS
<1>3. \A i \in DOMAIN rows, r \in Row : [rows EXCEPT ![i] = r] \in Seq(Row)
  OBVIOUS
<1>4. \A r \in Row, t \in FieldTypes : [r EXCEPT !.type = t] \in Row
  BY DEF Row
<1>5. \A r \in Row : [r EXCEPT !.bool = ~@] \in Row
  BY DEF Row
<1>6. \A r \in Row, t \in Texts : r.type # "Boolean" => [r EXCEPT !.string[r.type] = t] \in Row
  BY DEF Row, FieldTypes, Strings
<1>7. Append(rows, NewRow) \in Seq(Row)
  BY <1>1
<1>8. \A i \in DOMAIN rows : RemoveAt(rows, i) \in Seq(Row)
  BY RemovedStays
<1> QED
  BY <1>2, <1>3, <1>4, <1>5, <1>6, <1>7, <1>8

LEMMA InputTouches ==
    ASSUME NEW dialog, IsDialog(dialog), InStep(dialog), NEW c \in InputChanges(dialog)
    PROVE  Touched(c, dialog)
<1> DEFINE rows == dialog.pages["note"].extra
<1>1. rows \in Seq(Row)
  BY DEF IsDialog, IsPage, RowList, Kinds
<1>2. CASE c \in TextTyped(dialog)
  BY <1>2, TextTouches
<1>3. CASE c \in PasswordTyped(dialog)
  <2>1. \A e \in {<<t>> : t \in Texts} : FitsPage("login", e)
    BY DEF FitsPage
  <2> QED
    BY <1>3, <2>1, ExtraTouches DEF PasswordTyped, Kinds
<1>4. CASE c \in ExpiryTyped(dialog)
  <2>1. \A e \in Expiries : FitsPage("card", e)
    BY ItemsAssumption DEF FitsPage, Expiry
  <2> QED
    BY <1>4, <2>1, ExtraTouches DEF ExpiryTyped, Kinds
<1>5. CASE c \in DateChosen(dialog)
  <2>1. \A e \in {<<t>> : t \in Dates} : FitsPage("identity", e)
    BY DEF FitsPage
  <2> QED
    BY <1>5, <2>1, ExtraTouches DEF DateChosen, Kinds
<1>6. CASE c \in FieldAdded(dialog)
  <2>1. \A e \in {Append(rows, NewRow)} : FitsPage("note", e)
    BY <1>1, RowsStayRows DEF FitsPage, RowList
  <2>2. c \in ExtraTyped(dialog, "note", {Append(rows, NewRow)})
    BY <1>6 DEF FieldAdded
  <2> QED
    BY <2>1, <2>2, ExtraTouches DEF Kinds
<1>7. CASE c \in FieldRemoved(dialog)
  <2> DEFINE fewer == {RemoveAt(rows, i) : i \in DOMAIN rows}
  <2>1. \A e \in fewer : FitsPage("note", e)
    BY <1>1, RowsStayRows DEF FitsPage, RowList
  <2>2. c \in ExtraTyped(dialog, "note", fewer)
    BY <1>7 DEF FieldRemoved
  <2> HIDE DEF fewer
  <2> QED
    BY <2>1, <2>2, ExtraTouches DEF Kinds
<1>8. CASE c \in FieldChanged(dialog)
  <2> DEFINE Others(i) ==
               {[rows EXCEPT ![i].type = t] : t \in FieldTypes \ {rows[i].type}}
               \cup (IF rows[i].type = "Boolean" THEN {[rows EXCEPT ![i].bool = ~@]}
                     ELSE {[rows EXCEPT ![i].string[rows[i].type] = t] : t \in Texts})
  <2>1. PICK i \in DOMAIN rows : c \in ExtraTyped(dialog, "note", Others(i))
    BY <1>8 DEF FieldChanged
  <2> DEFINE others == Others(i)
  <2>2. ASSUME NEW e \in others PROVE e \in Seq(Row)
    <3>1. /\ \A t \in FieldTypes : [rows EXCEPT ![i].type = t] \in Seq(Row)
          /\ [rows EXCEPT ![i].bool = ~@] \in Seq(Row)
          /\ \A t \in Texts : rows[i].type # "Boolean" =>
                [rows EXCEPT ![i].string[rows[i].type] = t] \in Seq(Row)
      <4> HIDE DEF rows
      <4> QED
        BY <1>1, RowsStayRows
    <3> HIDE DEF rows
    <3> QED
      BY <3>1
  <2>3. c \in ExtraTyped(dialog, "note", others)
    BY <2>1
  <2> HIDE DEF others
  <2>4. \A e \in others : FitsPage("note", e)
    BY <2>2 DEF FitsPage, RowList
  <2> QED
    BY <2>3, <2>4, ExtraTouches DEF Kinds
<1> QED
  BY <1>2, <1>3, <1>4, <1>5, <1>6, <1>7, <1>8 DEF InputChanges

(* The generated password may reach a dialog that shows another page.      *)
LEMMA GeneratorTouches ==
    ASSUME NEW dialog, IsDialog(dialog), InStep(dialog), NEW c \in Generated(dialog)
    PROVE  Touched(c, dialog)
<1> DEFINE old == dialog.pages["login"]
           was == dialog.model.details
           page == [old EXCEPT !.extra = <<"generated">>]
           d == IF was.kind = "login" THEN FromExtra("login", page, was) ELSE was
<1>1. PICK b \in Changed(dialog, "login", page, d) : c = [b EXCEPT !.generator = FALSE]
  BY DEF Generated
<1>2. "login" \in Kinds /\ IsPage(old, "login") /\ IsDetails(was)
  BY DEF IsDialog, IsModel, Kinds
<1>3. page = [text |-> old.text, extra |-> <<"generated">>] /\ IsPage(page, "login")
  <2> HIDE DEF old
  <2> QED
    BY <1>2 DEF IsPage
<1>4. was.kind = "login" => d = Details("login", was.text, page.extra)
  <2> HIDE DEF was, page
  <2>1. [was EXCEPT !.extra = page.extra] = Details(was.kind, was.text, page.extra)
    BY <1>2, DetailsWith, Zenon
  <2>2. FromExtra("login", page, was) = [was EXCEPT !.extra = page.extra]
    BY DEF FromExtra
  <2> QED
    BY <2>1, <2>2
<1>5. IsDetailsOf(dialog, "login", d)
  <2> HIDE DEF d
  <2> QED
    BY <1>2, <1>4, DetailsAre DEF IsDetailsOf
<1>6. ~dialog.astray /\ was.kind = "login" => Agrees(page, d)
  <2>1. ~dialog.astray => Agrees(dialog.pages[dialog.kind], was) /\ was.kind = dialog.kind
    BY DEF InStep
  <2>2. was.kind = "login" => /\ d.kind = "login" /\ d.text = was.text
                             /\ d.extra = page.extra
    BY <1>2, <1>4, DetailsAre
  <2> HIDE DEF page, d, was
  <2> QED
    BY <1>3, <2>1, <2>2 DEF Agrees
<1> HIDE DEF page, d
<1>7. PageBecomes(b, dialog, "login", page, d)
  BY <1>1, <1>2, <1>3, <1>5, Changes
<1>8. InStep(b)
  BY <1>5, <1>6, <1>7 DEF InStep, IsDialog, IsDetailsOf, PageBecomes
<1>9. /\ DOMAIN c = DOMAIN b
      /\ c = [f \in DOMAIN c |-> c[f]]
      /\ \A f \in DOMAIN b \ {"generator"} : c[f] = b[f]
  BY <1>1, <1>7 DEF PageBecomes, IsDialog
<1>10. /\ c.kind = b.kind /\ c.pages = b.pages /\ c.model = b.model
       /\ c.astray = b.astray /\ c.untouched = b.untouched
  BY <1>7, <1>9 DEF PageBecomes, IsDialog
<1> QED
  BY <1>7, <1>8, <1>9, <1>10 DEF Touched, PageBecomes, IsDialog, InStep, Keeps
-----------------------------------------------------------------------------
(* An item is read as what it was made of.                                 *)
Serial(d) == DeserializeData(d.kind, SerializeData(d))

LEMMA NoteReadsBack ==
    ASSUME NEW d, IsDetails(d), d.kind = "note"
    PROVE  Serial(d) = {d}
<1> DEFINE Stored(f) == [type |-> f.type,
                         string |-> IF f.type = "Boolean" THEN NoText ELSE f.string,
                         bool |-> f.type = "Boolean" /\ f.bool]
           Loaded(f) == IF f.type = "Boolean"
                          THEN [type |-> f.type, string |-> NoText, bool |-> f.bool]
                          ELSE [type |-> f.type, string |-> f.string, bool |-> FALSE]
           sealed == [i \in DOMAIN d.extra |-> Stored(d.extra[i])]
           loaded == [i \in DOMAIN sealed |-> Loaded(sealed[i])]
<1>1. ASSUME NEW f \in Field PROVE Loaded(Stored(f)) = f
  <2>1. f = [type |-> f.type, string |-> f.string, bool |-> f.bool]
    BY DEF Field
  <2>2. IF f.type = "Boolean" THEN f.string = NoText ELSE f.bool = FALSE
    BY DEF Field
  <2>3. f.bool \in BOOLEAN
    BY DEF Field
  <2>4. CASE f.type = "Boolean"
    BY <2>1, <2>2, <2>3, <2>4
  <2>5. CASE f.type # "Boolean"
    BY <2>1, <2>2, <2>5
  <2> QED
    BY <2>4, <2>5
<1>2. d.extra \in Seq(Field)
  BY DEF IsDetails, FieldList
<1>3. DOMAIN sealed = DOMAIN d.extra /\ DOMAIN loaded = DOMAIN d.extra
  OBVIOUS
<1>4. \A i \in DOMAIN d.extra : loaded[i] = Loaded(Stored(d.extra[i]))
  OBVIOUS
<1>5. Serial(d) = {Details("note", d.text, loaded)}
  BY DEF Serial, SerializeData, SerializeNote, DeserializeData, DeserializeNote
<1> HIDE DEF loaded, sealed, Loaded, Stored
<1>6. \A i \in DOMAIN d.extra : loaded[i] = d.extra[i]
  BY <1>1, <1>2, <1>4
<1>7. loaded = [i \in DOMAIN d.extra |-> loaded[i]] /\ d.extra = [i \in DOMAIN d.extra |-> d.extra[i]]
  BY <1>2 DEF loaded, sealed
<1>8. loaded = d.extra
  BY <1>6, <1>7
<1> QED
  BY <1>5, <1>8 DEF IsDetails, Details

ReadsAs(read, d) ==
    /\ \A e \in read : IsDetails(e) /\ e.kind = d.kind
    /\ ~OddExpiry(d) => read = {d}

LEMMA ReadsBack ==
    ASSUME NEW d, IsDetails(d)
    PROVE  ReadsAs(Serial(d), d)
<1>1. d = [kind |-> d.kind, text |-> d.text, extra |-> d.extra] /\ d.kind \in Kinds
  BY DEF IsDetails
<1>2. CASE d.kind = "login"
  <2>1. Serial(d) = {Details("login", d.text, d.extra)}
    BY <1>2 DEF Serial, SerializeData, SerializeLogin, DeserializeData, DeserializeLogin
  <2>2. Details("login", d.text, d.extra) = d
    BY <1>1, <1>2 DEF Details
  <2> QED
    BY <2>1, <2>2 DEF ReadsAs
<1>3. CASE d.kind = "identity"
  <2>1. Serial(d) = {Details("identity", d.text, d.extra)}
    BY <1>3 DEF Serial, SerializeData, SerializeIdentity, DeserializeData, DeserializeIdentity
  <2>2. Details("identity", d.text, d.extra) = d
    BY <1>1, <1>3 DEF Details
  <2> QED
    BY <2>1, <2>2 DEF ReadsAs
<1>4. CASE d.kind = "note"
  BY <1>4, NoteReadsBack DEF ReadsAs
<1>5. CASE d.kind = "card"
  <2> DEFINE Over(junk) == SetExpirationDate(Details("card", d.text, junk), d.extra[1], d.extra[2])
  <2>1. Serial(d) = IF ~InBounds(d.extra) THEN {} ELSE {Over(junk) : junk \in Junk}
    BY <1>5 DEF Serial, SerializeData, SerializeCard, DeserializeData, DeserializeCard
  <2>2. d.extra \in Expiry
    BY <1>5 DEF IsDetails
  <2>3. ASSUME NEW junk \in Junk
        PROVE  IsDetails(Over(junk)) /\ Over(junk).kind = "card"
    <3>1. junk \in Expiry
      BY DEF Junk, Expiry
    <3>2. /\ IsDetails(Details("card", d.text, junk))
          /\ Details("card", d.text, junk).kind = "card"
      BY <3>1, DetailsAre DEF Kinds
    <3> QED
      BY <2>2, <3>2, ExpiryIsNumbers DEF Expiry
  <2>4. ASSUME ~OddExpiry(d), NEW junk \in Junk
        PROVE  InBounds(d.extra) /\ Over(junk) = d
    <3>1. InBounds(d.extra) /\ d.extra[1] >= 1
      BY <1>5, <2>2, <2>4 DEF OddExpiry, Expiry
    <3>2. d.extra[1] \in 1..12 /\ d.extra[2] \in Nat
      BY <3>1, <2>2 DEF InBounds, Expiry
    <3>3. Over(junk) = [Details("card", d.text, junk) EXCEPT !.extra = <<d.extra[1], d.extra[2]>>]
      BY <3>2 DEF SetExpirationDate
    <3>4. <<d.extra[1], d.extra[2]>> = d.extra
      BY <2>2 DEF Expiry
    <3> QED
      BY <1>1, <1>5, <3>1, <3>3, <3>4 DEF Details
  <2>5. <<7, 77>> \in Junk
    BY DEF Junk
  <2> HIDE DEF Over
  <2> QED
    BY <1>5, <2>1, <2>3, <2>4, <2>5 DEF ReadsAs
<1> QED
  BY <1>1, <1>2, <1>3, <1>4, <1>5 DEF Kinds

(* What CreateFromModel makes, read with the keys it was made with.        *)
Reads(item, vault, model) ==
    /\ LoadsFromSummary(model.id, item, vault)
    /\ item.metadata.data.custom_icon = CustomIcon(model.details)
    /\ \A m \in ToModel(model.id, item, vault) :
          IsModel(m) /\ m.id = model.id /\ m.name = model.name
    /\ ~OddExpiry(model.details) => ToModel(model.id, item, vault) = {model}

LEMMA ItemReadsAsModel ==
    ASSUME NEW model, IsModel(model), NEW vault, NEW other, NEW v,
           other.vaultKey = vault.vaultKey
    PROVE  Reads(CreateFromModel(model, vault, v), other, model)
<1> DEFINE item == CreateFromModel(model, vault, v)
           d == model.details
           Model(e) == [id |-> model.id, name |-> model.name, details |-> e]
<1>1. /\ item.metadata = SealBound(SerializeMetadata(model), vault.vaultKey, "metadata", <<model.id>>)
      /\ item.data = SealBound(SerializeData(d), vault.vaultKey, "data", <<model.id>>)
  BY DEF CreateFromModel
<1>2. /\ item.metadata.data = SerializeMetadata(model)
      /\ item.data.data = SerializeData(d)
  BY <1>1 DEF SealBound, Seal
<1>3. /\ LoadsFromSummary(model.id, item, other)
      /\ OpensBound(item.data, other.vaultKey, "data", <<model.id>>)
  BY <1>1 DEF LoadsFromSummary, OpensBound, DecryptsWith, SealBound, Seal
<1> HIDE DEF item
<1>4. ToModel(model.id, item, other) = {Model(e) : e \in Serial(d)}
  BY <1>2, <1>3 DEF ToModel, SerializeMetadata, Serial
<1>5. ReadsAs(Serial(d), d)
  BY ReadsBack DEF IsModel
<1>6. item.metadata.data.custom_icon = CustomIcon(d)
  BY <1>2 DEF SerializeMetadata
<1>7. Model(d) = model
  BY DEF IsModel
<1>8. \A e \in Serial(d) : IsModel(Model(e))
  BY <1>5 DEF ReadsAs, IsModel
<1>9. Reads(item, other, model)
  BY <1>3, <1>4, <1>5, <1>6, <1>7, <1>8 DEF Reads, ReadsAs
<1> QED
  BY <1>9 DEF item
-----------------------------------------------------------------------------
(* Steps that leave the page and the model of a dialog as they are.        *)
Same(c, dialog) ==
    /\ DOMAIN c = DOMAIN dialog
    /\ c = [f \in DOMAIN c |-> c[f]]
    /\ c.kind = dialog.kind /\ c.pages = dialog.pages
    /\ c.model = [id |-> c.model.id, name |-> c.model.name, details |-> dialog.model.details]
    /\ c.astray \in BOOLEAN
    /\ dialog.astray => c.astray

LEMMA SameStaysInStep ==
    ASSUME NEW dialog, IsDialog(dialog), InStep(dialog), NEW c, Same(c, dialog)
    PROVE  IsDialog(c) /\ InStep(c)
<1>1. IsModel(c.model)
  BY DEF Same, IsDialog, IsModel
<1>2. c.model.details = dialog.model.details
  BY DEF Same
<1>3. IsDialog(c)
  BY <1>1 DEF Same, IsDialog
<1> QED
  BY <1>2, <1>3 DEF Same, InStep

(* A page that is set with details shows them.                             *)
Showing(c, dialog, d) ==
    /\ IsDialog(c) /\ Keeps(c, dialog)
    /\ c.kind = d.kind /\ c.model.details.kind = d.kind
    /\ c.astray = dialog.astray /\ c.untouched = dialog.untouched
    /\ Agrees(c.pages[d.kind], c.model.details)
    /\ c.model.details # d => d.kind = "identity" /\ d.extra = NoDate

LEMMA ShownShows ==
    ASSUME NEW dialog, IsDialog(dialog), NEW d, IsDetails(d)
    PROVE  Showing(ShowDetails(dialog, d), dialog, d)
<1> DEFINE c == ShowDetails(dialog, d)
           set == SetPageModel(dialog.pages[d.kind], d)
<1>1. c = [dialog EXCEPT !.kind = d.kind, !.pages[d.kind] = set.page,
                         !.model.details = set.details]
  BY DEF ShowDetails
<1>2. d.kind \in Kinds
  BY DEF IsDetails
<1>3. SetShows(set, d)
  BY <1>2, SetPageShows DEF IsDialog
<1> HIDE DEF set, c
<1>4. /\ DOMAIN c = DOMAIN dialog
      /\ c = [f \in DOMAIN c |-> c[f]]
      /\ c.kind = d.kind
      /\ c.pages = [dialog.pages EXCEPT ![d.kind] = set.page]
      /\ c.model = [dialog.model EXCEPT !.details = set.details]
      /\ c.astray = dialog.astray /\ c.untouched = dialog.untouched
  BY <1>1 DEF IsDialog
<1>5. Keeps(c, dialog)
  <2>1. c.model.name = dialog.model.name
    BY <1>4 DEF IsDialog, IsModel
  <2> QED
    BY <1>1, <2>1 DEF IsDialog, Keeps
<1>6. IsModel(c.model) /\ c.model.details = set.details
  BY <1>3, <1>4 DEF IsDialog, IsModel, SetShows
<1>7. /\ c.pages = [l \in Kinds |-> c.pages[l]]
      /\ c.pages[d.kind] = set.page
      /\ \A l \in Kinds : IsPage(c.pages[l], l)
  BY <1>2, <1>3, <1>4 DEF IsDialog, SetShows
<1>8. IsDialog(c)
  BY <1>2, <1>4, <1>6, <1>7 DEF IsDialog
<1>9. Showing(c, dialog, d)
  BY <1>3, <1>4, <1>5, <1>6, <1>7, <1>8 DEF Showing, SetShows
<1> QED
  BY <1>9 DEF c

LEMMA ShowingIsInStep ==
    ASSUME NEW dialog, NEW d, NEW c, Showing(c, dialog, d)
    PROVE  InStep(c)
BY DEF Showing, InStep

LEMMA NewPagesAre ==
    NewPages = [k \in Kinds |-> NewPages[k]] /\ \A k \in Kinds : IsPage(NewPages[k], k)
<1>1. ASSUME NEW k \in Kinds PROVE IsPage(NewPage(k), k)
  <2> DEFINE extra == IF k = "identity" THEN <<"default">> ELSE NoExtra(k)
  <2>1. k = "card" => extra \in Expiry
    BY DEF NoExtra, NoExpiry, Expiry
  <2>2. k = "note" => extra \in RowList
    BY DEF NoExtra, NoFields, RowList
  <2>3. NewPage(k) = [text |-> NoText, extra |-> extra]
    BY DEF NewPage
  <2> HIDE DEF extra
  <2> QED
    BY <2>1, <2>2, <2>3 DEF IsPage
<1> QED
  BY <1>1 DEF NewPages

LEMMA NewModelIs == IsModel(NewModel) /\ NewModel.details = Blank("login") /\ NewModel.id = 0
BY BlankIsDetails DEF NewModel, IsModel, Kinds
-----------------------------------------------------------------------------
(* The inductive invariant of the forms: each dialog is in step, an item   *)
(* that was made is sealed for an opened vault and made of its model, and  *)
(* an answer is awaited for such a vault only.  What is on its way to the  *)
(* server has a name.                                                      *)
NameFits(dialog) ==
    dialog.model.name = IF dialog.nameLost THEN NoText ELSE dialog.name

IsAdd(dialog) ==
    /\ IsDialog(dialog) /\ InStep(dialog) /\ NameFits(dialog)
    /\ {"state", "name", "nameLost", "waiting", "sent", "into"} \subseteq DOMAIN dialog
    /\ IsModel(dialog.sent)

IsSent(models) ==
    \E S : models \in Seq(S) /\ \A m \in S : IsModel(m) /\ m.name # NoText

IsEdit(dialog) ==
    /\ IsDialog(dialog) /\ InStep(dialog)
    /\ {"state", "name", "sent", "original"} \subseteq DOMAIN dialog
    /\ IsSent(dialog.sent)
    /\ dialog.untouched =>
        \/ dialog.model.details = dialog.original
        \/ dialog.original.kind = "identity" /\ dialog.original.extra = NoDate

AddInv ==
    /\ IsAdd(add)
    /\ add.waiting => add.into \in OpenVaults /\ add.sent.name # NoText
EditInv == IsEdit(edit)

MadeOf(i, item, model) ==
    /\ item.vault \in OpenVaults
    /\ model.id = i /\ IsModel(model) /\ model.name # NoText
    /\ item = CreateFromModel(model, held[Here][item.vault], item.vault)

StoredInv ==
    /\ stored = [i \in ItemIds |-> stored[i]] /\ meant = [i \in ItemIds |-> meant[i]]
    /\ \A i \in ItemIds : Made(i) => MadeOf(i, stored[i], meant[i])

FormsInv == AddInv /\ EditInv /\ StoredInv

LEMMA TouchedAdd ==
    ASSUME NEW dialog, IsAdd(dialog), NEW c, Touched(c, dialog)
    PROVE  IsAdd(c) /\ c.waiting = dialog.waiting /\ c.into = dialog.into
           /\ c.sent = dialog.sent
<1>1. IsDialog(c) /\ InStep(c) /\ DOMAIN c = DOMAIN dialog
  BY DEF Touched, Keeps
<1>2. c.waiting = dialog.waiting /\ c.into = dialog.into /\ c.sent = dialog.sent
      /\ c.name = dialog.name /\ c.nameLost = dialog.nameLost
      /\ c.model.name = dialog.model.name
  BY DEF Touched, Keeps, IsAdd
<1> QED
  BY <1>1, <1>2 DEF IsAdd, NameFits

LEMMA TouchedEdit ==
    ASSUME NEW dialog, IsEdit(dialog), NEW c, Touched(c, dialog)
    PROVE  IsEdit(c)
<1>1. IsDialog(c) /\ InStep(c) /\ DOMAIN c = DOMAIN dialog /\ c.untouched = FALSE
  BY DEF Touched, Keeps
<1>2. c.sent = dialog.sent
  BY DEF Touched, Keeps, IsEdit
<1> QED
  BY <1>1, <1>2 DEF IsEdit

LEMMA NewAddIs == IsAdd(NewAdd) /\ NewAdd.waiting = FALSE
<1> DEFINE new == [state |-> "absent", name |-> NoText, nameLost |-> FALSE,
                   waiting |-> FALSE, kind |-> "login", pages |-> NewPages,
                   model |-> NewModel, astray |-> FALSE, generator |-> FALSE,
                   untouched |-> FALSE, sent |-> NewModel, into |-> NoText]
<1>1. IsDialog(new)
  BY NewPagesAre, NewModelIs DEF IsDialog, Kinds
<1>2. IsDetails(Blank("login"))
  BY BlankIsDetails DEF Kinds
<1>3. NewAdd = ShowDetails(new, Blank("login"))
  BY DEF NewAdd
<1>4. {"state", "name", "nameLost", "waiting", "sent", "into"} \subseteq DOMAIN new
      /\ new.sent = NewModel /\ new.waiting = FALSE
      /\ new.name = NoText /\ new.nameLost = FALSE /\ new.model.name = NoText
  BY DEF NewModel
<1> HIDE DEF new
<1>5. Showing(NewAdd, new, Blank("login"))
  BY <1>1, <1>2, <1>3, ShownShows
<1>6. IsDialog(NewAdd) /\ InStep(NewAdd) /\ DOMAIN NewAdd = DOMAIN new
  BY <1>5, ShowingIsInStep DEF Showing, Keeps
<1>7. NewAdd.sent = NewModel /\ NewAdd.waiting = FALSE
  BY <1>4, <1>5 DEF Showing, Keeps
<1>8. NameFits(NewAdd)
  BY <1>4, <1>5 DEF Showing, Keeps, NameFits
<1> QED
  BY <1>4, <1>6, <1>7, <1>8, NewModelIs DEF IsAdd

LEMMA NewEditIs == IsEdit(NewEdit)
<1>1. NewEdit.kind = "login" /\ NewEdit.astray = FALSE /\ NewEdit.untouched = FALSE
      /\ NewEdit.pages = NewPages /\ NewEdit.model = NewModel /\ NewEdit.sent = << >>
  BY DEF NewEdit
<1>2. IsDialog(NewEdit)
  BY <1>1, NewPagesAre, NewModelIs DEF IsDialog, Kinds, NewEdit
<1>3. Blank("login") = [kind |-> "login", text |-> NoText, extra |-> NoPassword]
  BY DEF Blank, NoExtra, Details
<1>4. NewPages["login"] = [text |-> NoText, extra |-> NoPassword]
  BY DEF NewPages, NewPage, NoExtra, Kinds
<1>5. InStep(NewEdit)
  BY <1>1, <1>3, <1>4, NewModelIs DEF InStep, Agrees
<1>6. IsSent(NewEdit.sent)
  <2>1. << >> \in Seq({})
    OBVIOUS
  <2> QED
    BY <1>1, <2>1 DEF IsSent
<1>7. {"state", "name", "sent", "original"} \subseteq DOMAIN NewEdit
  BY DEF NewEdit
<1> QED
  BY <1>1, <1>2, <1>5, <1>6, <1>7 DEF IsEdit

LEMMA FormsInitInv == KeysInit /\ FormsInit => FormsInv
<1> SUFFICES ASSUME KeysInit, FormsInit PROVE FormsInv
  OBVIOUS
<1>1. AddInv
  BY NewAddIs DEF FormsInit, AddInv
<1>2. EditInv
  BY NewEditIs DEF FormsInit, EditInv
<1>3. StoredInv
  BY DEF FormsInit, StoredInv, Made, NoVersion
<1> QED
  BY <1>1, <1>2, <1>3 DEF FormsInv
-----------------------------------------------------------------------------
(* A vault that is open stays as it is.                                    *)
LEMMA OpenStays ==
    ASSUME VaultInv, [KeysNext]_keyVars
    PROVE  \A v \in OpenVaults : v \in OpenVaults' /\ held'[Here][v] = held[Here][v]
<1> SUFFICES ASSUME NEW v \in Vaults, held[Here][v].isDecrypted
             PROVE  held'[Here][v] = held[Here][v]
  BY DEF OpenVaults
<1>1. Here \in Devices
  BY ItemsAssumption
<1>2. held[Here][v] # NoVault /\ vaultRows[v] # NoRow
  BY <1>1 DEF NoVault, VaultInv, HoldsRow
<1>3. held = [d \in Devices |-> [w \in Vaults |-> held[d][w]]]
  BY DEF VaultInv
<1>4. ASSUME NEW d \in Devices, NEW w \in Vaults, MakeVault(d, w)
      PROVE  held'[Here][v] = held[Here][v]
  <2>1. w # v /\ held' = [held EXCEPT ![d][w] = NewVault(d, w)]
    BY <1>2, <1>4 DEF MakeVault
  <2> QED
    BY <1>1, <1>3, <2>1
<1>5. ASSUME NEW d \in Devices, NEW w \in Vaults, ReceiveVault(d, w)
      PROVE  held'[Here][v] = held[Here][v]
  <2>1. (d # Here \/ w # v) /\ held' = [held EXCEPT ![d][w] = LoadedVault(vaultRows[w])]
    BY <1>2, <1>5 DEF ReceiveVault
  <2> QED
    BY <1>1, <1>3, <2>1
<1>6. ASSUME NEW d \in Devices, NEW w \in Vaults, DecryptVaultKey(d, w)
      PROVE  held'[Here][v] = held[Here][v]
  <2>1. (d # Here \/ w # v) /\ held' = [held EXCEPT ![d][w] = DecryptedVault(d, w)]
    BY <1>6 DEF DecryptVaultKey
  <2> QED
    BY <1>1, <1>3, <2>1
<1>7. ASSUME NEW d \in Devices, Register(d) \/ Login(d) PROVE held' = held
  BY <1>7 DEF Register, Login
<1>8. CASE UNCHANGED keyVars
  BY <1>8 DEF keyVars
<1> QED
  BY <1>4, <1>5, <1>6, <1>7, <1>8 DEF KeysNext

LEMMA FormsKept ==
    ASSUME VaultInv, FormsInv, [KeysNext]_keyVars, UNCHANGED formVars
    PROVE  FormsInv'
<1>1. add' = add /\ edit' = edit /\ stored' = stored /\ meant' = meant
  BY DEF formVars
<1>2. \A v \in OpenVaults : v \in OpenVaults' /\ held'[Here][v] = held[Here][v]
  BY OpenStays
<1>3. AddInv'
  <2>1. AddInv
    BY DEF FormsInv
  <2> QED
    BY <2>1, <1>1, <1>2 DEF AddInv, IsAdd
<1>4. EditInv'
  <2>1. EditInv
    BY DEF FormsInv
  <2> QED
    BY <2>1, <1>1 DEF EditInv
<1>5. StoredInv'
  <2>1. StoredInv
    BY DEF FormsInv
  <2>2. ASSUME NEW i \in ItemIds, stored[i].vault # NoText
        PROVE  MadeOf(i, stored[i], meant[i])'
    <3>1. MadeOf(i, stored[i], meant[i])
      BY <2>1, <2>2 DEF StoredInv, Made
    <3>2. held'[Here][stored[i].vault] = held[Here][stored[i].vault]
          /\ stored[i].vault \in OpenVaults'
      BY <1>2, <3>1 DEF MadeOf
    <3> QED
      BY <1>1, <3>1, <3>2 DEF MadeOf
  <2> QED
    BY <1>1, <2>1, <2>2 DEF StoredInv, Made
<1> QED
  BY <1>3, <1>4, <1>5 DEF FormsInv

-----------------------------------------------------------------------------
(* The steps of the add dialog.                                            *)
LEMMA AddStep ==
    ASSUME AddInv, held' = held,
           \/ OnAddItemButtonClicked \/ OnCurrentIndexChanged \/ OnAddInput
           \/ OnNameEdited \/ OnConfirmClicked \/ CloseAdd \/ RejectAdd \/ OnAddItemResult
    PROVE  AddInv'
<1>1. IsAdd(add) /\ IsDialog(add) /\ InStep(add) /\ NameFits(add) /\ IsModel(add.sent)
      /\ {"state", "name", "nameLost", "waiting", "sent", "into"} \subseteq DOMAIN add
      /\ (add.waiting => add.into \in OpenVaults /\ add.sent.name # NoText)
  BY DEF AddInv, IsAdd
<1>2. OpenVaults' = OpenVaults
  BY DEF OpenVaults
<1>3. ASSUME IsDialog(add'), InStep(add'), NameFits(add'), DOMAIN add' = DOMAIN add,
             add'.waiting = add.waiting, add'.sent = add.sent, add'.into = add.into
      PROVE  AddInv'
  BY <1>1, <1>2, <1>3 DEF AddInv, IsAdd
<1>4. add = [f \in DOMAIN add |-> add[f]] /\ IsModel(add.model) /\ add.astray \in BOOLEAN
      /\ {"kind", "pages", "model", "astray", "generator", "untouched"} \subseteq DOMAIN add
  BY <1>1 DEF IsDialog
<1>5. CASE OnAddItemButtonClicked \/ RejectAdd
  <2>1. PICK state : add' = [add EXCEPT !.state = state]
    BY <1>5 DEF OnAddItemButtonClicked, RejectAdd
  <2>2. Same(add', add)
    BY <1>4, <2>1 DEF Same, IsModel
  <2>3. DOMAIN add' = DOMAIN add /\ add'.waiting = add.waiting
        /\ add'.sent = add.sent /\ add'.into = add.into
    BY <1>1, <1>4, <2>1
  <2>4. NameFits(add')
    BY <1>1, <1>4, <2>1 DEF NameFits
  <2> QED
    BY <1>1, <1>3, <2>2, <2>3, <2>4, SameStaysInStep
<1>6. CASE OnCurrentIndexChanged
  <2>1. PICK k \in Kinds : add' = [ShowDetails(add, Blank(k)) EXCEPT !.astray = FALSE]
    BY <1>6 DEF OnCurrentIndexChanged
  <2> DEFINE c == ShowDetails(add, Blank(k))
  <2>2. Showing(c, add, Blank(k)) /\ IsDetails(Blank(k))
    BY <1>1, BlankIsDetails, ShownShows
  <2>3. add' = [c EXCEPT !.astray = FALSE]
    BY <2>1
  <2> HIDE DEF c
  <2>4. IsDialog(c) /\ Keeps(c, add) /\ c.model.details.kind = c.kind
        /\ Agrees(c.pages[c.kind], c.model.details)
    BY <2>2 DEF Showing
  <2>5. /\ DOMAIN add' = DOMAIN c /\ add' = [f \in DOMAIN add' |-> add'[f]]
        /\ add'.kind = c.kind /\ add'.pages = c.pages /\ add'.model = c.model
        /\ add'.astray = FALSE
        /\ \A f \in DOMAIN c \ {"astray"} : add'[f] = c[f]
    BY <2>3, <2>4 DEF IsDialog
  <2>6. IsDialog(add') /\ InStep(add')
    BY <2>4, <2>5 DEF IsDialog, InStep
  <2>7. DOMAIN add' = DOMAIN add /\ add'.waiting = add.waiting
        /\ add'.sent = add.sent /\ add'.into = add.into
        /\ add'.name = add.name /\ add'.nameLost = add.nameLost
        /\ add'.model.name = add.model.name
    BY <1>1, <2>4, <2>5 DEF Keeps
  <2>8. NameFits(add')
    BY <1>1, <2>7 DEF NameFits
  <2> QED
    BY <1>3, <2>6, <2>7, <2>8
<1>7. CASE OnAddInput
  <2>1. Touched(add', add)
    BY <1>1, <1>7, InputTouches DEF OnAddInput
  <2> QED
    BY <1>1, <1>2, <2>1, TouchedAdd DEF AddInv
<1>8. CASE OnNameEdited
  <2>1. PICK n : add' = [add EXCEPT !.name = n, !.nameLost = FALSE, !.model.name = n]
    BY <1>8 DEF OnNameEdited
  <2>2. add'.model = [add.model EXCEPT !.name = n] /\ add'.kind = add.kind
        /\ add'.pages = add.pages /\ add'.astray = add.astray
        /\ DOMAIN add' = DOMAIN add /\ add' = [f \in DOMAIN add' |-> add'[f]]
    BY <1>1, <1>4, <2>1
  <2>3. add'.model = [id |-> add.model.id, name |-> n, details |-> add.model.details]
    BY <1>4, <2>2 DEF IsModel
  <2>4. Same(add', add)
    BY <1>4, <2>2, <2>3 DEF Same
  <2>5. add'.waiting = add.waiting /\ add'.sent = add.sent /\ add'.into = add.into
    BY <1>1, <1>4, <2>1
  <2>6. add'.name = n /\ add'.nameLost = FALSE
    BY <1>1, <1>4, <2>1
  <2>7. NameFits(add')
    BY <2>3, <2>6 DEF NameFits
  <2> QED
    BY <1>1, <1>3, <2>2, <2>4, <2>5, <2>7, SameStaysInStep
<1>9. CASE OnConfirmClicked
  <2> DEFINE model == [add.model EXCEPT !.id = FirstUnused]
  <2>1. model = [id |-> model.id, name |-> add.model.name, details |-> add.model.details]
    BY <1>4 DEF IsModel
  <2>2. IsModel(model) /\ model.name = add.model.name
    BY <1>4, <2>1 DEF IsModel
  <2>3. \/ add' = [add EXCEPT !.model = model]
        \/ /\ model.name # NoText
           /\ \E v \in OpenVaults :
                add' = [add EXCEPT !.model = model, !.waiting = TRUE, !.sent = model, !.into = v]
    BY <1>9 DEF OnConfirmClicked, OnAddItem
  <2> HIDE DEF model
  <2>4. /\ add'.model = model /\ add'.kind = add.kind
        /\ add'.name = add.name /\ add'.nameLost = add.nameLost
        /\ add'.pages = add.pages /\ add'.astray = add.astray
        /\ DOMAIN add' = DOMAIN add /\ add' = [f \in DOMAIN add' |-> add'[f]]
    BY <1>1, <1>4, <2>3
  <2>5. Same(add', add)
    BY <1>4, <2>1, <2>2, <2>4 DEF Same
  <2>6. IsDialog(add') /\ InStep(add') /\ NameFits(add')
    BY <1>1, <2>2, <2>4, <2>5, SameStaysInStep DEF NameFits
  <2>7. CASE add' = [add EXCEPT !.model = model]
    <3>1. add'.waiting = add.waiting /\ add'.sent = add.sent /\ add'.into = add.into
      BY <1>1, <1>4, <2>7
    <3> QED
      BY <1>3, <2>4, <2>6, <3>1
  <2>8. ASSUME NEW v \in OpenVaults, model.name # NoText,
               add' = [add EXCEPT !.model = model, !.waiting = TRUE, !.sent = model, !.into = v]
        PROVE  AddInv'
    <3>1. add'.sent = model /\ add'.into = v
      BY <1>1, <1>4, <2>8
    <3> QED
      BY <1>1, <1>2, <2>2, <2>4, <2>6, <2>8, <3>1 DEF AddInv, IsAdd
  <2> QED
    BY <2>3, <2>7, <2>8
<1>10. CASE CloseAdd
  <2>1. add' = [add EXCEPT !.state = "absent", !.model = NewModel, !.astray = TRUE,
                           !.nameLost = (add.name # NoText), !.generator = FALSE]
    BY <1>10 DEF CloseAdd
  <2>2. /\ DOMAIN add' = DOMAIN add /\ add' = [f \in DOMAIN add' |-> add'[f]]
        /\ add'.kind = add.kind /\ add'.pages = add.pages /\ add'.model = NewModel
        /\ add'.astray = TRUE /\ add'.waiting = add.waiting /\ add'.sent = add.sent
        /\ add'.into = add.into /\ add'.name = add.name
        /\ add'.nameLost = (add.name # NoText)
    BY <1>1, <1>4, <2>1
  <2>3. IsDialog(add') /\ InStep(add')
    BY <1>1, <2>2, NewModelIs DEF IsDialog, InStep
  <2>4. NewModel.name = NoText
    BY DEF NewModel
  <2>5. NameFits(add')
    BY <2>2, <2>4 DEF NameFits
  <2> QED
    BY <1>3, <2>2, <2>3, <2>5
<1>11. CASE OnAddItemResult
  <2>1. CASE add' = NewAdd
    BY <2>1, NewAddIs DEF AddInv
  <2>2. CASE add' = [add EXCEPT !.waiting = FALSE, !.sent = NewModel, !.into = NoText]
    <3>1. Same(add', add)
      BY <1>4, <2>2 DEF Same, IsModel
    <3>2. DOMAIN add' = DOMAIN add /\ add'.waiting = FALSE /\ add'.sent = NewModel
          /\ add'.model = add.model /\ add'.name = add.name /\ add'.nameLost = add.nameLost
      BY <1>1, <1>4, <2>2
    <3>3. NameFits(add')
      BY <1>1, <3>2 DEF NameFits
    <3> QED
      BY <1>1, <3>1, <3>2, <3>3, SameStaysInStep, NewModelIs DEF AddInv, IsAdd
  <2> QED
    BY <1>11, <2>1, <2>2 DEF OnAddItemResult
<1> QED
  BY <1>5, <1>6, <1>7, <1>8, <1>9, <1>10, <1>11
-----------------------------------------------------------------------------
(* The edits under way, with one more and with one less.                   *)
LEMMA SentGrows ==
    ASSUME NEW models, IsSent(models), NEW m, IsModel(m), m.name # NoText
    PROVE  IsSent(Append(models, m))
<1>1. PICK S : models \in Seq(S) /\ \A n \in S : IsModel(n) /\ n.name # NoText
  BY DEF IsSent
<1> DEFINE T == S \cup {m}
<1>2. Append(models, m) \in Seq(T)
  <2>1. models \in Seq(T)
    BY <1>1
  <2> HIDE DEF T
  <2>2. m \in T
    BY DEF T
  <2> QED
    BY <2>1, <2>2
<1>3. \A n \in T : IsModel(n) /\ n.name # NoText
  BY <1>1
<1> QED
  BY <1>2, <1>3 DEF IsSent

LEMMA SentShrinks ==
    ASSUME NEW models, IsSent(models), NEW i \in DOMAIN models
    PROVE  /\ IsSent(RemoveAt(models, i))
           /\ IsModel(models[i]) /\ models[i].name # NoText
<1>1. PICK S : models \in Seq(S) /\ \A n \in S : IsModel(n) /\ n.name # NoText
  BY DEF IsSent
<1>2. RemoveAt(models, i) \in Seq(S)
  BY <1>1, RemovedStays
<1>3. models[i] \in S
  BY <1>1
<1> QED
  BY <1>1, <1>2, <1>3 DEF IsSent

(* The steps of the edit dialog.                                           *)
LEMMA EditStep ==
    ASSUME EditInv, StoredInv,
           \/ OnEditClicked \/ OnEditInput \/ OnEditName \/ OnConfirm \/ CloseEdit
           \/ OnEditItemResult
    PROVE  EditInv'
<1>1. IsEdit(edit) /\ IsDialog(edit) /\ InStep(edit) /\ IsSent(edit.sent)
      /\ {"state", "name", "sent", "original"} \subseteq DOMAIN edit
  BY DEF EditInv, IsEdit
<1>2. edit = [f \in DOMAIN edit |-> edit[f]] /\ IsModel(edit.model) /\ edit.astray \in BOOLEAN
      /\ {"kind", "pages", "model", "astray", "generator", "untouched"} \subseteq DOMAIN edit
  BY <1>1 DEF IsDialog
<1>3. ASSUME Same(edit', edit), IsSent(edit'.sent), edit'.untouched = edit.untouched,
             edit'.original = edit.original
      PROVE  EditInv'
  <2>1. IsDialog(edit') /\ InStep(edit') /\ DOMAIN edit' = DOMAIN edit
    BY <1>1, <1>3, SameStaysInStep DEF Same
  <2>2. edit'.model.details = edit.model.details
    BY <1>3 DEF Same
  <2> QED
    BY <1>1, <1>3, <2>1, <2>2 DEF EditInv, IsEdit
<1>4. CASE OnEditClicked
  <2> DEFINE Edited(m) == [ShowDetails([edit EXCEPT !.model = m], m.details)
                             EXCEPT !.state = "shown", !.name = m.name,
                                    !.original = m.details, !.untouched = TRUE,
                                    !.astray = FALSE]
  <2>1. PICK i \in ItemIds : \E v \in OpenVaults \cap {stored[i].vault} :
           \E m \in ToModel(i, stored[i], held[Here][v]) : edit' = Edited(m)
    BY <1>4 DEF OnEditClicked
  <2> DEFINE v == stored[i].vault
  <2>2. v \in OpenVaults /\ \E m \in ToModel(i, stored[i], held[Here][v]) : edit' = Edited(m)
    BY <2>1
  <2>3. v # NoText
    BY <2>2, ItemsAssumption DEF OpenVaults
  <2>14. PICK m \in ToModel(i, stored[i], held[Here][v]) : edit' = Edited(m)
    BY <2>2
  <2>4. MadeOf(i, stored[i], meant[i])
    BY <2>3 DEF StoredInv, Made, EditInv
  <2>5. IsModel(m)
    <3>1. Reads(stored[i], held[Here][v], meant[i]) /\ meant[i].id = i
      BY <2>4, ItemReadsAsModel DEF MadeOf
    <3> QED
      BY <3>1 DEF Reads
  <2> DEFINE d == m.details
             before == [edit EXCEPT !.model = m]
             c == ShowDetails(before, d)
  <2>6. IsDetails(d)
    BY <2>5 DEF IsModel
  <2>7. before = [f \in DOMAIN before |-> before[f]] /\ DOMAIN before = DOMAIN edit
        /\ before.kind = edit.kind /\ before.pages = edit.pages /\ before.model = m
        /\ before.astray = edit.astray /\ before.sent = edit.sent
    BY <1>1, <1>2
  <2> HIDE DEF before
  <2>8. IsDialog(before)
    BY <1>1, <2>5, <2>7 DEF IsDialog
  <2>9. Showing(c, before, d)
    BY <2>6, <2>8, ShownShows
  <2>10. edit' = [c EXCEPT !.state = "shown", !.name = m.name,
                           !.original = d, !.untouched = TRUE, !.astray = FALSE]
    BY <2>14 DEF before
  <2> HIDE DEF c
  <2>11. IsDialog(c) /\ DOMAIN c = DOMAIN edit /\ c.model.details.kind = c.kind
         /\ Agrees(c.pages[c.kind], c.model.details) /\ c.sent = edit.sent
         /\ (c.model.details # d => d.kind = "identity" /\ d.extra = NoDate)
    BY <1>1, <2>7, <2>9 DEF Showing, Keeps
  <2> HIDE DEF d
  <2>12. /\ DOMAIN edit' = DOMAIN c /\ edit' = [f \in DOMAIN edit' |-> edit'[f]]
         /\ edit'.kind = c.kind /\ edit'.pages = c.pages /\ edit'.model = c.model
         /\ edit'.astray = FALSE /\ edit'.original = d /\ edit'.sent = c.sent
    BY <1>1, <1>2, <2>10, <2>11 DEF IsDialog
  <2>13. IsDialog(edit') /\ InStep(edit')
    BY <2>11, <2>12 DEF IsDialog, InStep
  <2> QED
    BY <1>1, <2>11, <2>12, <2>13 DEF EditInv, IsEdit
<1>5. CASE OnEditInput
  <2>1. Touched(edit', edit)
    BY <1>1, <1>5, InputTouches DEF OnEditInput
  <2> QED
    BY <1>1, <2>1, TouchedEdit DEF EditInv
<1>6. CASE OnEditName
  <2>1. PICK n : edit' = [edit EXCEPT !.name = n]
    BY <1>6 DEF OnEditName
  <2>2. Same(edit', edit)
    BY <1>2, <2>1 DEF Same, IsModel
  <2>3. edit'.sent = edit.sent /\ edit'.original = edit.original
        /\ edit'.untouched = edit.untouched
    BY <1>1, <1>2, <2>1
  <2> QED
    BY <1>1, <1>3, <2>2, <2>3
<1>7. CASE OnConfirm
  <2> DEFINE model == [edit.model EXCEPT !.name = edit.name]
  <2>1. edit' = [edit EXCEPT !.model = model, !.sent = Append(@, model)]
        /\ edit.name # NoText
    BY <1>7 DEF OnConfirm
  <2>2. model = [id |-> model.id, name |-> model.name, details |-> edit.model.details]
    BY <1>2 DEF IsModel
  <2>3. IsModel(model) /\ model.name # NoText
    BY <1>2, <2>1, <2>2 DEF IsModel
  <2> HIDE DEF model
  <2>6. IsSent(Append(edit.sent, model))
    BY <1>1, <2>3, SentGrows
  <2>4. /\ DOMAIN edit' = DOMAIN edit /\ edit' = [f \in DOMAIN edit' |-> edit'[f]]
        /\ edit'.model = model /\ edit'.kind = edit.kind
        /\ edit'.sent = Append(edit.sent, model)
        /\ edit'.pages = edit.pages /\ edit'.astray = edit.astray
        /\ edit'.original = edit.original /\ edit'.untouched = edit.untouched
    BY <1>1, <1>2, <2>1
  <2>5. Same(edit', edit)
    BY <1>2, <2>2, <2>4 DEF Same
  <2> QED
    BY <1>3, <2>4, <2>5, <2>6
<1>8. CASE CloseEdit
  <2>1. edit' = [edit EXCEPT !.state = "hidden"]
    BY <1>8 DEF CloseEdit
  <2>2. Same(edit', edit)
    BY <1>2, <2>1 DEF Same, IsModel
  <2>3. edit'.sent = edit.sent /\ edit'.original = edit.original
        /\ edit'.untouched = edit.untouched
    BY <1>1, <1>2, <2>1
  <2> QED
    BY <1>1, <1>3, <2>2, <2>3
<1>9. CASE OnEditItemResult
  <2>1. PICK i \in DOMAIN edit.sent :
          \/ \E state : edit' = [edit EXCEPT !.sent = RemoveAt(edit.sent, i), !.state = state]
          \/ edit' = [edit EXCEPT !.sent = RemoveAt(edit.sent, i)]
    BY <1>9 DEF OnEditItemResult
  <2> DEFINE left == RemoveAt(edit.sent, i)
  <2>2. IsSent(left)
    BY <1>1, SentShrinks
  <2> HIDE DEF left
  <2>3. \/ \E state : edit' = [edit EXCEPT !.sent = left, !.state = state]
        \/ edit' = [edit EXCEPT !.sent = left]
    BY <2>1 DEF left
  <2>4. Same(edit', edit)
    BY <1>2, <2>3 DEF Same, IsModel
  <2>5. edit'.sent = left /\ edit'.original = edit.original
        /\ edit'.untouched = edit.untouched
    BY <1>1, <1>2, <2>3
  <2> QED
    BY <1>3, <2>2, <2>4, <2>5
<1> QED
  BY <1>4, <1>5, <1>6, <1>7, <1>8, <1>9

(* An item is stored, or stored again in its vault.                        *)
LEMMA StoredStays ==
    ASSUME StoredInv, held' = held, NEW model, IsModel(model), model.name # NoText, NEW v,
           \A i \in ItemIds : model.id = i => v \in OpenVaults \/ v = NoText,
           stored' = [stored EXCEPT ![model.id] = CreateFromModel(model, held[Here][v], v)],
           meant' = [meant EXCEPT ![model.id] = model]
    PROVE  StoredInv'
<1> DEFINE new == CreateFromModel(model, held[Here][v], v)
<1>1. new.vault = v
  BY DEF CreateFromModel
<1>2. stored' = [i \in ItemIds |-> stored'[i]] /\ meant' = [i \in ItemIds |-> meant'[i]]
  BY DEF StoredInv
<1>3. ASSUME NEW i \in ItemIds, stored'[i].vault # NoText
      PROVE  MadeOf(i, stored[i], meant[i])'
  <2>1. CASE model.id = i
    <3>1. stored'[i] = new /\ meant'[i] = model
      BY <2>1 DEF StoredInv
    <3>2. v \in OpenVaults
      BY <1>1, <1>3, <2>1, <3>1
    <3> QED
      BY <1>1, <2>1, <3>1, <3>2 DEF MadeOf, OpenVaults
  <2>2. CASE model.id # i
    <3>1. stored'[i] = stored[i] /\ meant'[i] = meant[i]
      BY <2>2 DEF StoredInv
    <3>2. MadeOf(i, stored[i], meant[i])
      BY <1>3, <3>1 DEF StoredInv, Made
    <3>3. OpenVaults' = OpenVaults
      BY DEF OpenVaults
    <3> QED
      BY <3>1, <3>2, <3>3 DEF MadeOf
  <2> QED
    BY <2>1, <2>2
<1> QED
  BY <1>2, <1>3 DEF StoredInv, Made

LEMMA FormsStep ==
    ASSUME FormsInv, FormsNext, UNCHANGED keyVars
    PROVE  FormsInv'
<1>1. AddInv /\ EditInv /\ StoredInv /\ held' = held
  BY DEF FormsInv, keyVars
<1>2. ASSUME UNCHANGED <<stored, meant>> PROVE StoredInv'
  BY <1>1, <1>2 DEF StoredInv, Made, MadeOf, OpenVaults
<1>3. ASSUME UNCHANGED edit PROVE EditInv'
  BY <1>1, <1>3 DEF EditInv
<1>4. ASSUME UNCHANGED add PROVE AddInv'
  BY <1>1, <1>4 DEF AddInv, OpenVaults
<1>5. CASE OnAddItemButtonClicked \/ OnCurrentIndexChanged \/ OnAddInput
           \/ OnNameEdited \/ OnConfirmClicked \/ CloseAdd \/ RejectAdd
  <2>1. UNCHANGED <<stored, meant, edit>>
    BY <1>5 DEF OnAddItemButtonClicked, OnCurrentIndexChanged, OnAddInput, OnNameEdited,
               OnConfirmClicked, CloseAdd, RejectAdd
  <2> QED
    BY <1>1, <1>2, <1>3, <1>5, <2>1, AddStep DEF FormsInv
<1>6. CASE OnAddItemResult
  <2>1. UNCHANGED edit /\ add.waiting
    BY <1>6 DEF OnAddItemResult
  <2>2. add.into \in OpenVaults /\ IsModel(add.sent) /\ add.sent.name # NoText
    BY <1>1, <2>1 DEF AddInv, IsAdd
  <2>3. ASSUME stored' = [stored EXCEPT ![add.sent.id] =
                            CreateFromModel(add.sent, held[Here][add.into], add.into)],
               meant' = [meant EXCEPT ![add.sent.id] = add.sent]
        PROVE  StoredInv'
    BY <1>1, <2>2, <2>3, StoredStays
  <2>4. StoredInv'
    BY <1>2, <1>6, <2>3 DEF OnAddItemResult
  <2> QED
    BY <1>1, <1>3, <1>6, <2>1, <2>4, AddStep DEF FormsInv
<1>7. CASE OnEditClicked \/ OnEditInput \/ OnEditName \/ OnConfirm \/ CloseEdit
  <2>1. UNCHANGED <<stored, meant, add>>
    BY <1>7 DEF OnEditClicked, OnEditInput, OnEditName, OnConfirm, CloseEdit
  <2> QED
    BY <1>1, <1>2, <1>4, <1>7, <2>1, EditStep DEF FormsInv
<1>8. CASE OnEditItemResult
  <2>1. UNCHANGED add
    BY <1>8 DEF OnEditItemResult
  <2> DEFINE Stores(m) ==
               /\ stored' = [stored EXCEPT ![m.id] =
                               CreateFromModel(m, held[Here][stored[m.id].vault], stored[m.id].vault)]
               /\ meant' = [meant EXCEPT ![m.id] = m]
  <2>2. PICK i \in DOMAIN edit.sent : Stores(edit.sent[i]) \/ UNCHANGED <<stored, meant>>
    BY <1>8 DEF OnEditItemResult
  <2> DEFINE m == edit.sent[i]
             v == stored[m.id].vault
  <2>3. IsModel(m) /\ m.name # NoText
    BY <1>1, SentShrinks DEF EditInv, IsEdit
  <2>4. \A j \in ItemIds : m.id = j => v \in OpenVaults \/ v = NoText
    BY <1>1 DEF StoredInv, Made, MadeOf
  <2>5. ASSUME Stores(m) PROVE StoredInv'
    <3>1. /\ stored' = [stored EXCEPT ![m.id] = CreateFromModel(m, held[Here][v], v)]
          /\ meant' = [meant EXCEPT ![m.id] = m]
      BY <2>5
    <3> HIDE DEF v, m, Stores
    <3> QED
      BY <1>1, <2>3, <2>4, <3>1, StoredStays
  <2>6. StoredInv'
    BY <1>2, <2>2, <2>5
  <2> QED
    BY <1>1, <1>4, <1>8, <2>1, <2>6, EditStep DEF FormsInv
<1>9. CASE OnGeneratePasswordClicked
  <2>1. ASSUME add' = [add EXCEPT !.generator = TRUE] PROVE AddInv'
    <3>1. IsAdd(add) /\ IsDialog(add) /\ InStep(add) /\ add = [f \in DOMAIN add |-> add[f]]
      BY <1>1 DEF AddInv, IsAdd, IsDialog
    <3>2. Same(add', add)
      BY <2>1, <3>1 DEF Same, IsDialog, IsModel
    <3>3. /\ DOMAIN add' = DOMAIN add /\ add'.waiting = add.waiting
          /\ add'.sent = add.sent /\ add'.into = add.into
          /\ add'.model = add.model /\ add'.name = add.name /\ add'.nameLost = add.nameLost
      BY <2>1, <3>1 DEF IsAdd, IsDialog
    <3>4. NameFits(add')
      BY <3>1, <3>3 DEF IsAdd, NameFits
    <3> QED
      BY <1>1, <3>1, <3>2, <3>3, <3>4, SameStaysInStep DEF AddInv, IsAdd, OpenVaults
  <2>2. ASSUME edit' = [edit EXCEPT !.generator = TRUE] PROVE EditInv'
    <3>1. IsEdit(edit) /\ IsDialog(edit) /\ InStep(edit) /\ edit = [f \in DOMAIN edit |-> edit[f]]
      BY <1>1 DEF EditInv, IsEdit, IsDialog
    <3>2. Same(edit', edit)
      BY <2>2, <3>1 DEF Same, IsDialog, IsModel
    <3>3. /\ DOMAIN edit' = DOMAIN edit /\ edit'.sent = edit.sent
          /\ edit'.original = edit.original /\ edit'.untouched = edit.untouched
          /\ edit'.model = edit.model
      BY <2>2, <3>1 DEF IsEdit, IsDialog
    <3> QED
      BY <3>1, <3>2, <3>3, SameStaysInStep DEF EditInv, IsEdit
  <2>3. UNCHANGED <<stored, meant>>
    BY <1>9 DEF OnGeneratePasswordClicked
  <2>4. AddInv' /\ EditInv'
    BY <1>3, <1>4, <1>9, <2>1, <2>2 DEF OnGeneratePasswordClicked
  <2> QED
    BY <1>2, <2>3, <2>4 DEF FormsInv
<1>10. CASE OnPasswordGenerated
  <2>1. ASSUME add' \in Generated(add) PROVE AddInv'
    <3>1. IsAdd(add) /\ IsDialog(add) /\ InStep(add)
      BY <1>1 DEF AddInv, IsAdd
    <3>2. Touched(add', add)
      BY <2>1, <3>1, GeneratorTouches
    <3> QED
      BY <1>1, <3>1, <3>2, TouchedAdd DEF AddInv, OpenVaults
  <2>2. ASSUME edit' \in Generated(edit) PROVE EditInv'
    <3>1. IsEdit(edit) /\ IsDialog(edit) /\ InStep(edit)
      BY <1>1 DEF EditInv, IsEdit
    <3>2. Touched(edit', edit)
      BY <2>2, <3>1, GeneratorTouches
    <3> QED
      BY <3>1, <3>2, TouchedEdit DEF EditInv
  <2>3. UNCHANGED <<stored, meant>>
    BY <1>10 DEF OnPasswordGenerated
  <2>4. AddInv' /\ EditInv'
    BY <1>3, <1>4, <1>10, <2>1, <2>2 DEF OnPasswordGenerated
  <2> QED
    BY <1>2, <2>3, <2>4 DEF FormsInv
<1> QED
  BY <1>5, <1>6, <1>7, <1>8, <1>9, <1>10 DEF FormsNext
-----------------------------------------------------------------------------
LEMMA ItemsInv == Spec => [](KeysInv /\ FormsInv)
<1>1. Init => KeysInv /\ FormsInv
  BY KeysInitInv, FormsInitInv DEF Init
<1>2. KeysInv /\ FormsInv /\ [Next]_<<keyVars, formVars>> => (KeysInv /\ FormsInv)'
  <2> SUFFICES ASSUME KeysInv, FormsInv, [Next]_<<keyVars, formVars>>
               PROVE  KeysInv' /\ FormsInv'
    OBVIOUS
  <2>1. [KeysNext]_keyVars
    BY DEF Next
  <2>2. KeysInv'
    BY <2>1, AccountStep, VaultStep DEF KeysInv
  <2>3. CASE UNCHANGED formVars
    BY <2>1, <2>2, <2>3, FormsKept DEF KeysInv
  <2>4. CASE FormsNext /\ UNCHANGED keyVars
    BY <2>2, <2>4, FormsStep
  <2> QED
    BY <2>3, <2>4 DEF Next
<1> QED
  BY <1>1, <1>2, PTL DEF Spec

(* A shown dialog shows what its model holds: the add dialog's name unless *)
(* the window's button lost it, when the model has none, and each dialog's *)
(* page unless the dialog is astray, but for the expiry of a card and an   *)
(* identity without a date of birth, of which nothing is said.             *)
THEOREM FormsShowTheirModels == Spec => []FormShowsModel
<1>1. FormsInv => FormShowsModel
  <2> SUFFICES ASSUME FormsInv PROVE FormShowsModel
    OBVIOUS
  <2>1. ASSUME NEW dialog \in {add, edit}, ~dialog.astray
        PROVE  dialog.model.details.kind = dialog.kind /\ PageShowsModel(dialog)
    <3>1. InStep(dialog)
      BY <2>1 DEF FormsInv, AddInv, EditInv, IsAdd, IsEdit
    <3> QED
      BY <2>1, <3>1 DEF InStep, Agrees, PageShowsModel
  <2>2. add.model.name = IF add.nameLost THEN NoText ELSE add.name
    BY DEF FormsInv, AddInv, IsAdd, NameFits
  <2> QED
    BY <2>1, <2>2 DEF FormShowsModel
<1> QED
  BY <1>1, ItemsInv, PTL

(* An item that is opened for an edit and not touched keeps its details,   *)
(* whatever the pages and the model of the dialog held before.             *)
THEOREM UntouchedItemsKept == Spec => []EditKeepsUntouched
<1>1. FormsInv => EditKeepsUntouched
  BY DEF FormsInv, EditInv, IsEdit, EditKeepsUntouched
<1> QED
  BY <1>1, ItemsInv, PTL

(* An item opens as the model it was made of, on every device that has     *)
(* opened its vault: the devices agree on the keys (VaultInv), and what    *)
(* serialising writes is what deserialising reads.  It has a name: the     *)
(* model's own is checked before it is sent, whatever its input shows.     *)
THEOREM ItemsOpenAsMeant == Spec => []OpensAsMeant
<1>1. KeysInv /\ FormsInv => OpensAsMeant
  <2> SUFFICES ASSUME KeysInv, FormsInv, NEW i \in ItemIds, NEW d \in Devices, Made(i)
               PROVE  LET item == stored[i]  vault == held[d][item.vault] IN
                      /\ meant[i].name # NoText
                      /\ vault.isDecrypted =>
                           /\ LoadsFromSummary(i, item, vault)
                           /\ item.metadata.data.custom_icon = CustomIcon(meant[i].details)
                           /\ ~OddExpiry(meant[i].details) => ToModel(i, item, vault) = {meant[i]}
    BY DEF OpensAsMeant
  <2> DEFINE v == stored[i].vault
  <2>1. MadeOf(i, stored[i], meant[i])
    BY DEF FormsInv, StoredInv
  <2>2. v \in Vaults /\ held[Here][v].isDecrypted /\ Here \in Devices
    BY <2>1, ItemsAssumption DEF MadeOf, OpenVaults
  <2> SUFFICES ASSUME held[d][v].isDecrypted
               PROVE  LET item == stored[i]  vault == held[d][v] IN
                      /\ LoadsFromSummary(i, item, vault)
                      /\ item.metadata.data.custom_icon = CustomIcon(meant[i].details)
                      /\ ~OddExpiry(meant[i].details) => ToModel(i, item, vault) = {meant[i]}
    BY <2>1 DEF MadeOf
  <2>3. held[d][v] # NoVault /\ held[Here][v] # NoVault
    BY <2>2 DEF NoVault
  <2>4. held[d][v].vaultKey = held[Here][v].vaultKey
    BY <2>2, <2>3 DEF KeysInv, VaultInv, HoldsRow, Opened
  <2>5. Reads(stored[i], held[d][v], meant[i])
    BY <2>1, <2>4, ItemReadsAsModel DEF MadeOf
  <2> QED
    BY <2>1, <2>5 DEF Reads, MadeOf
<1> QED
  BY <1>1, ItemsInv, PTL
=============================================================================

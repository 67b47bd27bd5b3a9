------------------------------- MODULE Items -------------------------------
(***************************************************************************)
(* What an item holds, from the forms it is typed in to another device of  *)
(* the account: the add dialog and the edit dialog with their pages        *)
(* (client/src/ui/AddItemDialog, EditItemDialog, EditLoginItem,            *)
(* EditCardItem, EditIdentityItem, EditNoteItem), the models they write    *)
(* through a pointer, the item made of a model and the model made of an    *)
(* item (client/src/core/VaultItem).  Keys come from VaultKeys.            *)
(*                                                                         *)
(* The details of an item are a kind, one text that stands for its text    *)
(* inputs, and what makes the kind special: a login's password, a card's   *)
(* month and year of expiry, an identity's date of birth, a note's fields. *)
(* Requests to the server are those of VaultClient; here only the answer   *)
(* to an item that was sent counts.                                        *)
(***************************************************************************)
EXTENDS VaultKeys, SequencesExt

CONSTANTS
  Here,         \* the device whose dialogs are modelled
  ItemIds,      \* bound: items ever made
  Texts,        \* bound: texts that are typed
  Expiries,     \* bound: month and year typed in the input of an expiry
  Dates,        \* bound: dates chosen in a date input
  Today,        \* the date of the day
  Recognised,   \* texts an icon is known for: a web site, a card's provider
  MaxTyped,     \* bound: changes of an input, but for the name of a new item
  MaxRows,      \* bound: rows of fields in a note
  MaxSent       \* bound: edits under way at a time

NoText == ""                        \* of an input, a name or an identifier

\* The dialogs are those of a device of the account; no vault has an empty
\* identifier; the mask of an expiry takes digits only.
ASSUME ItemsAssumption ==
  /\ Here \in Devices
  /\ NoText \notin Vaults
  /\ Expiries \subseteq Nat \X Nat

VARIABLES
  add,          \* AddItemDialog and its m_model
  edit,         \* EditItemDialog and its m_model
  stored,       \* server: the items, as sent
  meant,        \* the model each of them was made of
  typed         \* changes of inputs so far
formVars == <<add, edit, stored, meant, typed>>

Kinds == {"login", "card", "identity", "note"}
FieldTypes == {"Text", "Password", "Boolean"}
NoVersion == [vault |-> NoText, metadata |-> NoEnvelope, data |-> NoEnvelope]

-----------------------------------------------------------------------------
(* Models: VaultItemModel and the details of its four kinds. *)

\* What makes a kind special, when it is not set.
NoPassword == <<NoText>>
NoExpiry == <<0, 0>>
NoDate == <<NoText>>
NoFields == <<>>

Details(kind, text, extra) == [kind |-> kind, text |-> text, extra |-> extra]

\* resetType: every detail empty, and zero where it is a number.
NoExtra(kind) ==
  CASE kind = "login" -> NoPassword
    [] kind = "card" -> NoExpiry
    [] kind = "identity" -> NoDate
    [] kind = "note" -> NoFields
Blank(kind) == Details(kind, NoText, NoExtra(kind))

NewModel == [id |-> 0, name |-> NoText, details |-> Blank("login")]

\* An expiry is taken over when its month is one and its year is not negative.
SetExpirationDate(details, month, year) ==
  IF month < 1 \/ month > 12 \/ year < 0 THEN details
  ELSE [details EXCEPT !.extra = <<month, year>>]

\* The input of an expiry has the mask 99/99 with 0 for a blank, and blanks
\* are no part of its text: 10/30 reads as 1/3.
WithoutZeros(n) == IF n % 10 = 0 THEN n \div 10 ELSE n

\* A part without digits is no number, and the text is then no expiry.
SetExpirationText(details, typedDate) ==
  IF 0 \in {typedDate[1], typedDate[2]} THEN details
  ELSE SetExpirationDate(details, WithoutZeros(typedDate[1]), WithoutZeros(typedDate[2]))

-----------------------------------------------------------------------------
(* An item from a model, and back. *)

\* A login has the icon of its site, a card that of its provider.
CustomIconLogin(details) == IF details.text \in Recognised THEN details.text ELSE NoText
CustomIconCard(details) == IF details.text \in Recognised THEN details.text ELSE NoText
CustomIcon(details) ==
  CASE details.kind = "login" -> CustomIconLogin(details)
    [] details.kind = "card" -> CustomIconCard(details)
    [] OTHER -> NoText

SerializeMetadata(model) ==
  [name |-> model.name, type |-> model.details.kind, custom_icon |-> CustomIcon(model.details)]

\* The data that is sealed holds the details but not their kind.
SerializeLogin(details) == [text |-> details.text, extra |-> details.extra]
SerializeCard(details) == [text |-> details.text, extra |-> details.extra]
SerializeIdentity(details) == [text |-> details.text, extra |-> details.extra]

\* A field's value is a string or a Boolean, as its type says.
SerializeNote(details) ==
  [text |-> details.text,
   extra |-> [i \in DOMAIN details.extra |->
     LET f == details.extra[i] IN
     [type |-> f.type, string |-> IF f.type = "Boolean" THEN NoText ELSE f.string,
      bool |-> f.type = "Boolean" /\ f.bool]]]

SerializeData(details) ==
  CASE details.kind = "login" -> SerializeLogin(details)
    [] details.kind = "card" -> SerializeCard(details)
    [] details.kind = "identity" -> SerializeIdentity(details)
    [] details.kind = "note" -> SerializeNote(details)

CreateFromModel(model, vault, v) ==
  [vault |-> v,
   metadata |-> SealBound(SerializeMetadata(model), vault.vaultKey, "metadata", <<model.id>>),
   data |-> SealBound(SerializeData(model.details), vault.vaultKey, "data", <<model.id>>)]

\* The two numbers of a card are read only within bounds, and the fields
\* they are set in start out with whatever the stack holds.
Junk == {<<7, 77>>, <<99, 777>>}
InBounds(expiry) == expiry[1] \in 0..12 /\ expiry[2] \in 0..99

DeserializeLogin(data) == {Details("login", data.text, data.extra)}
DeserializeCardSwapped(data) ==
  IF ~InBounds(data.extra) THEN {}
  ELSE {SetExpirationDate(Details("card", data.text, junk), data.extra[2], data.extra[1]) :
          junk \in Junk}
DeserializeCard(data) ==
  IF ~InBounds(data.extra) THEN {}
  ELSE {SetExpirationDate(Details("card", data.text, junk), data.extra[1], data.extra[2]) :
          junk \in Junk}
DeserializeIdentity(data) == {Details("identity", data.text, data.extra)}
DeserializeNote(data) ==
  {Details("note", data.text,
     [i \in DOMAIN data.extra |->
        LET f == data.extra[i] IN
        IF f.type = "Boolean" THEN [type |-> f.type, string |-> NoText, bool |-> f.bool]
                              ELSE [type |-> f.type, string |-> f.string, bool |-> FALSE]])}

DeserializeData(kind, data) ==
  CASE kind = "login" -> DeserializeLogin(data)
    [] kind = "card" -> DeserializeCard(data)
    [] kind = "identity" -> DeserializeIdentity(data)
    [] kind = "note" -> DeserializeNote(data)

\* The list shows what the metadata of an item says, if the vault opens it.
LoadsFromSummary(id, item, vault) ==
  OpensBound(item.metadata, vault.vaultKey, "metadata", <<id>>)

\* The models an item may give: none when it cannot be read, more than one
\* when the outcome is not determined.
ToModel(id, item, vault) ==
  IF ~LoadsFromSummary(id, item, vault)
     \/ ~OpensBound(item.data, vault.vaultKey, "data", <<id>>) THEN {}
  ELSE {[id |-> id, name |-> item.metadata.data.name, details |-> d] :
          d \in DeserializeData(item.metadata.data.type, item.data.data)}

-----------------------------------------------------------------------------
(* Pages: the inputs of a kind.  A page that was shown has a pointer into   *)
(* m_model, where the details of another kind may stand by now.            *)

NewPage(kind) ==
  [text |-> NoText, extra |-> IF kind = "identity" THEN <<"default">> ELSE NoExtra(kind)]
NewPages == [k \in Kinds |-> NewPage(k)]

\* setModel of a page: what it shows then, and what its signals made of the
\* model meanwhile.
SetLoginModel(page, d) == [page |-> [text |-> d.text, extra |-> d.extra], details |-> d]

\* The input of the expiry is left as it is.
SetCardModel(page, d) == [page |-> [text |-> d.text, extra |-> page.extra], details |-> d]

\* No date of birth is shown as today, and when that changes the input, the
\* model takes it over.
SetIdentityModel(page, d) ==
  LET date == IF d.extra = NoDate THEN <<Today>> ELSE d.extra IN
  [page |-> [text |-> d.text, extra |-> date],
   details |-> IF page.extra = date THEN d ELSE [d EXCEPT !.extra = date]]

\* One row for a field: three inputs, of which the type says which counts.
RowOf(field) ==
  [type |-> field.type, string |-> [t \in {"Text", "Password"} |->
                                      IF t = field.type THEN field.string ELSE NoText],
   bool |-> field.type = "Boolean" /\ field.bool]
FieldOf(row) ==
  [type |-> row.type, string |-> IF row.type = "Boolean" THEN NoText ELSE row.string[row.type],
   bool |-> row.type = "Boolean" /\ row.bool]
RowsOf(fields) == [i \in DOMAIN fields |-> RowOf(fields[i])]
FieldsOf(rows) == [i \in DOMAIN rows |-> FieldOf(rows[i])]

\* Setting the content without m_isPopulating: the change of the text
\* collects the rows that are still there.
SetNoteModelUnguarded(page, d) ==
  LET fields == IF page.text = d.text THEN d.extra ELSE FieldsOf(page.extra) IN
  [page |-> [text |-> d.text, extra |-> RowsOf(fields)],
   details |-> [d EXCEPT !.extra = fields]]

SetNoteModel(page, d) ==
  [page |-> [text |-> d.text, extra |-> RowsOf(d.extra)], details |-> d]

SetPageModel(page, d) ==
  CASE d.kind = "login" -> SetLoginModel(page, d)
    [] d.kind = "card" -> SetCardModel(page, d)
    [] d.kind = "identity" -> SetIdentityModel(page, d)
    [] d.kind = "note" -> SetNoteModel(page, d)

\* A dialog whose model has details d and whose page of that kind is shown.
ShowDetails(dialog, d) ==
  LET set == SetPageModel(dialog.pages[d.kind], d) IN
  [dialog EXCEPT !.kind = d.kind, !.pages[d.kind] = set.page, !.model.details = set.details]

\* The details d after a change of a page's input: each input writes what it
\* stands for, but a note's page is collected whole.
FromNote(page) == Details("note", page.text, FieldsOf(page.extra))
FromText(kind, page, d) ==
  IF kind = "note" THEN FromNote(page) ELSE [d EXCEPT !.text = page.text]
FromExtra(kind, page, d) ==
  CASE kind = "note" -> FromNote(page)
    [] kind = "card" -> SetExpirationText(d, page.extra)
    [] OTHER -> [d EXCEPT !.extra = page.extra]

-----------------------------------------------------------------------------
(* Changes of an input, on a page of a dialog that is shown. *)

\* What a page writes through its pointer: into the details it was set with,
\* or, when those of another kind stand there, somewhere into those.
Written(dialog, kind, d) ==
  IF dialog.model.details.kind = kind THEN {d}
  ELSE {[dialog.model.details EXCEPT !.text = t] : t \in Texts}

Shown(dialog) == dialog.state = "shown"

\* The page kind of the dialog becomes page, and the model follows.
Changed(dialog, kind, page, d) ==
  {[dialog EXCEPT !.pages[kind] = page, !.model.details = w, !.untouched = FALSE,
                  !.astray = @ \/ dialog.model.details.kind # kind] :
     w \in Written(dialog, kind, d)}

TextTyped(dialog) ==
  LET k == dialog.kind IN
  UNION {LET page == [dialog.pages[k] EXCEPT !.text = t] IN
         Changed(dialog, k, page, FromText(k, page, dialog.model.details)) :
           t \in Texts \ {dialog.pages[k].text}}

ExtraTyped(dialog, kind, extras) ==
  IF dialog.kind # kind THEN {}
  ELSE UNION {LET page == [dialog.pages[kind] EXCEPT !.extra = e] IN
              Changed(dialog, kind, page,
                      IF dialog.model.details.kind = kind
                        THEN FromExtra(kind, page, dialog.model.details)
                        ELSE dialog.model.details) :
                e \in extras}

PasswordTyped(dialog) == ExtraTyped(dialog, "login", {<<t>> : t \in Texts})
ExpiryTyped(dialog) == ExtraTyped(dialog, "card", Expiries)
DateChosen(dialog) == ExtraTyped(dialog, "identity", {<<d>> : d \in Dates})

\* A note's rows: one more, one less, or another type or value in one.
NewRow == RowOf([type |-> "Text", string |-> NoText, bool |-> FALSE])
FieldAdded(dialog) ==
  LET rows == dialog.pages["note"].extra IN
  IF Len(rows) < MaxRows THEN ExtraTyped(dialog, "note", {Append(rows, NewRow)}) ELSE {}
FieldRemoved(dialog) ==
  LET rows == dialog.pages["note"].extra IN
  ExtraTyped(dialog, "note", {RemoveAt(rows, i) : i \in DOMAIN rows})
FieldChanged(dialog) ==
  LET rows == dialog.pages["note"].extra IN
  UNION {ExtraTyped(dialog, "note",
           {[rows EXCEPT ![i].type = t] : t \in FieldTypes \ {rows[i].type}}
           \cup (IF rows[i].type = "Boolean" THEN {[rows EXCEPT ![i].bool = ~@]}
                 ELSE {[rows EXCEPT ![i].string[rows[i].type] = t] : t \in Texts})) :
           i \in DOMAIN rows}

InputChanges(dialog) ==
  TextTyped(dialog) \cup PasswordTyped(dialog) \cup ExpiryTyped(dialog) \cup
  DateChosen(dialog) \cup FieldAdded(dialog) \cup FieldRemoved(dialog) \cup
  FieldChanged(dialog)

\* The generated password goes to the login page of the dialog it was opened
\* from, whatever that dialog shows now.
Generated(dialog) ==
  LET page == [dialog.pages["login"] EXCEPT !.extra = <<"generated">>] IN
  {[changed EXCEPT !.generator = FALSE] :
     changed \in Changed(dialog, "login", page,
                   IF dialog.model.details.kind = "login"
                     THEN FromExtra("login", page, dialog.model.details)
                     ELSE dialog.model.details)}

-----------------------------------------------------------------------------
(* The dialogs. *)

\* A new add dialog: the first type of its box shows the login page.  Its
\* nameLost says that the name in the input is no longer that of the model;
\* the note that every item has goes the way of the name.
NewAdd ==
  ShowDetails([state |-> "absent", name |-> NoText, nameLost |-> FALSE, waiting |-> FALSE,
               kind |-> "login", pages |-> NewPages, model |-> NewModel, astray |-> FALSE,
               generator |-> FALSE, untouched |-> FALSE, sent |-> NewModel, into |-> NoText],
              Blank("login"))

\* The edit dialog may have several edits under way.
NewEdit ==
  [state |-> "hidden", name |-> NoText, kind |-> "login",
   pages |-> NewPages, model |-> NewModel, original |-> Blank("login"),
   astray |-> FALSE, generator |-> FALSE, untouched |-> FALSE, sent |-> <<>>]

FormsInit ==
  /\ add = NewAdd
  /\ edit = NewEdit
  /\ stored = [i \in ItemIds |-> NoVersion]
  /\ meant = [i \in ItemIds |-> NewModel]
  /\ typed = 0

OpenVaults == {v \in Vaults : held[Here][v].isDecrypted}
Made(i) == stored[i].vault # NoText
Unused == {i \in ItemIds : ~Made(i)}
FirstUnused == CHOOSE i \in Unused : \A j \in Unused : i <= j

\* The dialogs share nothing: the model has one of them on screen at a time.
OnAddItemButtonClicked ==
  /\ OpenVaults # {}
  /\ ~Shown(add) /\ ~Shown(edit)
  /\ add' = [add EXCEPT !.state = "shown"]
  /\ UNCHANGED <<edit, stored, meant, typed>>

\* Another type: new details, set in the page of that type.  A name that was
\* lost stays lost.
OnCurrentIndexChangedUnset ==
  /\ Shown(add)
  /\ \E k \in Kinds \ {add.kind} :
       add' = [add EXCEPT !.kind = k, !.model.details = Blank(k), !.astray = FALSE]
  /\ UNCHANGED <<edit, stored, meant, typed>>
OnCurrentIndexChanged ==
  /\ Shown(add)
  /\ \E k \in Kinds \ {add.kind} :
       add' = [ShowDetails(add, Blank(k)) EXCEPT !.astray = FALSE]
  /\ UNCHANGED <<edit, stored, meant, typed>>

OnAddInput ==
  /\ Shown(add) /\ typed < MaxTyped
  /\ add' \in InputChanges(add)
  /\ typed' = typed + 1
  /\ UNCHANGED <<edit, stored, meant>>

OnNameEdited ==
  /\ Shown(add)
  /\ \E n \in Texts \ {add.name} :
       add' = [add EXCEPT !.name = n, !.nameLost = FALSE, !.model.name = n]
  /\ UNCHANGED <<edit, stored, meant, typed>>

\* The model is sent to the vault that is selected, once AppController has
\* checked its name; it answers with an error if there is none.
OnAddItem(model) ==
  \/ /\ model.name = NoText
     /\ add' = [add EXCEPT !.model = model]
  \/ /\ model.name # NoText
     /\ \E v \in OpenVaults :
          add' = [add EXCEPT !.model = model, !.waiting = TRUE, !.sent = model, !.into = v]

\* The dialog checks the name in its input, and gives the model a new
\* identifier.
OnConfirmClicked ==
  /\ Shown(add) /\ ~add.waiting
  /\ add.name # NoText /\ Unused # {}
  /\ OnAddItem([add.model EXCEPT !.id = FirstUnused])
  /\ UNCHANGED <<edit, stored, meant, typed>>

\* Closed by the window's button: the model is new, the inputs stay.
CloseAdd ==
  /\ Shown(add)
  /\ add' = [add EXCEPT !.state = "absent", !.model = NewModel, !.astray = TRUE,
                        !.nameLost = (add.name # NoText), !.generator = FALSE]
  /\ UNCHANGED <<edit, stored, meant, typed>>

\* Left by Escape, which is no close event: everything stays.
RejectAdd ==
  /\ Shown(add)
  /\ add' = [add EXCEPT !.state = "absent"]
  /\ UNCHANGED <<edit, stored, meant, typed>>

\* The answer to the item that was sent: the dialog goes when it is stored.
OnAddItemResult ==
  /\ add.waiting
  /\ \/ /\ stored' = [stored EXCEPT ![add.sent.id] =
                        CreateFromModel(add.sent, held[Here][add.into], add.into)]
        /\ meant' = [meant EXCEPT ![add.sent.id] = add.sent]
        /\ add' = NewAdd
     \/ /\ add' = [add EXCEPT !.waiting = FALSE, !.sent = NewModel, !.into = NoText]
        /\ UNCHANGED <<stored, meant>>
  /\ UNCHANGED <<edit, typed>>

\* An item that can be read, opened and then edited.
OnEditClicked ==
  /\ ~Shown(add) /\ ~Shown(edit)
  /\ \E i \in ItemIds : \E v \in OpenVaults \cap {stored[i].vault} :
       \E m \in ToModel(i, stored[i], held[Here][v]) :
         edit' = [ShowDetails([edit EXCEPT !.model = m], m.details)
                    EXCEPT !.state = "shown", !.name = m.name,
                           !.original = m.details, !.untouched = TRUE, !.astray = FALSE]
  /\ UNCHANGED <<add, stored, meant, typed>>

OnEditInput ==
  /\ Shown(edit) /\ typed < MaxTyped
  /\ edit' \in InputChanges(edit)
  /\ typed' = typed + 1
  /\ UNCHANGED <<add, stored, meant>>

OnEditName ==
  /\ Shown(edit) /\ typed < MaxTyped
  /\ \E n \in Texts \ {edit.name} : edit' = [edit EXCEPT !.name = n]
  /\ typed' = typed + 1
  /\ UNCHANGED <<add, stored, meant>>

\* Nothing keeps the button from being clicked again before the answer.
OnConfirm ==
  /\ Shown(edit) /\ Len(edit.sent) < MaxSent
  /\ edit.name # NoText
  /\ LET model == [edit.model EXCEPT !.name = edit.name] IN
     edit' = [edit EXCEPT !.model = model, !.sent = Append(@, model)]
  /\ UNCHANGED <<add, stored, meant, typed>>

\* Cancelled, closed or left by Escape; the model and the generator stay.
CloseEdit ==
  /\ Shown(edit)
  /\ edit' = [edit EXCEPT !.state = "hidden"]
  /\ UNCHANGED <<add, stored, meant, typed>>

\* The answer to one of the edits.  The dialog goes when the item is stored,
\* unless another item is selected by then.
OnEditItemResult ==
  /\ \E i \in DOMAIN edit.sent :
       LET m == edit.sent[i]  v == stored[m.id].vault  left == RemoveAt(edit.sent, i) IN
       \/ /\ stored' = [stored EXCEPT ![m.id] = CreateFromModel(m, held[Here][v], v)]
          /\ meant' = [meant EXCEPT ![m.id] = m]
          /\ \E state \in {"hidden", edit.state} :
               edit' = [edit EXCEPT !.sent = left, !.state = state]
       \/ /\ edit' = [edit EXCEPT !.sent = left]
          /\ UNCHANGED <<stored, meant>>
  /\ UNCHANGED <<add, typed>>

\* The generator of passwords, opened from the login page of a dialog.
OnGeneratePasswordClicked ==
  \/ /\ Shown(add) /\ add.kind = "login"
     /\ add' = [add EXCEPT !.generator = TRUE]
     /\ UNCHANGED <<edit, stored, meant, typed>>
  \/ /\ Shown(edit) /\ edit.kind = "login"
     /\ edit' = [edit EXCEPT !.generator = TRUE]
     /\ UNCHANGED <<add, stored, meant, typed>>

OnPasswordGenerated ==
  /\ typed < MaxTyped
  /\ typed' = typed + 1
  /\ \/ add.generator /\ add' \in Generated(add) /\ UNCHANGED edit
     \/ edit.generator /\ edit' \in Generated(edit) /\ UNCHANGED add
  /\ UNCHANGED <<stored, meant>>

FormsNext ==
  \/ OnAddItemButtonClicked \/ OnCurrentIndexChanged \/ OnAddInput \/ OnNameEdited
  \/ OnConfirmClicked \/ CloseAdd \/ RejectAdd \/ OnAddItemResult
  \/ OnEditClicked \/ OnEditInput \/ OnEditName \/ OnConfirm \/ CloseEdit \/ OnEditItemResult
  \/ OnGeneratePasswordClicked \/ OnPasswordGenerated

Init == KeysInit /\ FormsInit
Next == (KeysNext /\ UNCHANGED formVars) \/ (FormsNext /\ UNCHANGED keyVars)
Spec == Init /\ [][Next]_<<keyVars, formVars>>

-----------------------------------------------------------------------------
\* What a shown page shows is what its model holds.  Left out: the expiry of
\* a card, which is never put into its input, and an identity without a date
\* of birth, which is shown with today's.
PageShowsModel(dialog) ==
  LET k == dialog.kind  page == dialog.pages[k]  d == dialog.model.details IN
    /\ page.text = d.text
    /\ k = "login" => page.extra = d.extra
    /\ k = "identity" /\ d.extra # NoDate => page.extra = d.extra
    /\ k = "note" => FieldsOf(page.extra) = d.extra

\* A shown dialog shows what its model holds: the page (see PageShowsModel),
\* unless the dialog is astray, and the name of the add dialog, unless it is
\* lost.  A dialog goes astray when the window's button gave it a new model
\* and left its inputs, until a type is chosen, or when a generated password
\* was written through the page of another kind; a name is lost to the
\* window's button until it is typed again, and then the model has none.
\* (Each input is synchronised by its own signal, setting a model fires the
\* same signals as typing, and the dialogs are closed in ways that keep their
\* model and in one that does not.)
FormShowsModel ==
  /\ \A dialog \in {add, edit} : Shown(dialog) /\ ~dialog.astray =>
       dialog.model.details.kind = dialog.kind /\ PageShowsModel(dialog)
  /\ Shown(add) => add.model.name = IF add.nameLost THEN NoText ELSE add.name

\* An item that is opened for an edit and not touched keeps its details,
\* whatever the page showed before: confirming it changes its name at most.
\* The exception is an identity without a date of birth, which may get
\* today's.
EditKeepsUntouched ==
  Shown(edit) /\ edit.untouched =>
    \/ edit.model.details.kind = edit.original.kind /\ edit.model.details = edit.original
    \/ edit.original.kind = "identity" /\ edit.original.extra = NoDate

\* A card whose expiry cannot be written down: none, or out of bounds.
OddExpiry(d) == d.kind = "card" /\ (d.extra[1] < 1 \/ ~InBounds(d.extra))

\* Every stored item opens, on every device that has opened its vault, as
\* the model it was made of, with the icon of its details in the list; and it
\* has a name, though the add dialog looks for one in its input and sends its
\* model, which may have lost it.
\* (Cards without an expiry, or with one out of bounds, do not: see
\* NoExpiryStaysNone.)
OpensAsMeant ==
  \A i \in ItemIds, d \in Devices : Made(i) =>
    LET item == stored[i]  vault == held[d][item.vault] IN
    /\ meant[i].name # NoText
    /\ vault.isDecrypted =>
      /\ LoadsFromSummary(i, item, vault)
      /\ item.metadata.data.custom_icon = CustomIcon(meant[i].details)
      /\ ~OddExpiry(meant[i].details) => ToModel(i, item, vault) = {meant[i]}

\* What the comments on the expiry in CardItemDto.h say: 0 stands for no
\* expiry, so a card stored without one opens without one.
NoExpiryStaysNone ==
  \A i \in ItemIds, d \in Devices : Made(i) =>
    LET item == stored[i]  vault == held[d][item.vault] IN
    vault.isDecrypted /\ meant[i].details.kind = "card" /\ meant[i].details.extra = NoExpiry
      => ToModel(i, item, vault) = {meant[i]}
=============================================================================

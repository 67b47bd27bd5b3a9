------------------------------ MODULE MCItems ------------------------------
EXTENDS Items

\* Month and year as they are typed: 12/29 is read as such, 10/30 as 1/3.
MCExpiries == {<<12, 29>>, <<10, 30>>}

\* The keys of a vault never change once a device has opened it, and are the
\* same for all (DevicesAgree), so the forms are filled in when every device
\* has opened every vault, on the device that registered, in vaults that
\* another one made.  The two dialogs share nothing but the items: one is
\* used after the other.  While its answer is awaited the add dialog is at
\* most closed; while one edit is awaited the edit dialog does anything but
\* open the generator, and while two are, it is at most closed.
EveryVaultOpen == \A d \in Devices, v \in Vaults : held[d][v].isDecrypted
FormsUsed ==
  /\ EveryVaultOpen
  /\ keys[Here].account = GenerateNewAccountKey(Here)
  /\ \A v \in Vaults : held[Here][v].vaultKey # NewVault(Here, v).vaultKey
OneDialogUsed ==
  /\ add' = NewAdd \/ edit' = NewEdit
  /\ add.waiting => ~add'.waiting \/ ~Shown(add')
  /\ edit.sent # <<>> => typed' # typed \/ edit'.sent # edit.sent \/ Shown(edit') # Shown(edit)
  /\ Len(edit.sent) = MaxSent => edit'.sent # edit.sent \/ ~Shown(edit')

MCNext ==
  \/ ~EveryVaultOpen /\ KeysNext /\ UNCHANGED formVars
  \/ FormsUsed /\ FormsNext /\ UNCHANGED keyVars /\ OneDialogUsed
MCSpec == Init /\ [][MCNext]_<<keyVars, formVars>>
=============================================================================

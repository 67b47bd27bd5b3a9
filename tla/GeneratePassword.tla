------------------------- MODULE GeneratePassword -------------------------
(***************************************************************************)
(* The dialog that proposes a password (client/src/ui/                     *)
(* GeneratePasswordDialog) and the generator behind it (client/src/core/   *)
(* PasswordGenerator, common CryptoRandomizer and SecretRandomizer).       *)
(*                                                                         *)
(* The dialog shows one password at any time, and every control that has a *)
(* say in it makes a new one.  The last class of characters that is still  *)
(* checked cannot be unchecked: its box is disabled, by a handler that     *)
(* runs after the new password has been made.  When the random source      *)
(* fails a modal message says so, over the password there was; once it is  *)
(* closed the password is empty, and only then does the handler go on.     *)
(*                                                                         *)
(* A character is its class and whether it is one that is easily mistaken  *)
(* for another (I, O, l, 0, 1); a word is its index in the word list.      *)
(***************************************************************************)
EXTENDS Naturals, FiniteSets, Sequences

CONSTANTS
  Boxes,        \* the check boxes, one for each class of characters
  Special,      \* the class without easily mistaken characters
  CheckedAtFirst, \* the boxes the form has checked
  Lengths,      \* bound: positions of the slider of characters
  WordCounts,   \* bound: positions of the slider of words
  WordListSize  \* bound: words in the list

\* A slider stands on some number from its form; three of the form's boxes
\* are checked, so none of them is the only one.
ASSUME DialogAssumption ==
  /\ IsFiniteSet(Boxes) /\ CheckedAtFirst \subseteq Boxes
  /\ \E b, c \in CheckedAtFirst : b # c
  /\ Lengths \subseteq Nat \ {0} /\ Lengths # {}
  /\ WordCounts \subseteq Nat \ {0} /\ WordCounts # {}

VARIABLES
  settings,     \* what the controls say
  disabled,     \* boxes that do not take a click
  shown,        \* passwordLabel: the password last made
  outcome       \* how the last generatePassword stands: "made"; failed, its
                \* message open, called by the boxes' handler or by another;
                \* failed and "empty"
dialogVars == <<settings, disabled, shown, outcome>>

Messages == {"message", "boxMessage"}

-----------------------------------------------------------------------------
(* A number below range, by drawing bits and rejecting: the mask is all    *)
(* ones and covers range - 1, so any number below range may come out,      *)
(* unless the source fails: that exception ends generatePassword.          *)
Mask(range) == CHOOSE m \in {2^k - 1 : k \in 0..range} :
                 /\ m >= range - 1
                 /\ \A k \in 0..range : 2^k > range - 1 => m <= 2^k - 1

Uniform(range) ==
  IF range < 2 THEN {0} ELSE {v \in 0..Mask(range) : ~(v >= range)}

\* The words, of which kEffLongWordlist has 7776.
WordList == 1..WordListSize

\* Avoiding the easily mistaken characters takes the shorter list of a
\* class that has one.
CharacterSet(checked, avoid) ==
  {c \in [class : checked, mistaken : BOOLEAN] :
     c.mistaken => ~avoid /\ c.class # Special}

\* A choice for each place; the shuffle of the set before it decides only
\* which character stands behind which number.
Passwords(s) ==
  LET chars == CharacterSet(s.checked, s.avoid) IN
  IF chars = {} THEN {<<>>} ELSE [1..s.length -> chars]

\* The word at the lucky place, if numbers are asked for, has a digit.
Passphrases(s) ==
  {[i \in 1..s.words |-> [word |-> w[i], capital |-> s.capitalize,
                          digit |-> s.number /\ i - 1 = lucky]] :
     w \in [1..s.words -> WordList], lucky \in Uniform(s.words)}

Made(s) ==
  IF s.type = "password"
    THEN {[type |-> "password", chars |-> p] : p \in Passwords(s)}
    ELSE {[type |-> "passphrase", chars |-> p, separator |-> s.separator] :
            p \in Passphrases(s)}

-----------------------------------------------------------------------------
\* The form as it is first shown: its sliders, its boxes, a dash between words.
FirstSettings ==
  [type |-> "password", checked |-> CheckedAtFirst, avoid |-> FALSE,
   length |-> CHOOSE n \in Lengths : TRUE, words |-> CHOOSE n \in WordCounts : TRUE,
   capitalize |-> TRUE, number |-> FALSE, separator |-> "dash"]

\* What the label shows when nothing was made.
Empty == [type |-> "none", chars |-> <<>>]

\* The constructor makes the first password, or fails to.
DialogInit ==
  /\ settings = FirstSettings
  /\ disabled = {}
  /\ \/ shown \in Made(settings) /\ outcome = "made"
     \/ shown = Empty /\ outcome = "empty"

\* An exception of the random source opens a message; the label waits.
GeneratePassword(message) ==
  \/ shown' \in Made(settings') /\ outcome' = "made"
  \/ UNCHANGED shown /\ outcome' = message

\* A modal message takes every click and key.
Ready == outcome \notin Messages

\* Sliders, buttons, and boxes that only make a new password.
Set(field, values) ==
  /\ Ready
  /\ \E v \in values \ {settings[field]} : settings' = [settings EXCEPT ![field] = v]
  /\ GeneratePassword("message")
  /\ UNCHANGED disabled

OnTypeToggled == Set("type", {"password", "passphrase"})

\* A page shows the controls of its own type only.
OnPage(type) == settings.type = type

OnCharactersSlider == OnPage("password") /\ Set("length", Lengths)
OnAmbiguousToggled == OnPage("password") /\ Set("avoid", BOOLEAN)
OnWordsSlider == OnPage("passphrase") /\ Set("words", WordCounts)
OnCapitalizeToggled == OnPage("passphrase") /\ Set("capitalize", BOOLEAN)
OnIncludeNumberToggled == OnPage("passphrase") /\ Set("number", BOOLEAN)

\* A key typed in the separator input; backspace leaves a space.
OnSeparatorTyped == OnPage("passphrase") /\ Set("separator", {"dash", "space"})

\* The only checked box is disabled; otherwise every box is enabled.
DisabledFor(checked) ==
  IF Cardinality(checked) = 1 THEN disabled \cup checked ELSE {}

\* The bug of a handler that enables the boxes and disables none.
OnPasswordSettingsChangedEnablesAll ==
  /\ GeneratePassword("boxMessage")
  /\ disabled' = IF outcome' = "made" THEN {} ELSE disabled

\* The boxes are gone through after the password, and after its message.
OnPasswordSettingsChanged ==
  /\ GeneratePassword("boxMessage")
  /\ disabled' = IF outcome' = "made" THEN DisabledFor(settings'.checked)
                 ELSE disabled

OnBoxToggled ==
  /\ Ready /\ OnPage("password")
  /\ \E b \in Boxes \ disabled :
       settings' = [settings EXCEPT !.checked = (@ \ {b}) \cup ({b} \ @)]
  /\ OnPasswordSettingsChanged

OnMessageClosed ==
  /\ ~Ready
  /\ outcome' = "empty" /\ shown' = Empty
  /\ disabled' = IF outcome = "boxMessage" THEN DisabledFor(settings.checked)
                 ELSE disabled
  /\ UNCHANGED settings

\* The generate button, and the dialog shown again.
OnGenerateClicked ==
  /\ Ready
  /\ UNCHANGED <<settings, disabled>>
  /\ GeneratePassword("message")

DialogNext ==
  \/ OnTypeToggled
  \/ OnCharactersSlider
  \/ OnAmbiguousToggled
  \/ OnWordsSlider
  \/ OnCapitalizeToggled
  \/ OnIncludeNumberToggled
  \/ OnSeparatorTyped
  \/ OnBoxToggled
  \/ OnMessageClosed
  \/ OnGenerateClicked

DialogSpec == DialogInit /\ [][DialogNext]_dialogVars

-----------------------------------------------------------------------------
\* The password that can be confirmed fits what the controls say now,
\* whatever was switched in whatever order: its length, its classes, no
\* easily mistaken character when they are avoided; a passphrase has its
\* number of words, all capitalised or none, one digit exactly when asked
\* for, and the separator of the input.  It is empty only if the random
\* source failed when the controls were last switched, and then it is not
\* the password of the setting before.  (A password for a setting that is
\* no longer on screen, or an empty one after the last box went, would be
\* stored as it is when the dialog is confirmed.)
ShownPasswordFits ==
  /\ outcome = "empty" => Len(shown.chars) = 0
  /\ outcome = "made" => shown.type = settings.type /\ Len(shown.chars) > 0
  /\ outcome = "made" /\ shown.type = "password" =>
       /\ Len(shown.chars) = settings.length
       /\ \A i \in 1..Len(shown.chars) :
            /\ shown.chars[i].class \in settings.checked
            /\ settings.avoid => ~shown.chars[i].mistaken
  /\ outcome = "made" /\ shown.type = "passphrase" =>
       /\ Len(shown.chars) = settings.words
       /\ shown.separator = settings.separator
       /\ \A i \in 1..Len(shown.chars) : shown.chars[i].capital = settings.capitalize
       /\ Cardinality({i \in 1..Len(shown.chars) : shown.chars[i].digit})
            = IF settings.number THEN 1 ELSE 0
=============================================================================

----------------------------- MODULE MCHelpers -----------------------------
(* The codecs, the password dialog and the icons share no state: one run   *)
(* explores each of them while the others are as they were at first.       *)
EXTENDS Codecs, GeneratePassword, Favicons

Init == CodecInit /\ DialogInit /\ IconsInit

DialogAtFirst ==
  /\ settings = FirstSettings
  /\ shown = (CHOOSE first \in Made(FirstSettings) : TRUE) /\ outcome = "made"

Next ==
  \/ CodecNext /\ DialogAtFirst /\ IconsInit /\ UNCHANGED <<dialogVars, iconVars>>
  \/ DialogNext /\ CodecInit /\ IconsInit /\ UNCHANGED <<codecVars, iconVars>>
  \/ IconsNext /\ CodecInit /\ DialogAtFirst /\ UNCHANGED <<codecVars, dialogVars>>

Spec == Init /\ [][Next]_<<codecVars, dialogVars, iconVars>>

MCBytes == {0, 22, 129, 255}
MCChars == {5, 57, 63, Pad}

\* "A" is "a" in other letters, "w" is "www.a".
MCNames == {"a", "A", "w"}
MCDomain == [d \in MCNames |-> IF d = "w" THEN "a" ELSE d]
MCFileOf == [d \in MCNames |-> IF d = "w" THEN "www.a.png" ELSE "a.png"]
=============================================================================

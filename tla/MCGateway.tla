------------------------------ MODULE MCGateway ------------------------------
(***************************************************************************)
(* Small instances of Gateway for TLC.                                     *)
(***************************************************************************)
EXTENDS Gateway

Good == [valid |-> TRUE, power |-> TRUE, no_water |-> FALSE,
         fault |-> FALSE, battery |-> 0, filter |-> 0]

Normal == {Good}
Empties == {Good, [Good EXCEPT !.no_water = TRUE, !.battery = 1]}

\* Every event of S once.
Once(S) == [e \in Events |-> IF e \in S THEN 1 ELSE 0]

\* Two power cuts, a fault of the flash, a short read and the phone app around a
\* drink; the radio works.
PowerTrouble ==
  [Once({"drink", "flash", "sync", "short"}) EXCEPT !["crash"] = 2]

\* A failed poll and a short read around a drink, a power cut, a fault of the flash.
PollTrouble == Once({"drink", "pollfail", "short", "flash", "crash"})

\* The radio: sends that fail or are not confirmed, an evening without Wi-Fi,
\* commands, and a power cut at any point of it.
RadioTrouble ==
  [Once({"wifi", "crash"}) EXCEPT !["send"] = 2, !["ask"] = 2]

\* The same with a fault of the flash and fewer sends and commands.
CursorTrouble == Once({"send", "ask", "wifi", "crash", "flash"})

Trouble == {PowerTrouble, PollTrouble, RadioTrouble, CursorTrouble}

\* Power cuts in an otherwise perfect world.
OnlyCrashes == {[Once({}) EXCEPT !["crash"] = 2, !["drink"] = 2]}

\* An evening without Wi-Fi and a power cut, for ReportNotLost.
OnlyRadioCut == {Once({"wifi", "crash"})}

\* A question whose answer is not confirmed, and a power cut, for
\* NoAnswerSwallowed.
OnlyReplyCut == {Once({"ask", "send", "crash"})}

\* One fault of the flash, for SavedMeansSaved.
OnlyFlash == {Once({"flash"})}
=============================================================================

---------------------------- MODULE LightsArbiter ----------------------------
(***************************************************************************)
(* What the lights HALs promise of the one LED that battery, notifications *)
(* and attention share: once an update is over, the LED looks as the lit   *)
(* light of highest priority asks, and as the battery asks when no light is. *)
(* An update that fails may leave any look, Broken, and the next one does  *)
(* not depend on it.  Updates follow each other; how an LED is driven is   *)
(* Look.                                                                   *)
(***************************************************************************)
CONSTANTS States,   \* the requests a light can be in
          Lit(_),   \* whether a request asks for light at all
          Look(_),  \* how the LED looks when it serves a request
          Dark,     \* the request every light starts with
          Changing, \* the look of the LED during an update
          Broken    \* its look after an update that failed

Lights == {"battery", "notifications", "attention"}

VARIABLES lights,  \* what each light asks for
          shown    \* how the LED looks

vars == <<lights, shown>>

Winner(ls) == IF Lit(ls["attention"]) THEN ls["attention"]
              ELSE IF Lit(ls["notifications"]) THEN ls["notifications"]
              ELSE ls["battery"]

Init == /\ lights = [l \in Lights |-> Dark]
        /\ shown = Look(Dark)

Begin(l, s) == /\ shown # Changing
               /\ lights' = [lights EXCEPT ![l] = s]
               /\ shown' = Changing

End == /\ shown = Changing
       /\ shown' \in {Look(Winner(lights)), Broken}
       /\ UNCHANGED lights

Next == \/ \E l \in Lights, s \in States : Begin(l, s)
        \/ End

Spec == Init /\ [][Next]_vars
=============================================================================

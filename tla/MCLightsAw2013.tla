--------------------------- MODULE MCLightsAw2013 ---------------------------
(* LightsAw2013 with a few requests, and nearest_color tabulated for their *)
(* colors: what its float arithmetic gives for each of them.               *)
EXTENDS LightsAw2013

Request(color, mode, on, off) ==
  [color |-> color, flashMode |-> mode, flashOnMS |-> on, flashOffMS |-> off]

Red == Request(<<255, 0, 0>>, "NONE", 0, 0)
Orange == Request(<<255, 128, 0>>, "TIMED", 2500, 100)
Steady == Request(<<255, 255, 255>>, "HARDWARE", 1, 0)

Requests == {Dark, Red, Orange, Steady}

Table == << <<Dark.color, <<0, 0, 0>>>>,
            <<Red.color, <<255, 0, 0>>>>,
            <<Orange.color, <<255, 0, 0>>>>,
            <<Steady.color, <<255, 255, 255>>>> >>

NearestOf(color) ==
  LET i == CHOOSE i \in DOMAIN Table : Table[i][1] = color IN Table[i][2]

\* A file of each sort.
FailingFew == {ButtonFile, <<1, "brightness">>, <<2, "blink">>, <<3, "breath">>}
=============================================================================

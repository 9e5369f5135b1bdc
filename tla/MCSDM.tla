-------------------------------- MODULE MCSDM --------------------------------
(* SDM with two vendor modes and the sRGB node.                            *)
EXTENDS SDM

\* Everything but FOSS is there; only FOSS; only FOSS and the modes.
Full == [modes |-> TRUE, temperature |-> TRUE, adjustment |-> TRUE, foss |-> FALSE]
FossOnly == [modes |-> FALSE, temperature |-> FALSE, adjustment |-> FALSE, foss |-> TRUE]
ModesAndFoss == [FossOnly EXCEPT !.modes = TRUE]
OneBoard == {Full}
SomeBoards == {Full, ModesAndFoss, FossOnly}

Nothing == {{}}

\* Only the process and the power; all but lost writes; everything.
Some == {{"crash"}, {"vendor", "open", "crash"}, AllFaults}
=============================================================================

----------------------------- MODULE MCLegacyMM -----------------------------
(* LegacyMM with two threads, on boards with all features and with some.   *)
EXTENDS LegacyMM, TLC

CONSTANTS m0, m1, zero, user

MCModes == {m0, m1}
MCBalances == {0, 7}
MCPictures == {zero, user}
MCSwitches == {"outdoor", "contrast"}

Everything == [supported |-> {0, 1, 4}, modes |-> TRUE, ranges |-> TRUE]
MCBoards == {Everything,
             [Everything EXCEPT !.modes = FALSE],
             [Everything EXCEPT !.supported = {0, 1}, !.ranges = FALSE]}

\* Nothing; no vendor call; everything.
MCFaultSets == {{}, {"node", "crash"}, AllFaults}

Ops(ops) == {r \in Service!Requests : r.op \in ops}
MCMenus == {Ops({"setMode", "getMode"}),
            Ops({"setMode", "getDefaultMode"}),
            Ops({"getModes", "setBalance", "getBalance", "getBalanceRange"}),
            Ops({"setPicture", "getPicture", "getDefaultPicture",
                 "getPictureRanges"}),
            Ops({"setSwitch", "isOn", "getBalance"})}

Symmetry == Permutations(Threads) \cup Permutations(MCModes)
=============================================================================

-------------------------------- MODULE MCFoss --------------------------------
(* Foss with replies shorter than the buffer, of its size, and longer.     *)
EXTENDS Foss

Yes == {<<"Succ", "ess">>, <<"Succ", "ess", "more">>,
        <<"Succ", "ess", "more", "more", "more">>}
No == {<<"Fail">>, <<"Fail", "more", "more", "more">>}

\* A prompt daemon, then everything.
Some == {{"connect", "refuse"}, AllFaults}
SlowOnly == {{"slow"}}
=============================================================================

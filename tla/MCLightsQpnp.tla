---------------------------- MODULE MCLightsQpnp ----------------------------
(* LightsQpnp with a few requests: solid red, a slow green pulse, and a    *)
(* blue pulse shorter than its ramp, one unit short of the next step.      *)
EXTENDS LightsQpnp

Request(color, mode, on, off) ==
  [color |-> color, flashMode |-> mode, flashOnMS |-> on, flashOffMS |-> off]

Red == Request(<<255, 0, 0>>, "NONE", 0, 0)
GreenPulse == Request(<<0, 200, 7>>, "TIMED", 1000, 3000)
BluePulse == Request(<<0, 0, 255>>, "TIMED", 799, 1)

Requests == {Dark, Red, GreenPulse, BluePulse}

\* A file of each sort.
FailingFew == {BlinkFile, LcdFile, <<"red", "brightness">>,
               <<"blue", "pause_hi">>}
=============================================================================

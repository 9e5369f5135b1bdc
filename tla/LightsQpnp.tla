------------------------------ MODULE LightsQpnp ------------------------------
(***************************************************************************)
(* The lights HAL for the QPNP LED driver (lights/lights-qpnp.c): threads  *)
(* that set lights under g_lock, and the sysfs files each update writes    *)
(* one by one.  Every light but the backlight returns 0 whatever became of *)
(* its writes, so return values are left out.                              *)
(***************************************************************************)
EXTENDS Integers, Sequences

CONSTANTS Threads,
          NoThread,    \* the owner of g_lock when it is free
          States,      \* the light_state_t values in use
          FailingFiles \* the files a write to may fail

ASSUME ThreadsAssumption == NoThread \notin Threads

Colors == <<"red", "green", "blue">>
LedLights == {"battery", "notifications", "attention"}
Lights == LedLights \cup {"backlight"}

\* A light_state_t, its color split in its three channels.
LightState == [color : [1..3 -> 0..255],
               flashMode : {"NONE", "TIMED", "HARDWARE"},
               flashOnMS : Int, flashOffMS : Int]
ASSUME StatesAssumption == States \subseteq LightState

\* Zeroed memory: g_battery, g_notification, g_attention at the start.
Dark == [color |-> <<0, 0, 0>>, flashMode |-> "NONE",
         flashOnMS |-> 0, flashOffMS |-> 0]

IsLit(s) == \E c \in 1..3 : s.color[c] # 0

RgbToBrightness(s) ==
  (77 * s.color[1] + 150 * s.color[2] + 29 * s.color[3]) \div 256

RAMP_SIZE == 8
RAMP_STEP_DURATION == 50
BRIGHTNESS_RAMP == <<0, 12, 25, 37, 50, 72, 85, 100>>

\* Mutant: the product is not scaled back.
ScaledDutyPctsUnscaled(brightness) ==
  [i \in 1..RAMP_SIZE |-> BRIGHTNESS_RAMP[i] * brightness]

ScaledDutyPcts(brightness) ==
  [i \in 1..RAMP_SIZE |-> (BRIGHTNESS_RAMP[i] * brightness) \div 255]

\* Only LIGHT_FLASH_TIMED blinks, and only with both times positive.
Blinks(s) == s.flashMode = "TIMED" /\ s.flashOnMS > 0 /\ s.flashOffMS > 0

\* The led driver goes up and down the ramp: the ramp takes twice its steps.
\* A pulse too short for it is all ramp.
RampTooLong(on) == RAMP_STEP_DURATION * RAMP_SIZE * 2 > on

\* Mutant: the steps of a short pulse are not shortened.
StepDurationFixed(on) == RAMP_STEP_DURATION

StepDuration(on) == IF RampTooLong(on) THEN on \div (RAMP_SIZE * 2)
                    ELSE RAMP_STEP_DURATION
PauseHi(on) == IF RampTooLong(on) THEN 0
               ELSE on - RAMP_STEP_DURATION * RAMP_SIZE * 2

-----------------------------------------------------------------------------
(* The files, and the program of writes that shows a state.                *)

BlinkFile == <<"rgb", "rgb_blink">>
LcdFile == <<"lcd-backlight", "brightness">>
RampAttributes == {"start_idx", "duty_pcts", "pause_lo", "pause_hi",
                   "ramp_step_ms"}
Channel == {Colors[c] : c \in 1..3}
RampFiles == Channel \X RampAttributes
Files == {BlinkFile, LcdFile} \cup RampFiles \cup (Channel \X {"brightness"})

ASSUME FailingAssumption == FailingFiles \subseteq Files

Write(file, value) == [file |-> file, value |-> value]

RampWrites(c, s) ==
  << Write(<<Colors[c], "start_idx">>, RAMP_SIZE * (c - 1)),
     Write(<<Colors[c], "duty_pcts">>, ScaledDutyPcts(s.color[c])),
     Write(<<Colors[c], "pause_lo">>, s.flashOffMS),
     Write(<<Colors[c], "pause_hi">>, PauseHi(s.flashOnMS)),
     Write(<<Colors[c], "ramp_step_ms">>, StepDuration(s.flashOnMS)) >>

BrightnessWrites(s) ==
  [c \in 1..3 |-> Write(<<Colors[c], "brightness">>, s.color[c])]

\* Mutant: blinking is not disabled first.
SpeakerWritesBlinking(s) ==
  IF Blinks(s)
  THEN RampWrites(1, s) \o RampWrites(2, s) \o RampWrites(3, s)
         \o <<Write(BlinkFile, 1)>>
  ELSE BrightnessWrites(s)

\* set_speaker_light_locked
SpeakerWrites(s) ==
  <<Write(BlinkFile, 0)>> \o
  IF Blinks(s)
  THEN RampWrites(1, s) \o RampWrites(2, s) \o RampWrites(3, s)
         \o <<Write(BlinkFile, 1)>>
  ELSE BrightnessWrites(s)

-----------------------------------------------------------------------------
VARIABLES
  once,     \* pthread_once has run init_globals
  devices,  \* the lights that have been opened
  g_lock,   \* the owner of the mutex, or NoThread
  lights,   \* g_battery, g_notification and g_attention
  files,    \* what the driver has been told
  pc,       \* "idle", or the kind of set_light function a thread is in
  todo,     \* the writes a thread still has to do
  faulty    \* a write of the last update of the LED has failed

vars == <<once, devices, g_lock, lights, files, pc, todo, faulty>>

TypeOK ==
  /\ once \in BOOLEAN
  /\ devices \subseteq Lights
  /\ g_lock \in Threads \cup {NoThread}
  /\ lights \in [LedLights -> States \cup {Dark}]
  /\ DOMAIN files = Files
  /\ \A f \in Files : IF f[2] = "duty_pcts"
                      THEN files[f] \in [1..RAMP_SIZE -> 0..100]
                      ELSE files[f] \in Int
  /\ pc \in [Threads -> {"idle", "speaker", "backlight"}]
  /\ \A t \in Threads : \A i \in DOMAIN todo[t] : todo[t][i].file \in Files
  /\ faulty \in BOOLEAN

Init ==
  /\ once = FALSE
  /\ devices = {}
  /\ g_lock = NoThread
  /\ lights = [l \in LedLights |-> Dark]
  /\ files = [f \in Files |-> IF f[2] = "duty_pcts" THEN ScaledDutyPcts(0)
                                                    ELSE 0]
  /\ pc = [t \in Threads |-> "idle"]
  /\ todo = [t \in Threads |-> <<>>]
  /\ faulty = FALSE

\* Mutant: every open initializes the mutex.
OpenAlways(l) ==
  /\ once' = TRUE
  /\ g_lock' = NoThread
  /\ devices' = devices \cup {l}
  /\ UNCHANGED <<lights, files, pc, todo, faulty>>

\* open_lights: the first one initializes the mutex.
Open(l) ==
  /\ once' = TRUE
  /\ g_lock' = IF once THEN g_lock ELSE NoThread
  /\ devices' = devices \cup {l}
  /\ UNCHANGED <<lights, files, pc, todo, faulty>>

\* Mutant: the notification outshines the attention light.
WinnerSwapped(ls) ==
  IF IsLit(ls["notifications"]) THEN ls["notifications"]
  ELSE IF IsLit(ls["attention"]) THEN ls["attention"]
  ELSE ls["battery"]

\* handle_speaker_light_locked
Winner(ls) ==
  IF IsLit(ls["attention"]) THEN ls["attention"]
  ELSE IF IsLit(ls["notifications"]) THEN ls["notifications"]
  ELSE ls["battery"]

Lock(t, function) == /\ pc[t] = "idle"
                     /\ g_lock = NoThread
                     /\ g_lock' = t
                     /\ pc' = [pc EXCEPT ![t] = function]

\* set_light_battery, set_light_notifications, set_light_attention: take the
\* lock, keep the state, and start to show the winner.
SetLight(t, l, s) ==
  /\ l \in devices
  /\ Lock(t, "speaker")
  /\ lights' = [lights EXCEPT ![l] = s]
  /\ todo' = [todo EXCEPT ![t] = SpeakerWrites(Winner(lights'))]
  /\ faulty' = FALSE
  /\ UNCHANGED <<once, devices, files>>

SetBacklight(t, s) ==
  /\ "backlight" \in devices
  /\ Lock(t, "backlight")
  /\ todo' = [todo EXCEPT ![t] = <<Write(LcdFile, RgbToBrightness(s))>>]
  /\ UNCHANGED <<once, devices, lights, files, faulty>>

\* One write_int or write_str; a failed one is not noticed.
WriteFile(t) ==
  /\ todo[t] # <<>>
  /\ LET w == Head(todo[t])
     IN \/ /\ files' = [files EXCEPT ![w.file] = w.value]
           /\ UNCHANGED faulty
        \/ /\ w.file \in FailingFiles
           /\ faulty' = (faulty \/ w.file # LcdFile)
           /\ UNCHANGED files
  /\ todo' = [todo EXCEPT ![t] = Tail(@)]
  /\ UNCHANGED <<once, devices, g_lock, lights, pc>>

\* Mutant: the return without unlock.
UnlockForgotten(t) ==
  /\ pc[t] # "idle"
  /\ todo[t] = <<>>
  /\ pc' = [pc EXCEPT ![t] = "idle"]
  /\ UNCHANGED <<once, devices, g_lock, lights, files, todo, faulty>>

Unlock(t) ==
  /\ pc[t] # "idle"
  /\ todo[t] = <<>>
  /\ g_lock' = NoThread
  /\ pc' = [pc EXCEPT ![t] = "idle"]
  /\ UNCHANGED <<once, devices, lights, files, todo, faulty>>

Next == \/ \E l \in Lights : Open(l)
        \/ \E t \in Threads, s \in States :
             \/ \E l \in LedLights : SetLight(t, l, s)
             \/ SetBacklight(t, s)
        \/ \E t \in Threads : WriteFile(t) \/ Unlock(t)

Spec == Init /\ [][Next]_vars

\* A thread inside a set_light function goes on; nobody has to call one.
Fairness == \A t \in Threads : WF_vars(WriteFile(t) \/ Unlock(t))
FairSpec == Spec /\ Fairness

-----------------------------------------------------------------------------
(* Properties.                                                             *)

\* How a state is meant to look, and how the files make the LED look: the
\* ramp counts while rgb_blink is on, the brightness while it is off.
Look(s) ==
  IF Blinks(s)
  THEN [blink |-> TRUE,
        ramp |-> [c \in Channel |->
                    LET k == CHOOSE k \in 1..3 : Colors[k] = c IN
                    << RAMP_SIZE * (k - 1), ScaledDutyPcts(s.color[k]),
                       s.flashOffMS, PauseHi(s.flashOnMS),
                       StepDuration(s.flashOnMS) >>]]
  ELSE [blink |-> FALSE, color |-> s.color]

Shown ==
  IF files[BlinkFile] = 1
  THEN [blink |-> TRUE,
        ramp |-> [c \in Channel |->
                    << files[<<c, "start_idx">>], files[<<c, "duty_pcts">>],
                       files[<<c, "pause_lo">>], files[<<c, "pause_hi">>],
                       files[<<c, "ramp_step_ms">>] >>]]
  ELSE [blink |-> FALSE,
        color |-> [c \in 1..3 |-> files[<<Colors[c], "brightness">>]]]

\* "disable all blinking to start" (246): as long as the writes of the update
\* have gone through, the ramp is not changed under a blinking LED.
RampChangesWhileOff ==
  [][\A f \in RampFiles :
       ~faulty /\ files'[f] # files[f] => files[BlinkFile] = 0]_vars

\* A blinking LED is on, ramps included, for the time asked for, short of it
\* by less than one turn of the ramp (249-255).
PulseAsLongAsAsked ==
  g_lock = NoThread /\ ~faulty /\ files[BlinkFile] = 1 =>
    LET on == Winner(lights).flashOnMS
    IN \A c \in Channel :
         LET pulse == files[<<c, "pause_hi">>]
                        + 2 * RAMP_SIZE * files[<<c, "ramp_step_ms">>]
         IN pulse <= on /\ on - pulse < 2 * RAMP_SIZE

\* Every update ends and gives g_lock back.
UpdatesEnd == \A t \in Threads : (g_lock = t) ~> (g_lock # t)

-----------------------------------------------------------------------------
\* An update of the LED runs from the lock to the unlock of a thread; the
\* backlight does not disturb it.
Changing == [update |-> TRUE]
Broken == [broken |-> TRUE]
Updating == \E t \in Threads : pc[t] = "speaker"

Arbiter == INSTANCE LightsArbiter WITH
  Lit <- IsLit,
  shown <- IF Updating THEN Changing ELSE IF faulty THEN Broken ELSE Shown

\* The HAL implements the arbiter: an update whose writes went through shows
\* the winner, whatever earlier updates failed to write and however set_light
\* calls of several threads were interleaved (211-346).
ImplementsArbiter == Arbiter!Spec
=============================================================================

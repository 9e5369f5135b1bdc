----------------------------- MODULE LightsAw2013 -----------------------------
(***************************************************************************)
(* The lights HAL for the AW2013 LED driver (lights/lights-aw2013.c).  Its *)
(* threads and its lock are those of LightsQpnp; it drives the LED by      *)
(* other files, snaps a blinking color to one the driver can blink, and    *)
(* edits the attention request before it keeps it.  Return values are left *)
(* out, as they do not depend on the LED's writes.                         *)
(***************************************************************************)
EXTENDS Integers, Sequences

CONSTANTS Threads,
          NoThread,     \* the owner of g_lock when it is free
          States,       \* the light_state_t values in use
          Nearest(_),   \* nearest_color on the colors in use
          FailingFiles  \* the files a write to may fail

ASSUME ThreadsAssumption == NoThread \notin Threads

LedLights == {"battery", "notifications", "attention"}
Lights == LedLights \cup {"backlight", "buttons"}

\* A light_state_t, its color split in its three channels.
LightState == [color : [1..3 -> 0..255],
               flashMode : {"NONE", "TIMED", "HARDWARE"},
               flashOnMS : Int, flashOffMS : Int]
ASSUME StatesAssumption == States \subseteq LightState

Dark == [color |-> <<0, 0, 0>>, flashMode |-> "NONE",
         flashOnMS |-> 0, flashOffMS |-> 0]

IsLit(s) == \E c \in 1..3 : s.color[c] # 0

RgbToBrightness(s) ==
  (77 * s.color[1] + 150 * s.color[2] + 29 * s.color[3]) \div 256

\* The attention light: no flashing is no light, and hardware flashing
\* without an off time is steady.
Attention(s) ==
  IF s.flashMode = "HARDWARE"
  THEN IF s.flashOnMS > 0 /\ s.flashOffMS = 0
       THEN [s EXCEPT !.flashMode = "NONE"] ELSE s
  ELSE IF s.flashMode = "NONE" THEN [s EXCEPT !.color = <<0, 0, 0>>] ELSE s

\* What a light keeps: a request, for the attention light an edited one.
Kept == States \cup {Dark} \cup {Attention(s) : s \in States}

\* The colors the driver can blink: "this hardware only allows primary
\* colors".
BlinkColors == [1..3 -> {0, 255}] \cup {<<127, 127, 127>>}

\* The nearest color is one of the table, and a color of the table is its own.
ASSUME NearestAssumption ==
  \A s \in States : /\ Nearest(s.color) \in BlinkColors
                    /\ s.color \in BlinkColors => Nearest(s.color) = s.color

Blinks(s) == s.flashMode = "TIMED" /\ s.flashOnMS > 0 /\ s.flashOffMS > 0

\* Mutant: short pauses are not lengthened.
SecondsUnclamped(ms) == (IF ms > 7000 THEN 7000 ELSE ms) \div 1000

\* The pattern of ramps and pauses, in seconds, between 1 and 7.
Seconds(ms) == (IF ms < 1000 THEN 1000 ELSE IF ms > 7000 THEN 7000 ELSE ms)
                 \div 1000
BreathPattern(s) ==
  IF Blinks(s) THEN <<1, Seconds(s.flashOnMS), 1, Seconds(s.flashOffMS)>>
               ELSE <<1, 2, 1, 2>>

LedColor(s) == IF Blinks(s) THEN Nearest(s.color) ELSE s.color

-----------------------------------------------------------------------------
Channel == 1..3
LedFiles == Channel \X {"brightness", "blink", "breath"}
LcdFile == <<0, "lcd-backlight">>
ButtonFile == <<0, "button-backlight">>
Files == LedFiles \cup {LcdFile, ButtonFile}

ASSUME FailingAssumption == FailingFiles \subseteq Files

Write(file, value) == [file |-> file, value |-> value]

Brightness(color) == [c \in Channel |-> Write(<<c, "brightness">>, color[c])]
LightsOut == Brightness(<<0, 0, 0>>)

BreathWrites(c, s) ==
  << Write(<<c, "breath">>, BreathPattern(s)),
     Write(<<c, "blink">>, IF Blinks(s) /\ LedColor(s)[c] # 0 THEN 1 ELSE 0) >>

\* Mutant: the pattern is changed after the brightness.
SpeakerWritesLate(s) ==
  LightsOut \o Brightness(LedColor(s)) \o
  BreathWrites(1, s) \o BreathWrites(2, s) \o BreathWrites(3, s)

\* set_speaker_light_locked with a state; without one it is LightsOut.
SpeakerWrites(s) ==
  LightsOut \o
  BreathWrites(1, s) \o BreathWrites(2, s) \o BreathWrites(3, s) \o
  Brightness(LedColor(s))

-----------------------------------------------------------------------------
VARIABLES
  once,     \* pthread_once has run init_globals
  devices,  \* the lights that have been opened
  g_lock,   \* the owner of the mutex, or NoThread
  lights,   \* g_battery, g_notification and g_attention
  files,    \* what the driver has been told
  pc,       \* "idle", or the kind of set_light function a thread is in
  todo,     \* the writes a thread still has to do
  faulty    \* a write of the last update of the LED has failed

vars == <<once, devices, g_lock, lights, files, pc, todo, faulty>>

IsPattern(p) == /\ DOMAIN p = 1..4
                /\ \A i \in 1..4 : p[i] \in 1..7

TypeOK ==
  /\ once \in BOOLEAN
  /\ devices \subseteq Lights
  /\ g_lock \in Threads \cup {NoThread}
  /\ lights \in [LedLights -> Kept]
  /\ DOMAIN files = Files
  /\ \A f \in Files : IF f[2] = "breath" THEN IsPattern(files[f])
                                         ELSE files[f] \in 0..255
  /\ pc \in [Threads -> {"idle", "speaker", "single"}]
  /\ \A t \in Threads : \A i \in DOMAIN todo[t] : todo[t][i].file \in Files
  /\ faulty \in BOOLEAN

Init ==
  /\ once = FALSE
  /\ devices = {}
  /\ g_lock = NoThread
  /\ lights = [l \in LedLights |-> Dark]
  /\ files = [f \in Files |-> IF f[2] = "breath" THEN <<1, 2, 1, 2>> ELSE 0]
  /\ pc = [t \in Threads |-> "idle"]
  /\ todo = [t \in Threads |-> <<>>]
  /\ faulty = FALSE

\* open_lights: the first one initializes the mutex, and the color table.
Open(l) ==
  /\ once' = TRUE
  /\ g_lock' = IF once THEN g_lock ELSE NoThread
  /\ devices' = devices \cup {l}
  /\ UNCHANGED <<lights, files, pc, todo, faulty>>

\* handle_speaker_battery_locked
Winner(ls) ==
  IF IsLit(ls["attention"]) THEN ls["attention"]
  ELSE IF IsLit(ls["notifications"]) THEN ls["notifications"]
  ELSE ls["battery"]

\* Mutant: the lock is not waited for.
LockBusy(t, function) == /\ pc[t] = "idle"
                         /\ g_lock' = t
                         /\ pc' = [pc EXCEPT ![t] = function]

Lock(t, function) == /\ pc[t] = "idle"
                     /\ g_lock = NoThread
                     /\ g_lock' = t
                     /\ pc' = [pc EXCEPT ![t] = function]

\* Mutant: the request is shown as it came, with the winner of before.
SetLightStale(t, l, s) ==
  /\ l \in devices
  /\ Lock(t, "speaker")
  /\ lights' = [lights EXCEPT ![l] = IF l = "attention" THEN Attention(s)
                                     ELSE s]
  /\ todo' = [todo EXCEPT ![t] = LightsOut \o SpeakerWrites(Winner(lights))]
  /\ faulty' = FALSE
  /\ UNCHANGED <<once, devices, files>>

\* set_light_battery, set_light_notifications, set_light_attention
SetLight(t, l, s) ==
  /\ l \in devices
  /\ Lock(t, "speaker")
  /\ lights' = [lights EXCEPT ![l] = IF l = "attention" THEN Attention(s)
                                     ELSE s]
  /\ todo' = [todo EXCEPT ![t] = LightsOut \o SpeakerWrites(Winner(lights'))]
  /\ faulty' = FALSE
  /\ UNCHANGED <<once, devices, files>>

\* set_light_backlight, set_light_buttons: one file.
SetSingle(t, l, file, value) ==
  /\ l \in devices
  /\ Lock(t, "single")
  /\ todo' = [todo EXCEPT ![t] = <<Write(file, value)>>]
  /\ UNCHANGED <<once, devices, lights, files, faulty>>

SetBacklight(t, s) == SetSingle(t, "backlight", LcdFile, RgbToBrightness(s))
SetButtons(t, s) == SetSingle(t, "buttons", ButtonFile, s.color[3])

\* One write_int or write_str; a failed one is not noticed.
WriteFile(t) ==
  /\ todo[t] # <<>>
  /\ LET w == Head(todo[t])
     IN \/ /\ files' = [files EXCEPT ![w.file] = w.value]
           /\ UNCHANGED faulty
        \/ /\ w.file \in FailingFiles
           /\ faulty' = (faulty \/ w.file \in LedFiles)
           /\ UNCHANGED files
  /\ todo' = [todo EXCEPT ![t] = Tail(@)]
  /\ UNCHANGED <<once, devices, g_lock, lights, pc>>

Unlock(t) ==
  /\ pc[t] # "idle"
  /\ todo[t] = <<>>
  /\ g_lock' = NoThread
  /\ pc' = [pc EXCEPT ![t] = "idle"]
  /\ UNCHANGED <<once, devices, lights, files, todo, faulty>>

Next == \/ \E l \in Lights : Open(l)
        \/ \E t \in Threads, s \in States :
             \/ \E l \in LedLights : SetLight(t, l, s)
             \/ SetBacklight(t, s) \/ SetButtons(t, s)
        \/ \E t \in Threads : WriteFile(t) \/ Unlock(t)

Spec == Init /\ [][Next]_vars

-----------------------------------------------------------------------------
(* Properties.                                                             *)

Look(s) == [color |-> LedColor(s),
            blink |-> [c \in Channel |->
                         IF Blinks(s) /\ LedColor(s)[c] # 0 THEN 1 ELSE 0],
            breath |-> [c \in Channel |-> BreathPattern(s)]]

Shown == [color |-> [c \in Channel |-> files[<<c, "brightness">>]],
          blink |-> [c \in Channel |-> files[<<c, "blink">>]],
          breath |-> [c \in Channel |-> files[<<c, "breath">>]]]

\* "Do everything with the lights out, then turn up the brightness" (361): as
\* long as the writes of the update have gone through, patterns change only
\* under a dark LED.
PatternChangesInTheDark ==
  [][\A c \in Channel, f \in {"blink", "breath"} :
       ~faulty /\ files'[<<c, f>>] # files[<<c, f>>] =>
         \A d \in Channel : files[<<d, "brightness">>] = 0]_vars

-----------------------------------------------------------------------------
Updating == \E t \in Threads : pc[t] = "speaker"
Changing == [update |-> TRUE]
Broken == [broken |-> TRUE]

\* The HAL implements the arbiter of LightsQpnp: an update whose writes went
\* through shows the winner, whatever failed before (287-430).  The attention
\* light asks for what it keeps.
Arbiter == INSTANCE LightsArbiter WITH
  States <- Kept,
  Lit <- IsLit,
  shown <- IF Updating THEN Changing ELSE IF faulty THEN Broken ELSE Shown

ImplementsArbiter == Arbiter!Spec
=============================================================================

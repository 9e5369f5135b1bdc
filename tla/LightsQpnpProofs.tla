--------------------------- MODULE LightsQpnpProofs ---------------------------
(***************************************************************************)
(* Proofs about LightsQpnp, for any threads, any requests and any files a  *)
(* write to may fail: one thread updates the LED at a time, what it still  *)
(* has to write is the end of one program, and how far it has come says    *)
(* what the files hold.                                                    *)
(***************************************************************************)
EXTENDS LightsQpnp, SequenceTheorems, TLAPS

Kept == States \cup {Dark}

Values(f) == IF f[2] = "duty_pcts" THEN [1..RAMP_SIZE -> 0..100] ELSE Int
Writes == {w \in [file : Files, value : Int \cup [1..RAMP_SIZE -> 0..100]] :
             w.value \in Values(w.file)}

\* The files of the ramp of a channel, in the order they are written in, and
\* what a blinking request puts there.
Attributes == <<"start_idx", "duty_pcts", "pause_lo", "pause_hi", "ramp_step_ms">>
RampFile(c, j) == <<Colors[c], Attributes[j]>>
RampValue(c, j, s) ==
  << RAMP_SIZE * (c - 1), ScaledDutyPcts(s.color[c]), s.flashOffMS,
     PauseHi(s.flashOnMS), StepDuration(s.flashOnMS) >>[j]
BrightnessFile(c) == <<Colors[c], "brightness">>

\* How many writes an update takes, and how many of them a thread has done.
ProgramLen(s) == IF Blinks(s) THEN 17 ELSE 4
Done(t) == ProgramLen(Winner(lights)) - Len(todo[t])

\* What the files of the LED hold when the first n writes of the program of a
\* state have gone through.
Holds(fs, n, s) ==
  IF Blinks(s)
  THEN /\ n \in 1..16 => fs[BlinkFile] = 0
       /\ n >= 17 => fs[BlinkFile] = 1
       /\ \A c \in 1..3, j \in 1..5 :
            n >= 5 * c - 4 + j => fs[RampFile(c, j)] = RampValue(c, j, s)
  ELSE /\ n >= 1 => fs[BlinkFile] = 0
       /\ \A c \in 1..3 : n >= 1 + c => fs[BrightnessFile(c)] = s.color[c]

DataInv ==
  /\ lights \in [LedLights -> Kept]
  /\ DOMAIN files = Files
  /\ \A f \in Files : files[f] \in Values(f)
  /\ pc \in [Threads -> {"idle", "speaker", "backlight"}]
  /\ todo \in [Threads -> Seq(Writes)]

\* One thread at a time is in a set_light function, with g_lock.
LockInv ==
  /\ \A t \in Threads : pc[t] # "idle" => g_lock = t /\ once
  /\ \A t \in Threads : pc[t] = "idle" => todo[t] = <<>>
  /\ devices # {} => once
  /\ ~once => g_lock = NoThread

\* A thread that updates the LED still has the end of the program to write.
TodoInv ==
  \A t \in Threads :
    /\ pc[t] = "backlight" =>
         \A i \in 1..Len(todo[t]) : todo[t][i].file = LcdFile
    /\ pc[t] = "speaker" =>
         /\ Len(todo[t]) <= ProgramLen(Winner(lights))
         /\ \A i \in 1..Len(todo[t]) :
              todo[t][i] = SpeakerWrites(Winner(lights))[Done(t) + i]

\* The files hold what the program has written so far.
FilesInv ==
  ~faulty =>
    /\ \A t \in Threads :
         pc[t] = "speaker" => Holds(files, Done(t), Winner(lights))
    /\ ~Updating => Holds(files, ProgramLen(Winner(lights)), Winner(lights))

IInv == TypeOK /\ DataInv /\ LockInv /\ TodoInv /\ FilesInv

-----------------------------------------------------------------------------
(* Requests and files.                                                     *)

LEMMA KeptIs ==
  ASSUME NEW s \in Kept
  PROVE  s \in LightState
<1>1. Dark \in LightState
  BY DEF Dark, LightState
<1> QED BY <1>1, StatesAssumption DEF Kept

\* The light that wins is one of the requests.
LEMMA WinnerIs ==
  ASSUME NEW ls \in [LedLights -> Kept]
  PROVE  Winner(ls) \in Kept
BY DEF Winner, LedLights

LEMMA DutyType ==
  ASSUME NEW b \in 0..255
  PROVE  ScaledDutyPcts(b) \in [1..RAMP_SIZE -> 0..100]
<1>1. \A i \in 1..8 : BRIGHTNESS_RAMP[i] \in 0..100
  BY DEF BRIGHTNESS_RAMP
<1>2. \A r \in 0..100 : (r * b) \div 255 \in 0..100
  <2> SUFFICES ASSUME NEW r \in 0..100
               PROVE  (r * b) \div 255 \in 0..100
    OBVIOUS
  <2>1. r * b \in Nat /\ (100 - r) * b >= 0
    OBVIOUS
  <2>2. r * b <= 25500
    BY <2>1
  <2>3. \A p \in Nat : p <= 25500 => p \div 255 \in 0..100
    OBVIOUS
  <2>4. PICK p \in Nat : p = r * b /\ p <= 25500
    BY <2>1, <2>2
  <2>5. p \div 255 \in 0..100
    BY ONLY <2>3, <2>4
  <2> QED BY ONLY <2>4, <2>5
<1> QED BY <1>1, <1>2 DEF ScaledDutyPcts, RAMP_SIZE

\* A pulse takes the time asked for, short of it by less than one turn of the
\* ramp, when it is no longer than the ramp itself.
LEMMA PulseTakes ==
  ASSUME NEW on \in Int, on > 0
  PROVE  /\ PauseHi(on) \in Int /\ StepDuration(on) \in Int
         /\ PauseHi(on) + 2 * RAMP_SIZE * StepDuration(on) <= on
         /\ on - (PauseHi(on) + 2 * RAMP_SIZE * StepDuration(on)) < 2 * RAMP_SIZE
BY DEF PauseHi, StepDuration, RampTooLong, RAMP_SIZE, RAMP_STEP_DURATION

\* The files of the LED are apart from one another.
LEMMA FilesApart ==
  /\ \A c \in 1..3, j \in 1..5 :
       /\ RampFile(c, j) \in Files /\ RampFile(c, j) # BlinkFile
       /\ RampFile(c, j) # LcdFile
       /\ \A d \in 1..3, k \in 1..5 : RampFile(c, j) = RampFile(d, k) => c = d /\ j = k
       /\ \A d \in 1..3 : RampFile(c, j) # BrightnessFile(d)
  /\ \A c \in 1..3 :
       /\ BrightnessFile(c) \in Files /\ BrightnessFile(c) # BlinkFile
       /\ BrightnessFile(c) # LcdFile
       /\ \A d \in 1..3 : BrightnessFile(c) = BrightnessFile(d) => c = d
  /\ BlinkFile \in Files /\ LcdFile \in Files /\ BlinkFile # LcdFile
<1>1. \A c \in 1..3 : /\ Colors[c] \in Channel /\ Colors[c] \notin {"rgb", "lcd-backlight"}
                      /\ \A d \in 1..3 : Colors[c] = Colors[d] => c = d
  BY DEF Colors, Channel
<1>2. \A j \in 1..5 : /\ Attributes[j] \in RampAttributes /\ Attributes[j] # "brightness"
                      /\ \A k \in 1..5 : Attributes[j] = Attributes[k] => j = k
  BY DEF Attributes, RampAttributes
<1> HIDE DEF Colors, Attributes
<1>3. \A c \in 1..3, j \in 1..5 :
       /\ RampFile(c, j) \in Files /\ RampFile(c, j) # BlinkFile
       /\ RampFile(c, j) # LcdFile
       /\ \A d \in 1..3 : RampFile(c, j) # BrightnessFile(d)
  BY <1>1, <1>2 DEF Files, RampFiles, RampFile, BrightnessFile, BlinkFile, LcdFile
<1>4. \A c \in 1..3, j \in 1..5, d \in 1..3, k \in 1..5 :
        RampFile(c, j) = RampFile(d, k) => c = d /\ j = k
  BY <1>1, <1>2 DEF RampFile
<1>5. \A c \in 1..3 :
       /\ BrightnessFile(c) \in Files /\ BrightnessFile(c) # BlinkFile
       /\ BrightnessFile(c) # LcdFile
       /\ \A d \in 1..3 : BrightnessFile(c) = BrightnessFile(d) => c = d
  BY <1>1 DEF Files, BrightnessFile, BlinkFile, LcdFile
<1>6. BlinkFile \in Files /\ LcdFile \in Files /\ BlinkFile # LcdFile
  BY DEF Files, BlinkFile, LcdFile
<1> QED BY <1>3, <1>4, <1>5, <1>6

-----------------------------------------------------------------------------
(* The program of an update.                                               *)

RampWrite(c, j, s) == Write(RampFile(c, j), RampValue(c, j, s))
BrightnessWrite(c, s) == Write(BrightnessFile(c), s.color[c])

LEMMA WriteType ==
  /\ \A v \in Int : Write(BlinkFile, v) \in Writes /\ Write(LcdFile, v) \in Writes
  /\ \A s \in Kept : \A c \in 1..3 :
       /\ BrightnessWrite(c, s) \in Writes
       /\ \A j \in 1..5 : RampWrite(c, j, s) \in Writes
<1>1. \A v \in Int : Write(BlinkFile, v) \in Writes /\ Write(LcdFile, v) \in Writes
  BY FilesApart DEF Write, Writes, Values, BlinkFile, LcdFile
<1>2. ASSUME NEW s \in Kept, NEW c \in 1..3
      PROVE  BrightnessWrite(c, s) \in Writes
  <2>1. s.color[c] \in Int
    BY KeptIs DEF LightState
  <2>2. BrightnessFile(c)[2] = "brightness" /\ BrightnessFile(c) \in Files
    BY FilesApart DEF BrightnessFile
  <2> QED BY <2>1, <2>2 DEF BrightnessWrite, Write, Writes, Values
<1>3. ASSUME NEW s \in Kept, NEW c \in 1..3, NEW j \in 1..5
      PROVE  RampWrite(c, j, s) \in Writes
  <2>1. /\ s.color[c] \in 0..255 /\ s.flashOnMS \in Int /\ s.flashOffMS \in Int
    BY KeptIs DEF LightState
  <2>2. RampFile(c, j)[2] = Attributes[j] /\ RampFile(c, j) \in Files
    BY FilesApart DEF RampFile
  <2>3. ScaledDutyPcts(s.color[c]) \in [1..RAMP_SIZE -> 0..100]
    BY <2>1, DutyType
  <2>4. PauseHi(s.flashOnMS) \in Int /\ StepDuration(s.flashOnMS) \in Int
    BY <2>1 DEF PauseHi, StepDuration, RAMP_SIZE, RAMP_STEP_DURATION
  <2>5. RAMP_SIZE * (c - 1) \in Int
    BY DEF RAMP_SIZE
  <2>6. Attributes[j] = "duty_pcts" <=> j = 2
    BY DEF Attributes
  <2>7. RampValue(c, j, s) \in IF j = 2 THEN [1..RAMP_SIZE -> 0..100] ELSE Int
    <3>1. /\ RampValue(c, 1, s) \in Int
          /\ RampValue(c, 2, s) \in [1..RAMP_SIZE -> 0..100]
          /\ RampValue(c, 3, s) \in Int
          /\ RampValue(c, 4, s) \in Int
          /\ RampValue(c, 5, s) \in Int
      BY <2>1, <2>3, <2>4, <2>5 DEF RampValue
    <3>2. j = 1 \/ j = 2 \/ j = 3 \/ j = 4 \/ j = 5
      OBVIOUS
    <3> QED BY <3>1, <3>2
  <2> HIDE DEF RampFile, RampValue, Attributes
  <2> QED BY <2>2, <2>6, <2>7 DEF RampWrite, Write, Writes, Values
<1> QED BY <1>1, <1>2, <1>3

\* Two pieces of a program make one.
LEMMA Joined ==
  ASSUME NEW p \in Seq(Writes), NEW q \in Seq(Writes),
         NEW m \in Nat, NEW k \in Nat, Len(p) = m, Len(q) = k
  PROVE  /\ p \o q \in Seq(Writes) /\ Len(p \o q) = m + k
         /\ \A i \in 1..m : (p \o q)[i] = p[i]
         /\ \A i \in 1..k : (p \o q)[m + i] = q[i]
<1>1. /\ p \o q \in Seq(Writes) /\ Len(p \o q) = m + k
      /\ \A i \in 1..(m + k) : (p \o q)[i] = IF i <= m THEN p[i] ELSE q[i - m]
  BY ConcatProperties
<1>2. \A i \in 1..m : (p \o q)[i] = p[i]
  BY <1>1
<1>3. ASSUME NEW i \in 1..k
      PROVE  (p \o q)[m + i] = q[i]
  <2>1. m + i \in 1..(m + k) /\ ~(m + i <= m) /\ (m + i) - m = i
    OBVIOUS
  <2>2. (p \o q)[m + i] = q[(m + i) - m]
    BY <1>1, <2>1
  <2> QED BY <2>1, <2>2
<1> QED BY <1>1, <1>2, <1>3

Joins(r, p, q) ==
  /\ r \in Seq(Writes) /\ Len(r) = Len(p) + Len(q)
  /\ \A i \in 1..Len(p) : r[i] = p[i]
  /\ \A i \in 1..Len(q) : r[Len(p) + i] = q[i]

LEMMA JoinedIs ==
  ASSUME NEW p \in Seq(Writes), NEW q \in Seq(Writes)
  PROVE  Joins(p \o q, p, q)
<1>1. Len(p) \in Nat /\ Len(q) \in Nat
  BY LenProperties
<1> QED BY <1>1, Joined, Zenon DEF Joins

\* Blinking: off, fifteen files of the ramps, on.
LEMMA BlinkProgram ==
  ASSUME NEW s \in Kept, Blinks(s)
  PROVE  /\ SpeakerWrites(s) \in Seq(Writes) /\ Len(SpeakerWrites(s)) = 17
         /\ SpeakerWrites(s)[1] = Write(BlinkFile, 0)
         /\ SpeakerWrites(s)[17] = Write(BlinkFile, 1)
         /\ \A c \in 1..3, j \in 1..5 : SpeakerWrites(s)[5 * c - 4 + j] = RampWrite(c, j, s)
<1> DEFINE R(c) == RampWrites(c, s)
           off == <<Write(BlinkFile, 0)>>
           on == <<Write(BlinkFile, 1)>>
           p2 == R(1) \o R(2)
           p3 == p2 \o R(3)
           p4 == p3 \o on
           p5 == off \o p4
<1>1. \A c \in 1..3 : /\ R(c) \in Seq(Writes) /\ Len(R(c)) = 5
                      /\ \A j \in 1..5 : R(c)[j] = RampWrite(c, j, s)
  <2> SUFFICES ASSUME NEW c \in 1..3
               PROVE  /\ R(c) \in Seq(Writes) /\ Len(R(c)) = 5
                      /\ \A j \in 1..5 : R(c)[j] = RampWrite(c, j, s)
    OBVIOUS
  <2>1. R(c) = << RampWrite(c, 1, s), RampWrite(c, 2, s), RampWrite(c, 3, s),
                  RampWrite(c, 4, s), RampWrite(c, 5, s) >>
    BY DEF RampWrites, RampWrite, RampFile, RampValue, Attributes
  <2>2. /\ RampWrite(c, 1, s) \in Writes /\ RampWrite(c, 2, s) \in Writes
        /\ RampWrite(c, 3, s) \in Writes /\ RampWrite(c, 4, s) \in Writes
        /\ RampWrite(c, 5, s) \in Writes
    BY WriteType
  <2> HIDE DEF R
  <2> QED BY <2>1, <2>2
<1> HIDE DEF R
<1>2. /\ off \in Seq(Writes) /\ Len(off) = 1 /\ off[1] = Write(BlinkFile, 0)
      /\ on \in Seq(Writes) /\ Len(on) = 1 /\ on[1] = Write(BlinkFile, 1)
  BY WriteType
<1> HIDE DEF off, on
<1>3. /\ R(1) \in Seq(Writes) /\ Len(R(1)) = 5
      /\ R(2) \in Seq(Writes) /\ Len(R(2)) = 5
      /\ R(3) \in Seq(Writes) /\ Len(R(3)) = 5
  BY <1>1
<1>4. /\ p2 \in Seq(Writes) /\ Len(p2) = 10
      /\ \A i \in 1..5 : p2[i] = R(1)[i]
      /\ \A i \in 1..5 : p2[5 + i] = R(2)[i]
  <2>0. /\ R(1) \in Seq(Writes) /\ Len(R(1)) = 5 /\ 5 \in Nat
        /\ R(2) \in Seq(Writes) /\ Len(R(2)) = 5 /\ 5 \in Nat
    BY <1>3
  <2>1. /\ p2 \in Seq(Writes) /\ Len(p2) = 5 + 5
        /\ \A i \in 1..5 : p2[i] = R(1)[i]
        /\ \A i \in 1..5 : p2[5 + i] = R(2)[i]
    BY ONLY <2>0, Joined, Zenon
  <2> HIDE DEF p2
  <2> QED BY <2>1
<1> HIDE DEF p2
<1>5. /\ p3 \in Seq(Writes) /\ Len(p3) = 15
      /\ \A i \in 1..10 : p3[i] = p2[i]
      /\ \A i \in 1..5 : p3[10 + i] = R(3)[i]
  <2>0. /\ p2 \in Seq(Writes) /\ Len(p2) = 10 /\ 10 \in Nat
        /\ R(3) \in Seq(Writes) /\ Len(R(3)) = 5 /\ 5 \in Nat
    BY <1>3, <1>4
  <2>1. /\ p3 \in Seq(Writes) /\ Len(p3) = 10 + 5
        /\ \A i \in 1..10 : p3[i] = p2[i]
        /\ \A i \in 1..5 : p3[10 + i] = R(3)[i]
    BY ONLY <2>0, Joined, Zenon
  <2> HIDE DEF p3
  <2> QED BY <2>1
<1> HIDE DEF p3
<1>6. /\ p4 \in Seq(Writes) /\ Len(p4) = 16
      /\ \A i \in 1..15 : p4[i] = p3[i]
      /\ p4[16] = on[1]
  <2>1. Joins(p4, p3, on)
    BY <1>2, <1>5, JoinedIs
  <2> HIDE DEF p4
  <2>2. Len(p3) = 15 /\ Len(on) = 1
    BY <1>2, <1>5
  <2>3. /\ p4 \in Seq(Writes) /\ Len(p4) = 16
        /\ \A i \in 1..15 : p4[i] = p3[i]
    BY ONLY <2>1, <2>2 DEF Joins
  <2>4. p4[Len(p3) + 1] = on[1]
    <3>1. 1 \in 1..Len(on)
      BY <2>2
    <3> QED BY ONLY <2>1, <3>1 DEF Joins
  <2> QED BY <2>2, <2>3, <2>4
<1> HIDE DEF p4
<1>7. /\ p5 \in Seq(Writes) /\ Len(p5) = 17
      /\ p5[1] = off[1]
      /\ \A i \in 1..16 : p5[1 + i] = p4[i]
  <2>1. Joins(p5, off, p4)
    BY <1>2, <1>6, JoinedIs
  <2> HIDE DEF p5
  <2>2. Len(off) = 1 /\ Len(p4) = 16
    BY <1>2, <1>6
  <2> QED BY ONLY <2>1, <2>2 DEF Joins
<1>8. SpeakerWrites(s) = p5
  BY DEF SpeakerWrites, R, off, on, p2, p3, p4
<1> HIDE DEF p5
<1>9. p5[17] = Write(BlinkFile, 1)
  <2>1. p5[1 + 16] = p4[16]
    BY <1>7
  <2> QED BY <1>2, <1>6, <2>1
<1>10. ASSUME NEW c \in 1..3, NEW j \in 1..5
       PROVE  p5[5 * c - 4 + j] = RampWrite(c, j, s)
  <2>1. R(c)[j] = RampWrite(c, j, s)
    BY <1>1
  <2>2. p5[1 + (5 * c - 5 + j)] = p3[5 * c - 5 + j]
    <3>1. 5 * c - 5 + j \in 1..15 /\ 5 * c - 5 + j \in 1..16
      OBVIOUS
    <3> QED BY <1>6, <1>7, <3>1
  <2>3. p3[5 * c - 5 + j] = R(c)[j]
    <3>1. CASE c = 1
      <4>1. 5 * c - 5 + j = j /\ j \in 1..10
        BY <3>1
      <4> QED BY <1>4, <1>5, <3>1, <4>1
    <3>2. CASE c = 2
      <4>1. 5 * c - 5 + j = 5 + j /\ 5 + j \in 1..10
        BY <3>2
      <4> QED BY <1>4, <1>5, <3>2, <4>1
    <3>3. CASE c = 3
      <4>1. 5 * c - 5 + j = 10 + j
        BY <3>3
      <4> QED BY <1>5, <3>3, <4>1
    <3> QED BY <3>1, <3>2, <3>3
  <2>4. 5 * c - 4 + j = 1 + (5 * c - 5 + j)
    OBVIOUS
  <2> QED BY <2>1, <2>2, <2>3, <2>4
<1> QED BY <1>2, <1>7, <1>8, <1>9, <1>10

\* Steady: off, and the brightness of the three channels.
LEMMA SteadyProgram ==
  ASSUME NEW s \in Kept, ~Blinks(s)
  PROVE  /\ SpeakerWrites(s) \in Seq(Writes) /\ Len(SpeakerWrites(s)) = 4
         /\ SpeakerWrites(s)[1] = Write(BlinkFile, 0)
         /\ \A c \in 1..3 : SpeakerWrites(s)[1 + c] = BrightnessWrite(c, s)
<1> DEFINE off == <<Write(BlinkFile, 0)>>
           p == off \o BrightnessWrites(s)
<1>1. /\ BrightnessWrites(s) \in Seq(Writes) /\ Len(BrightnessWrites(s)) = 3
      /\ \A c \in 1..3 : BrightnessWrites(s)[c] = BrightnessWrite(c, s)
  <2>1. BrightnessWrites(s) = [c \in 1..3 |-> BrightnessWrite(c, s)]
    BY DEF BrightnessWrites, BrightnessWrite, BrightnessFile
  <2>2. BrightnessWrites(s) \in [1..3 -> Writes]
    BY <2>1, WriteType
  <2>3. BrightnessWrites(s) \in Seq(Writes)
    BY <2>2, SeqDef
  <2>4. /\ DOMAIN BrightnessWrites(s) = 1..3 /\ Len(BrightnessWrites(s)) \in Nat
        /\ DOMAIN BrightnessWrites(s) = 1..Len(BrightnessWrites(s))
    BY <2>2, <2>3, LenProperties
  <2> QED BY <2>1, <2>3, <2>4
<1>2. off \in Seq(Writes) /\ Len(off) = 1 /\ off[1] = Write(BlinkFile, 0)
  BY WriteType
<1> HIDE DEF off
<1>3. /\ p \in Seq(Writes) /\ Len(p) = 1 + 3
      /\ \A i \in 1..1 : p[i] = off[i]
      /\ \A i \in 1..3 : p[1 + i] = BrightnessWrites(s)[i]
  BY ONLY <1>1, <1>2, Joined, 1 \in Nat, 3 \in Nat, Zenon
<1>4. SpeakerWrites(s) = p
  BY DEF SpeakerWrites, off
<1> HIDE DEF p
<1> QED BY <1>1, <1>2, <1>3, <1>4

LEMMA ProgramType ==
  ASSUME NEW s \in Kept
  PROVE  /\ SpeakerWrites(s) \in Seq(Writes) /\ Len(SpeakerWrites(s)) = ProgramLen(s)
         /\ ProgramLen(s) \in 1..17
BY BlinkProgram, SteadyProgram DEF ProgramLen

\* Which of its program a write is.
LEMMA WhichWrite ==
  ASSUME NEW s \in Kept, NEW n \in Nat, n < ProgramLen(s)
  PROVE  \/ n = 0 /\ SpeakerWrites(s)[n + 1] = Write(BlinkFile, 0)
         \/ Blinks(s) /\ n = 16 /\ SpeakerWrites(s)[n + 1] = Write(BlinkFile, 1)
         \/ /\ Blinks(s)
            /\ \E c \in 1..3, j \in 1..5 :
                 /\ n + 1 = 5 * c - 4 + j
                 /\ SpeakerWrites(s)[n + 1] = RampWrite(c, j, s)
         \/ /\ ~Blinks(s)
            /\ \E c \in 1..3 : /\ n + 1 = 1 + c
                               /\ SpeakerWrites(s)[n + 1] = BrightnessWrite(c, s)
<1> DEFINE P == SpeakerWrites(s)
<1>1. CASE Blinks(s)
  <2>1. /\ P[1] = Write(BlinkFile, 0) /\ P[17] = Write(BlinkFile, 1)
        /\ \A c \in 1..3, j \in 1..5 : P[5 * c - 4 + j] = RampWrite(c, j, s)
    BY <1>1, BlinkProgram
  <2> HIDE DEF P
  <2>2. n \in 0..16
    BY <1>1 DEF ProgramLen
  <2>3. CASE n = 0 \/ n = 16
    BY <1>1, <2>1, <2>3 DEF P
  <2>4. CASE n \in 1..15
    <3>1. \E c \in 1..3, j \in 1..5 : n + 1 = 5 * c - 4 + j
      <4>1. CASE n \in 1..5
        <5>1. n \in 1..5 /\ n + 1 = 5 * 1 - 4 + n
          BY <4>1
        <5> QED BY <5>1, 1 \in 1..3
      <4>2. CASE n \in 6..10
        <5>1. n - 5 \in 1..5 /\ n + 1 = 5 * 2 - 4 + (n - 5)
          BY <4>2
        <5> QED BY <5>1, 2 \in 1..3
      <4>3. CASE n \in 11..15
        <5>1. n - 10 \in 1..5 /\ n + 1 = 5 * 3 - 4 + (n - 10)
          BY <4>3
        <5> QED BY <5>1, 3 \in 1..3
      <4> QED BY <2>4, <4>1, <4>2, <4>3
    <3>2. PICK c \in 1..3, j \in 1..5 : n + 1 = 5 * c - 4 + j
      BY <3>1
    <3>3. P[n + 1] = RampWrite(c, j, s)
      BY <2>1, <3>2
    <3> QED BY <1>1, <3>2, <3>3 DEF P
  <2> QED BY <2>2, <2>3, <2>4
<1>2. CASE ~Blinks(s)
  <2>1. /\ P[1] = Write(BlinkFile, 0)
        /\ \A c \in 1..3 : P[1 + c] = BrightnessWrite(c, s)
    BY <1>2, SteadyProgram
  <2> HIDE DEF P
  <2>2. n \in 0..3
    BY <1>2 DEF ProgramLen
  <2>3. CASE n = 0
    BY <2>1, <2>3 DEF P
  <2>4. CASE n \in 1..3
    <3>1. n + 1 = 1 + n /\ P[n + 1] = BrightnessWrite(n, s)
      BY <2>1, <2>4
    <3> QED BY <1>2, <2>4, <3>1 DEF P
  <2> QED BY <2>2, <2>3, <2>4
<1> QED BY <1>1, <1>2

\* One more write that goes through.
LEMMA OneMore ==
  ASSUME NEW s \in Kept, NEW n \in Nat, n < ProgramLen(s),
         NEW fs, DOMAIN fs = Files, Holds(fs, n, s)
  PROVE  Holds([fs EXCEPT ![SpeakerWrites(s)[n + 1].file] = SpeakerWrites(s)[n + 1].value],
               n + 1, s)
<1> DEFINE w == SpeakerWrites(s)[n + 1]
           gs == [fs EXCEPT ![w.file] = w.value]
<1>0. \/ n = 0 /\ w = Write(BlinkFile, 0)
      \/ Blinks(s) /\ n = 16 /\ w = Write(BlinkFile, 1)
      \/ /\ Blinks(s)
         /\ \E c \in 1..3, j \in 1..5 : n + 1 = 5 * c - 4 + j /\ w = RampWrite(c, j, s)
      \/ /\ ~Blinks(s)
         /\ \E c \in 1..3 : n + 1 = 1 + c /\ w = BrightnessWrite(c, s)
  BY WhichWrite
<1> HIDE DEF w
<1>1. \A f \in Files : gs[f] = IF f = w.file THEN w.value ELSE fs[f]
  OBVIOUS
<1> HIDE DEF gs
<1>b. BlinkFile \in Files
  BY FilesApart
<1>2. CASE Blinks(s)
  <2>1. /\ n \in 1..16 => fs[BlinkFile] = 0
        /\ \A c \in 1..3, j \in 1..5 :
             n >= 5 * c - 4 + j => fs[RampFile(c, j)] = RampValue(c, j, s)
    BY <1>2 DEF Holds
  <2>2. n \in 0..16
    BY <1>2 DEF ProgramLen
  <2>3. CASE w.file = BlinkFile /\ ((n = 0 /\ w.value = 0) \/ (n = 16 /\ w.value = 1))
    <3>1. \A c \in 1..3, j \in 1..5 : gs[RampFile(c, j)] = fs[RampFile(c, j)]
      BY <1>1, <2>3, FilesApart
    <3>2. gs[BlinkFile] = w.value
      BY <1>1, <1>b, <2>3
    <3>3. \A c \in 1..3, j \in 1..5 :
            n + 1 >= 5 * c - 4 + j => gs[RampFile(c, j)] = RampValue(c, j, s)
      <4> SUFFICES ASSUME NEW c \in 1..3, NEW j \in 1..5, n + 1 >= 5 * c - 4 + j
                   PROVE  gs[RampFile(c, j)] = RampValue(c, j, s)
        OBVIOUS
      <4>1. n >= 5 * c - 4 + j
        BY <2>3
      <4> QED BY <2>1, <3>1, <4>1
    <3>4. /\ n + 1 \in 1..16 => gs[BlinkFile] = 0
          /\ n + 1 >= 17 => gs[BlinkFile] = 1
      BY <2>3, <3>2
    <3> QED BY <1>2, <3>3, <3>4 DEF Holds, gs, w
  <2>4. ASSUME NEW c \in 1..3, NEW j \in 1..5, n + 1 = 5 * c - 4 + j, w = RampWrite(c, j, s)
        PROVE  Holds(gs, n + 1, s)
    <3>1. w.file = RampFile(c, j) /\ w.value = RampValue(c, j, s)
      BY <2>4 DEF RampWrite, Write
    <3>2. gs[BlinkFile] = fs[BlinkFile]
      BY <1>1, <1>b, <3>1, FilesApart
    <3>3. /\ n + 1 \in 1..16 => gs[BlinkFile] = 0
          /\ n + 1 >= 17 => gs[BlinkFile] = 1
      <4>1. n \in 1..15
        BY <2>4
      <4> QED BY <2>1, <3>2, <4>1
    <3>4. ASSUME NEW d \in 1..3, NEW k \in 1..5, n + 1 >= 5 * d - 4 + k
          PROVE  gs[RampFile(d, k)] = RampValue(d, k, s)
      <4>1. CASE d = c /\ k = j
        BY <1>1, <3>1, <4>1, FilesApart
      <4>2. CASE ~(d = c /\ k = j)
        <5>1. RampFile(d, k) # RampFile(c, j) /\ RampFile(d, k) \in Files
          BY <4>2, FilesApart
        <5>2. gs[RampFile(d, k)] = fs[RampFile(d, k)]
          BY <1>1, <3>1, <5>1
        <5>3. 5 * d - 4 + k # n + 1
          <6>1. ASSUME 5 * d - 4 + k = 5 * c - 4 + j
                PROVE  d = c /\ k = j
            BY <6>1
          <6> QED BY <2>4, <4>2, <6>1
        <5>4. n >= 5 * d - 4 + k
          BY <3>4, <5>3
        <5> QED BY <2>1, <5>2, <5>4
      <4> QED BY <4>1, <4>2
    <3> QED BY <1>2, <3>3, <3>4 DEF Holds
  <2>5. \/ w.file = BlinkFile /\ ((n = 0 /\ w.value = 0) \/ (n = 16 /\ w.value = 1))
        \/ \E c \in 1..3, j \in 1..5 : n + 1 = 5 * c - 4 + j /\ w = RampWrite(c, j, s)
    <3>1. \A v : Write(BlinkFile, v).file = BlinkFile /\ Write(BlinkFile, v).value = v
      BY DEF Write
    <3>2. CASE n = 0 /\ w = Write(BlinkFile, 0)
      BY <3>1, <3>2
    <3>3. CASE n = 16 /\ w = Write(BlinkFile, 1)
      BY <3>1, <3>3
    <3> QED BY <1>0, <1>2, <3>2, <3>3
  <2> QED BY <2>3, <2>4, <2>5 DEF gs, w
<1>3. CASE ~Blinks(s)
  <2>1. /\ n >= 1 => fs[BlinkFile] = 0
        /\ \A c \in 1..3 : n >= 1 + c => fs[BrightnessFile(c)] = s.color[c]
    BY <1>3 DEF Holds
  <2>2. CASE n = 0 /\ w = Write(BlinkFile, 0)
    <3>1. gs[BlinkFile] = 0
      BY <1>1, <1>b, <2>2 DEF Write
    <3>2. \A c \in 1..3 : ~(n + 1 >= 1 + c)
      BY <2>2
    <3> QED BY <1>3, <3>1, <3>2 DEF Holds, gs, w
  <2>3. ASSUME NEW c \in 1..3, n + 1 = 1 + c, w = BrightnessWrite(c, s)
        PROVE  Holds(gs, n + 1, s)
    <3>1. w.file = BrightnessFile(c) /\ w.value = s.color[c]
      BY <2>3 DEF BrightnessWrite, Write
    <3>2. gs[BlinkFile] = 0
      <4>1. n >= 1
        BY <2>3
      <4> QED BY <1>1, <1>b, <2>1, <3>1, <4>1, FilesApart
    <3>3. ASSUME NEW d \in 1..3, n + 1 >= 1 + d
          PROVE  gs[BrightnessFile(d)] = s.color[d]
      <4>1. CASE d = c
        BY <1>1, <3>1, <4>1, FilesApart
      <4>2. CASE d # c
        <5>1. BrightnessFile(d) # BrightnessFile(c) /\ BrightnessFile(d) \in Files
          BY <4>2, FilesApart
        <5>2. n >= 1 + d
          BY <2>3, <3>3, <4>2
        <5> QED BY <1>1, <2>1, <3>1, <5>1, <5>2
      <4> QED BY <4>1, <4>2
    <3> QED BY <1>3, <3>2, <3>3 DEF Holds
  <2> QED BY <1>0, <1>3, <2>2, <2>3 DEF gs, w
<1> QED BY <1>2, <1>3

\* When all has gone through, the LED shows the request.
LEMMA AllHolds ==
  ASSUME NEW s \in Kept, Holds(files, ProgramLen(s), s)
  PROVE  Shown = Look(s) /\ (files[BlinkFile] = 1 <=> Blinks(s))
<1>1. CASE Blinks(s)
  <2>1. /\ files[BlinkFile] = 1
        /\ \A c \in 1..3, j \in 1..5 : files[RampFile(c, j)] = RampValue(c, j, s)
    BY <1>1 DEF Holds, ProgramLen
  <2> DEFINE A(h) == << files[<<h, "start_idx">>], files[<<h, "duty_pcts">>],
                        files[<<h, "pause_lo">>], files[<<h, "pause_hi">>],
                        files[<<h, "ramp_step_ms">>] >>
             B(h) == LET k == CHOOSE k \in 1..3 : Colors[k] = h IN
                     << RAMP_SIZE * (k - 1), ScaledDutyPcts(s.color[k]),
                        s.flashOffMS, PauseHi(s.flashOnMS), StepDuration(s.flashOnMS) >>
  <2>2. ASSUME NEW h \in Channel
        PROVE  A(h) = B(h)
    <3> DEFINE k == CHOOSE k \in 1..3 : Colors[k] = h
    <3>1. k \in 1..3 /\ Colors[k] = h
      BY DEF Channel
    <3> HIDE DEF k
    <3>2. /\ files[RampFile(k, 1)] = RampValue(k, 1, s)
          /\ files[RampFile(k, 2)] = RampValue(k, 2, s)
          /\ files[RampFile(k, 3)] = RampValue(k, 3, s)
          /\ files[RampFile(k, 4)] = RampValue(k, 4, s)
          /\ files[RampFile(k, 5)] = RampValue(k, 5, s)
      BY <2>1, <3>1
    <3>3. /\ RampFile(k, 1) = <<h, "start_idx">> /\ RampFile(k, 2) = <<h, "duty_pcts">>
          /\ RampFile(k, 3) = <<h, "pause_lo">> /\ RampFile(k, 4) = <<h, "pause_hi">>
          /\ RampFile(k, 5) = <<h, "ramp_step_ms">>
      BY <3>1 DEF RampFile, Attributes
    <3>4. /\ RampValue(k, 1, s) = RAMP_SIZE * (k - 1)
          /\ RampValue(k, 2, s) = ScaledDutyPcts(s.color[k])
          /\ RampValue(k, 3, s) = s.flashOffMS
          /\ RampValue(k, 4, s) = PauseHi(s.flashOnMS)
          /\ RampValue(k, 5, s) = StepDuration(s.flashOnMS)
      BY DEF RampValue
    <3>5. << files[<<h, "start_idx">>], files[<<h, "duty_pcts">>],
             files[<<h, "pause_lo">>], files[<<h, "pause_hi">>],
             files[<<h, "ramp_step_ms">>] >>
            = << RAMP_SIZE * (k - 1), ScaledDutyPcts(s.color[k]),
                 s.flashOffMS, PauseHi(s.flashOnMS), StepDuration(s.flashOnMS) >>
      BY ONLY <3>2, <3>3, <3>4
    <3> QED BY <3>5 DEF k
  <2>3. Shown = [blink |-> TRUE, ramp |-> [h \in Channel |-> A(h)]]
    BY <2>1 DEF Shown
  <2>4. Look(s) = [blink |-> TRUE, ramp |-> [h \in Channel |-> B(h)]]
    BY <1>1 DEF Look
  <2> HIDE DEF A, B
  <2>5. [h \in Channel |-> A(h)] = [h \in Channel |-> B(h)]
    BY <2>2
  <2>6. Shown = Look(s)
    BY ONLY <2>3, <2>4, <2>5
  <2> QED BY <1>1, <2>1, <2>6
<1>2. CASE ~Blinks(s)
  <2>1. /\ files[BlinkFile] = 0
        /\ \A c \in 1..3 : files[BrightnessFile(c)] = s.color[c]
    BY <1>2 DEF Holds, ProgramLen
  <2>2. s.color = [c \in 1..3 |-> s.color[c]]
    BY KeptIs DEF LightState
  <2>3. [c \in 1..3 |-> files[<<Colors[c], "brightness">>]] = s.color
    BY <2>1, <2>2 DEF BrightnessFile
  <2>4. Shown = [blink |-> FALSE, color |-> [c \in 1..3 |-> files[<<Colors[c], "brightness">>]]]
    BY <2>1 DEF Shown
  <2>5. Look(s) = [blink |-> FALSE, color |-> s.color]
    BY <1>2 DEF Look
  <2>6. Shown = Look(s)
    BY ONLY <2>3, <2>4, <2>5
  <2>7. files[BlinkFile] # 1
    BY <2>1
  <2> QED BY <1>2, <2>6, <2>7
<1> QED BY <1>1, <1>2

-----------------------------------------------------------------------------
(* The steps.                                                              *)

\* Two threads inside set_light functions are one.
LEMMA OneInside ==
  ASSUME LockInv, NEW t \in Threads, NEW u \in Threads, pc[t] # "idle", pc[u] # "idle"
  PROVE  t = u
BY DEF LockInv

\* Whoever waits for g_lock finds nobody inside.
LEMMA NobodyInside ==
  ASSUME LockInv, g_lock = NoThread, NEW t \in Threads
  PROVE  pc[t] = "idle"
BY ThreadsAssumption DEF LockInv

Scalars == /\ once \in BOOLEAN /\ devices \subseteq Lights
           /\ g_lock \in Threads \cup {NoThread} /\ faulty \in BOOLEAN

LEMMA TypeFromData == DataInv /\ Scalars => TypeOK
<1> SUFFICES ASSUME DataInv, Scalars
             PROVE  TypeOK
  OBVIOUS
<1>1. \A f \in Files : IF f[2] = "duty_pcts" THEN files[f] \in [1..RAMP_SIZE -> 0..100]
                                             ELSE files[f] \in Int
  BY DEF DataInv, Values
<1>2. \A t \in Threads : \A i \in DOMAIN todo[t] : todo[t][i].file \in Files
  <2> SUFFICES ASSUME NEW t \in Threads, NEW i \in DOMAIN todo[t]
               PROVE  todo[t][i].file \in Files
    OBVIOUS
  <2>1. todo[t] \in Seq(Writes)
    BY DEF DataInv
  <2>2. todo[t][i] \in Writes
    BY <2>1, LenProperties
  <2> QED BY <2>2 DEF Writes
<1> QED BY <1>1, <1>2 DEF DataInv, Scalars, TypeOK, Kept

LEMMA TypeFromDataNext == DataInv' /\ Scalars' => TypeOK'
BY TypeFromData, PTL

\* A write of the list of a thread, and the rest of the list.
LEMMA HeadAndTail ==
  ASSUME NEW q \in Seq(Writes), q # <<>>
  PROVE  /\ Head(q) \in Writes /\ Head(q) = q[1] /\ Len(q) \in Nat \ {0}
         /\ Tail(q) \in Seq(Writes) /\ Len(Tail(q)) = Len(q) - 1
         /\ \A i \in 1..Len(Tail(q)) : Tail(q)[i] = q[i + 1]
<1>1. /\ Head(q) \in Writes /\ Tail(q) \in Seq(Writes) /\ Len(Tail(q)) = Len(q) - 1
      /\ \A i \in 1..Len(Tail(q)) : Tail(q)[i] = q[i + 1]
  BY HeadTailProperties
<1>2. Len(q) \in Nat \ {0}
  BY EmptySeq
<1> QED BY <1>1, <1>2

LEMMA InitInv == Init => IInv
<1> SUFFICES ASSUME Init
             PROVE  IInv
  OBVIOUS
<1> USE DEF Init
<1>1. DataInv
  <2>1. \A f \in Files : files[f] \in Values(f)
    <3>1. ScaledDutyPcts(0) \in [1..RAMP_SIZE -> 0..100]
      BY DutyType
    <3> QED BY <3>1 DEF Values
  <2>2. todo \in [Threads -> Seq(Writes)]
    BY EmptySeq
  <2> QED BY <2>1, <2>2 DEF DataInv, Kept
<1>2. TypeOK
  BY <1>1, TypeFromData DEF Scalars
<1>3. LockInv /\ TodoInv /\ ~Updating
  BY DEF LockInv, TodoInv, Updating
<1>4. Winner(lights) = Dark
  BY DEF Winner, LedLights
<1>5. Holds(files, ProgramLen(Dark), Dark)
  <2>1. ~Blinks(Dark) /\ \A c \in 1..3 : Dark.color[c] = 0
    BY DEF Blinks, Dark
  <2>2. files[BlinkFile] = 0 /\ \A c \in 1..3 : files[BrightnessFile(c)] = 0
    <3>1. /\ BlinkFile \in Files /\ BlinkFile[2] = "rgb_blink"
          /\ \A c \in 1..3 : /\ BrightnessFile(c) \in Files
                             /\ BrightnessFile(c)[2] = "brightness"
      BY FilesApart DEF BlinkFile, BrightnessFile
    <3> QED BY <3>1
  <2> QED BY <2>1, <2>2 DEF Holds
<1> QED BY <1>1, <1>2, <1>3, <1>4, <1>5 DEF IInv, FilesInv

LEMMA OpenStep ==
  ASSUME IInv, NEW l \in Lights, Open(l)
  PROVE  IInv'
<1> USE DEF Open, IInv
<1>1. DataInv'
  BY DEF DataInv
<1>2. LockInv'
  BY DEF LockInv
<1>3. TypeOK'
  BY DEF TypeOK
<1>4. TodoInv'
  BY DEF TodoInv, Done
<1>5. FilesInv'
  BY DEF FilesInv, Updating, Done
<1> QED BY <1>1, <1>2, <1>3, <1>4, <1>5

LEMMA SetLightStep ==
  ASSUME IInv, NEW t \in Threads, NEW l \in LedLights, NEW s \in States, SetLight(t, l, s)
  PROVE  /\ IInv'
         /\ lights' = [lights EXCEPT ![l] = s]
         /\ ~Updating /\ Updating'
<1> USE DEF IInv
<1>1. /\ l \in devices /\ pc[t] = "idle" /\ g_lock = NoThread /\ g_lock' = t
      /\ pc' = [pc EXCEPT ![t] = "speaker"]
      /\ lights' = [lights EXCEPT ![l] = s]
      /\ todo' = [todo EXCEPT ![t] = SpeakerWrites(Winner(lights'))]
      /\ faulty' = FALSE /\ UNCHANGED <<once, devices, files>>
  BY DEF SetLight, Lock
<1> DEFINE w == Winner(lights')
<1>2. lights' \in [LedLights -> Kept]
  BY <1>1 DEF DataInv, Kept
<1>3. w \in Kept
  BY <1>2, WinnerIs
<1>4. /\ SpeakerWrites(w) \in Seq(Writes) /\ Len(SpeakerWrites(w)) = ProgramLen(w)
      /\ ProgramLen(w) \in 1..17
  BY <1>3, ProgramType
<1>5. todo' = [todo EXCEPT ![t] = SpeakerWrites(w)]
  BY <1>1
<1>6. \A u \in Threads : pc[u] = "idle"
  BY <1>1, NobodyInside
<1>7. \A u \in Threads : u # t => pc'[u] = "idle" /\ todo'[u] = todo[u]
  BY <1>1, <1>5, <1>6 DEF DataInv
<1>8. pc'[t] = "speaker" /\ todo'[t] = SpeakerWrites(w) /\ Done(t)' = 0
  <2>1. pc'[t] = "speaker" /\ todo'[t] = SpeakerWrites(w)
    BY <1>1, <1>5 DEF DataInv
  <2>2. Done(t)' = ProgramLen(w) - Len(todo'[t])
    BY DEF Done
  <2>3. Len(todo'[t]) = ProgramLen(w)
    BY <2>1, <1>4
  <2> HIDE DEF w
  <2>4. Done(t)' = 0
    BY ONLY <2>2, <2>3, <1>4
  <2> QED BY <2>1, <2>4
<1> HIDE DEF w
<1>9. DataInv'
  BY <1>1, <1>2, <1>4, <1>5 DEF DataInv
<1>10. TypeOK'
  <2>1. Scalars'
    BY <1>1 DEF TypeOK, Scalars
  <2> QED BY <1>9, <2>1, TypeFromDataNext
<1>11. LockInv'
  <2>1. once
    BY <1>1 DEF LockInv
  <2> QED BY <2>1, <1>1, <1>6, <1>7, <1>8 DEF LockInv
<1>12. TodoInv'
  <2> SUFFICES ASSUME NEW u \in Threads, pc'[u] # "idle"
               PROVE  /\ pc'[u] # "backlight"
                      /\ Len(todo'[u]) <= ProgramLen(Winner(lights'))
                      /\ \A i \in 1..Len(todo'[u]) :
                           todo'[u][i] = SpeakerWrites(Winner(lights'))[Done(u)' + i]
    BY DEF TodoInv
  <2>1. u = t
    BY <1>7
  <2>2. pc'[u] # "backlight" /\ todo'[u] = SpeakerWrites(w) /\ Done(u)' = 0
    BY <2>1, <1>8
  <2>3. \A i \in 1..Len(SpeakerWrites(w)) : Done(u)' + i = i
    BY <2>2, <1>4
  <2> QED BY <2>2, <2>3, <1>4 DEF w
<1>13. FilesInv'
  <2>1. Updating'
    BY <1>8 DEF Updating
  <2>2. Holds(files', 0, w)
    BY DEF Holds
  <2> QED BY <2>1, <2>2, <1>7, <1>8 DEF FilesInv, w
<1> QED BY <1>1, <1>6, <1>8, <1>9, <1>10, <1>11, <1>12, <1>13 DEF Updating

LEMMA SetBacklightStep ==
  ASSUME IInv, NEW t \in Threads, NEW s \in States, SetBacklight(t, s)
  PROVE  IInv' /\ UNCHANGED <<lights, files, faulty>> /\ ~Updating /\ ~Updating'
<1> USE DEF IInv
<1> DEFINE w == Write(LcdFile, RgbToBrightness(s))
<1>1. /\ "backlight" \in devices /\ pc[t] = "idle" /\ g_lock = NoThread /\ g_lock' = t
      /\ pc' = [pc EXCEPT ![t] = "backlight"]
      /\ todo' = [todo EXCEPT ![t] = <<w>>]
      /\ UNCHANGED <<once, devices, lights, files, faulty>>
  BY DEF SetBacklight, Lock
<1>2. w \in Writes /\ w.file = LcdFile
  <2>1. s.color[1] \in Int /\ s.color[2] \in Int /\ s.color[3] \in Int
    BY KeptIs DEF Kept, LightState
  <2>2. RgbToBrightness(s) \in Int
    BY <2>1 DEF RgbToBrightness
  <2> QED BY <2>2, WriteType DEF Write
<1> HIDE DEF w
<1>3. <<w>> \in Seq(Writes)
  BY <1>2
<1>4. \A u \in Threads : pc[u] = "idle"
  BY <1>1, NobodyInside
<1>5. \A u \in Threads : u # t => pc'[u] = "idle" /\ todo'[u] = todo[u]
  BY <1>1, <1>4 DEF DataInv
<1>6. pc'[t] = "backlight" /\ todo'[t] = <<w>>
  BY <1>1 DEF DataInv
<1>7. DataInv'
  BY <1>1, <1>3 DEF DataInv
<1>8. Scalars'
  BY <1>1 DEF TypeOK, Scalars
<1>9. TypeOK'
  BY <1>7, <1>8, TypeFromDataNext
<1>10. LockInv'
  BY <1>1, <1>4, <1>5, <1>6 DEF LockInv
<1>11. TodoInv'
  BY <1>2, <1>5, <1>6 DEF TodoInv
<1>12. ~Updating /\ ~Updating'
  BY <1>4, <1>5, <1>6 DEF Updating
<1>13. FilesInv'
  BY <1>1, <1>5, <1>6, <1>12 DEF FilesInv
<1> QED BY <1>1, <1>7, <1>9, <1>10, <1>11, <1>12, <1>13

\* What the write of a thread inside does to the files.
LEMMA WriteIs ==
  ASSUME IInv, NEW t \in Threads, WriteFile(t)
  PROVE  /\ pc[t] # "idle" /\ Len(todo[t]) \in Nat \ {0}
         /\ Winner(lights) \in Kept /\ ProgramLen(Winner(lights)) \in 1..17
         /\ Head(todo[t]) \in Writes /\ Head(todo[t]) = todo[t][1]
         /\ todo' = [todo EXCEPT ![t] = Tail(todo[t])]
         /\ todo'[t] \in Seq(Writes)
         /\ Done(t) \in Int /\ Done(t)' = Done(t) + 1
         /\ Len(todo'[t]) = Len(todo[t]) - 1
         /\ \A i \in 1..Len(todo'[t]) : todo'[t][i] = todo[t][i + 1]
         /\ \/ /\ files' = [files EXCEPT ![Head(todo[t]).file] = Head(todo[t]).value]
               /\ faulty' = faulty
            \/ /\ files' = files
               /\ faulty' = (faulty \/ Head(todo[t]).file # LcdFile)
         /\ UNCHANGED <<once, devices, g_lock, lights, pc>>
<1>1. pc[t] # "idle" /\ todo[t] # <<>> /\ todo[t] \in Seq(Writes)
  BY DEF IInv, LockInv, DataInv, WriteFile
<1>2. /\ Head(todo[t]) \in Writes /\ Head(todo[t]) = todo[t][1]
      /\ Len(todo[t]) \in Nat \ {0}
      /\ Tail(todo[t]) \in Seq(Writes) /\ Len(Tail(todo[t])) = Len(todo[t]) - 1
      /\ \A i \in 1..Len(Tail(todo[t])) : Tail(todo[t])[i] = todo[t][i + 1]
  BY <1>1, HeadAndTail
<1>3. todo' = [todo EXCEPT ![t] = Tail(todo[t])] /\ todo'[t] = Tail(todo[t])
  BY DEF WriteFile, IInv, DataInv
<1>4. /\ \/ /\ files' = [files EXCEPT ![Head(todo[t]).file] = Head(todo[t]).value]
            /\ faulty' = faulty
         \/ /\ files' = files
            /\ faulty' = (faulty \/ Head(todo[t]).file # LcdFile)
      /\ UNCHANGED <<once, devices, g_lock, lights, pc>>
  BY DEF WriteFile
<1>5. Winner(lights) \in Kept /\ ProgramLen(Winner(lights)) \in 1..17
  BY WinnerIs, ProgramType DEF IInv, DataInv
<1>6. Done(t)' = Done(t) + 1 /\ Done(t) \in Int
  <2>0. Len(todo'[t]) = Len(Tail(todo[t])) /\ Len(todo[t]) \in Nat \ {0}
    BY <1>2, <1>3, Zenon
  <2>1. Len(todo[t]) \in Int /\ Len(todo'[t]) = Len(todo[t]) - 1
    BY ONLY <1>2, <2>0
  <2>2. Done(t)' = ProgramLen(Winner(lights)) - Len(todo'[t])
    BY <1>4 DEF Done
  <2>3. Done(t) = ProgramLen(Winner(lights)) - Len(todo[t])
    BY DEF Done
  <2>4. PICK p \in Int, n \in Int : p = ProgramLen(Winner(lights)) /\ n = Len(todo[t])
    BY <1>5, <2>1
  <2>5. Done(t) = p - n /\ Done(t)' = p - (n - 1)
    BY ONLY <2>1, <2>2, <2>3, <2>4, Zenon
  <2> QED BY ONLY <2>5, p \in Int, n \in Int
<1> QED BY <1>1, <1>2, <1>3, <1>4, <1>5, <1>6

\* The write of a thread that updates the LED is the next of its program.
LEMMA ProgramWrite ==
  ASSUME IInv, NEW t \in Threads, WriteFile(t), pc[t] = "speaker"
  PROVE  /\ Done(t) \in Nat /\ Done(t) < ProgramLen(Winner(lights))
         /\ Winner(lights) \in Kept
         /\ Head(todo[t]) = SpeakerWrites(Winner(lights))[Done(t) + 1]
         /\ Head(todo[t]).file # LcdFile
<1>1. /\ Len(todo[t]) \in Nat \ {0} /\ Head(todo[t]) = todo[t][1]
      /\ Winner(lights) \in Kept /\ ProgramLen(Winner(lights)) \in 1..17
  BY WriteIs
<1>2. /\ Len(todo[t]) <= ProgramLen(Winner(lights))
      /\ \A i \in 1..Len(todo[t]) :
           todo[t][i] = SpeakerWrites(Winner(lights))[Done(t) + i]
  BY DEF IInv, TodoInv
<1>3. Done(t) \in Nat /\ Done(t) < ProgramLen(Winner(lights))
  <2>1. Done(t) = ProgramLen(Winner(lights)) - Len(todo[t])
    BY DEF Done
  <2> QED BY ONLY <1>1, <1>2, <2>1
<1>4. todo[t][1] = SpeakerWrites(Winner(lights))[Done(t) + 1]
  BY <1>1, <1>2
<1>5. SpeakerWrites(Winner(lights))[Done(t) + 1].file # LcdFile
  <2> DEFINE w == SpeakerWrites(Winner(lights))[Done(t) + 1]
             s == Winner(lights)
  <2>1. \/ w = Write(BlinkFile, 0)
        \/ w = Write(BlinkFile, 1)
        \/ \E c \in 1..3, j \in 1..5 : w = RampWrite(c, j, s)
        \/ \E c \in 1..3 : w = BrightnessWrite(c, s)
    BY <1>1, <1>3, WhichWrite
  <2> HIDE DEF w, s
  <2>2. w.file # LcdFile
    BY <2>1, FilesApart DEF Write, RampWrite, BrightnessWrite
  <2> QED BY <2>2 DEF w
<1> QED BY <1>1, <1>3, <1>4, <1>5

\* The backlight is not part of what the LED shows.
LEMMA BacklightApart ==
  ASSUME DOMAIN files = Files, NEW v, files' = [files EXCEPT ![LcdFile] = v]
  PROVE  /\ Shown' = Shown
         /\ \A n, s : Holds(files, n, s) => Holds(files', n, s)
<1>1. /\ files'[BlinkFile] = files[BlinkFile]
      /\ \A c \in 1..3 : files'[BrightnessFile(c)] = files[BrightnessFile(c)]
      /\ \A c \in 1..3, j \in 1..5 : files'[RampFile(c, j)] = files[RampFile(c, j)]
  BY FilesApart
<1>2. \A n, s : Holds(files, n, s) => Holds(files', n, s)
  BY <1>1 DEF Holds
<1>3. \A h \in Channel : /\ files'[<<h, "start_idx">>] = files[<<h, "start_idx">>]
                         /\ files'[<<h, "duty_pcts">>] = files[<<h, "duty_pcts">>]
                         /\ files'[<<h, "pause_lo">>] = files[<<h, "pause_lo">>]
                         /\ files'[<<h, "pause_hi">>] = files[<<h, "pause_hi">>]
                         /\ files'[<<h, "ramp_step_ms">>] = files[<<h, "ramp_step_ms">>]
  <2> SUFFICES ASSUME NEW c \in 1..3, NEW a \in RampAttributes
               PROVE  files'[<<Colors[c], a>>] = files[<<Colors[c], a>>]
    BY DEF Channel, RampAttributes
  <2>1. \E j \in 1..5 : a = Attributes[j]
    BY DEF RampAttributes, Attributes
  <2> QED BY <1>1, <2>1 DEF RampFile
<1>4. \A c \in 1..3 :
        files'[<<Colors[c], "brightness">>] = files[<<Colors[c], "brightness">>]
  BY <1>1 DEF BrightnessFile
<1>5. Shown' = Shown
  BY <1>1, <1>3, <1>4 DEF Shown
<1> QED BY <1>2, <1>5

LEMMA WriteStep ==
  ASSUME IInv, NEW t \in Threads, WriteFile(t)
  PROVE  /\ IInv'
         /\ Updating' <=> Updating
         /\ ~Updating => Shown' = Shown /\ faulty' = faulty
<1> DEFINE h == Head(todo[t])
           s == Winner(lights)
<1> USE DEF IInv
<1>1. /\ pc[t] # "idle" /\ Len(todo[t]) \in Nat \ {0}
      /\ s \in Kept /\ ProgramLen(s) \in 1..17
      /\ h \in Writes /\ h = todo[t][1]
      /\ todo' = [todo EXCEPT ![t] = Tail(todo[t])]
      /\ todo'[t] \in Seq(Writes)
      /\ Done(t) \in Int /\ Done(t)' = Done(t) + 1
      /\ Len(todo'[t]) = Len(todo[t]) - 1
      /\ \A i \in 1..Len(todo'[t]) : todo'[t][i] = todo[t][i + 1]
      /\ \/ files' = [files EXCEPT ![h.file] = h.value] /\ faulty' = faulty
         \/ files' = files /\ faulty' = (faulty \/ h.file # LcdFile)
      /\ UNCHANGED <<once, devices, g_lock, lights, pc>>
  BY WriteIs
<1>w. Winner(lights') = s
  BY <1>1
<1> HIDE DEF h
<1>2. \A u \in Threads : u # t => pc[u] = "idle" /\ todo'[u] = todo[u]
  BY <1>1, OneInside DEF DataInv
<1>3. DataInv'
  <2>1. \A f \in Files : files'[f] \in Values(f)
    BY <1>1 DEF DataInv, Writes
  <2>2. todo' \in [Threads -> Seq(Writes)] /\ DOMAIN files' = Files
    BY <1>1 DEF DataInv
  <2> QED BY <1>1, <2>1, <2>2 DEF DataInv
<1>4. Scalars'
  BY <1>1 DEF TypeOK, Scalars
<1>5. TypeOK'
  BY <1>3, <1>4, TypeFromDataNext
<1>6. LockInv'
  BY <1>1, <1>2 DEF LockInv
<1>7. TodoInv'
  <2>1. ASSUME pc[t] = "backlight"
        PROVE  \A i \in 1..Len(todo'[t]) : todo'[t][i].file = LcdFile
    BY <1>1, <2>1 DEF TodoInv
  <2>2. ASSUME pc[t] = "speaker"
        PROVE  /\ Len(todo'[t]) <= ProgramLen(s)
               /\ \A i \in 1..Len(todo'[t]) :
                    todo'[t][i] = SpeakerWrites(s)[Done(t)' + i]
    <3>1. Len(todo'[t]) <= ProgramLen(s)
      <4>1. Len(todo[t]) <= ProgramLen(s)
        BY <2>2 DEF TodoInv
      <4>2. Len(todo[t]) \in Nat /\ Len(todo'[t]) = Len(todo[t]) - 1 /\ ProgramLen(s) \in Int
        BY <1>1
      <4> QED BY ONLY <4>1, <4>2
    <3>2. ASSUME NEW i \in 1..Len(todo'[t])
          PROVE  todo'[t][i] = SpeakerWrites(s)[Done(t)' + i]
      <4>1. i + 1 \in 1..Len(todo[t]) /\ Done(t)' + i = Done(t) + (i + 1)
        <5>1. /\ Done(t) \in Int /\ Done(t)' = Done(t) + 1 /\ Len(todo[t]) \in Nat
              /\ Len(todo'[t]) = Len(todo[t]) - 1
          BY <1>1
        <5> QED BY ONLY <5>1, i \in 1..Len(todo'[t])
      <4>2. todo[t][i + 1] = SpeakerWrites(s)[Done(t) + (i + 1)]
        BY <2>2, <4>1 DEF TodoInv
      <4> QED BY <1>1, <4>1, <4>2
    <3> QED BY <3>1, <3>2
  <2> HIDE DEF s
  <2> QED BY <1>1, <1>2, <1>w, <2>1, <2>2 DEF TodoInv
<1>8. Updating' <=> Updating
  BY <1>1 DEF Updating
<1>9. CASE pc[t] = "speaker"
  <2>1. /\ Done(t) \in Nat /\ Done(t) < ProgramLen(s)
        /\ h = SpeakerWrites(s)[Done(t) + 1] /\ h.file # LcdFile
    BY <1>9, ProgramWrite DEF h
  <2>2. Updating
    BY <1>9 DEF Updating
  <2>3. ASSUME ~faulty'
        PROVE  Holds(files', Done(t)', Winner(lights'))
    <3>1. ~faulty /\ files' = [files EXCEPT ![h.file] = h.value]
      <4>1. ~(faulty' = (faulty \/ h.file # LcdFile))
        BY <2>1, <2>3
      <4> QED BY <1>1, <2>3, <4>1
    <3>2. Holds(files, Done(t), s) /\ DOMAIN files = Files
      BY <1>9, <3>1 DEF FilesInv, DataInv
    <3> HIDE DEF s
    <3>3. Holds(files', Done(t) + 1, s)
      BY <1>1, <2>1, <3>1, <3>2, OneMore
    <3> QED BY <1>1, <1>w, <3>3
  <2>4. FilesInv'
    BY <1>1, <1>2, <1>8, <2>2, <2>3 DEF FilesInv
  <2> QED BY <1>3, <1>5, <1>6, <1>7, <1>8, <2>2, <2>4
<1>10. CASE pc[t] = "backlight"
  <2>1. h.file = LcdFile
    BY <1>1, <1>10 DEF TodoInv
  <2>2. faulty' = faulty
    <3>1. faulty \in BOOLEAN
      BY DEF TypeOK
    <3> QED BY <1>1, <2>1, <3>1
  <2>3. files' = files \/ files' = [files EXCEPT ![LcdFile] = h.value]
    BY <1>1, <2>1
  <2>4. ~Updating
    BY <1>2, <1>10 DEF Updating
  <2>5. Shown' = Shown /\ \A n, r : Holds(files, n, r) => Holds(files', n, r)
    <3>1. CASE files' = files
      BY <3>1 DEF Shown
    <3>2. CASE files' = [files EXCEPT ![LcdFile] = h.value]
      BY <3>2, BacklightApart DEF DataInv
    <3> QED BY <2>3, <3>1, <3>2
  <2>6. FilesInv'
    <3>1. ~Updating'
      BY <1>8, <2>4
    <3>2. Holds(files, ProgramLen(s), s) => Holds(files', ProgramLen(s), s)
      BY <2>5
    <3>3. \A u \in Threads : pc'[u] # "speaker"
      BY <3>1 DEF Updating
    <3> QED BY <1>w, <2>2, <2>4, <3>1, <3>2, <3>3 DEF FilesInv
  <2> QED BY <1>3, <1>5, <1>6, <1>7, <1>8, <2>2, <2>5, <2>6
<1> QED BY <1>1, <1>9, <1>10 DEF DataInv

LEMMA UnlockStep ==
  ASSUME IInv, NEW t \in Threads, Unlock(t)
  PROVE  /\ IInv' /\ ~Updating' /\ UNCHANGED <<lights, files, faulty>>
         /\ Updating <=> pc[t] = "speaker"
<1> USE DEF IInv
<1>1. /\ pc[t] # "idle" /\ todo[t] = <<>> /\ g_lock' = NoThread
      /\ pc' = [pc EXCEPT ![t] = "idle"]
      /\ UNCHANGED <<once, devices, lights, files, todo, faulty>>
  BY DEF Unlock
<1>2. \A u \in Threads : u # t => pc[u] = "idle"
  BY <1>1, OneInside
<1>3. \A u \in Threads : pc'[u] = "idle" /\ todo'[u] = <<>>
  BY <1>1, <1>2 DEF DataInv, LockInv
<1>4. DataInv'
  BY <1>1 DEF DataInv
<1>5. Scalars'
  BY <1>1 DEF TypeOK, Scalars
<1>6. TypeOK'
  BY <1>4, <1>5, TypeFromDataNext
<1>7. LockInv'
  BY <1>1, <1>3 DEF LockInv
<1>8. TodoInv'
  BY <1>3 DEF TodoInv
<1>9. ~Updating' /\ (Updating <=> pc[t] = "speaker")
  BY <1>2, <1>3 DEF Updating
<1>10. FilesInv'
  <2>1. CASE pc[t] = "speaker"
    <3>1. Done(t) = ProgramLen(Winner(lights))
      <4>1. ProgramLen(Winner(lights)) \in Int
        BY WinnerIs, ProgramType DEF DataInv
      <4>2. Len(todo[t]) = 0
        BY <1>1, EmptySeq
      <4> QED BY ONLY <4>1, <4>2 DEF Done
    <3>2. ~faulty => Holds(files, ProgramLen(Winner(lights)), Winner(lights))
      BY <2>1, <3>1 DEF FilesInv
    <3> QED BY <1>1, <1>3, <3>2 DEF FilesInv
  <2>2. CASE ~Updating
    BY <1>1, <1>3, <2>2 DEF FilesInv
  <2> QED BY <1>9, <2>1, <2>2
<1> QED BY <1>1, <1>4, <1>6, <1>7, <1>8, <1>9, <1>10

LEMMA InvStep == IInv /\ [Next]_vars => IInv'
<1> SUFFICES ASSUME IInv, [Next]_vars
             PROVE  IInv'
  OBVIOUS
<1>1. CASE UNCHANGED vars
  BY <1>1 DEF vars, IInv, TypeOK, DataInv, LockInv, TodoInv, FilesInv, Updating, Done
<1>2. ASSUME NEW l \in Lights, Open(l)
      PROVE  IInv'
  BY <1>2, OpenStep
<1>3. ASSUME NEW t \in Threads, NEW s \in States, NEW l \in LedLights, SetLight(t, l, s)
      PROVE  IInv'
  BY <1>3, SetLightStep
<1>4. ASSUME NEW t \in Threads, NEW s \in States, SetBacklight(t, s)
      PROVE  IInv'
  BY <1>4, SetBacklightStep
<1>5. ASSUME NEW t \in Threads, WriteFile(t)
      PROVE  IInv'
  BY <1>5, WriteStep
<1>6. ASSUME NEW t \in Threads, Unlock(t)
      PROVE  IInv'
  BY <1>6, UnlockStep
<1> QED BY <1>1, <1>2, <1>3, <1>4, <1>5, <1>6 DEF Next

-----------------------------------------------------------------------------
(* The invariant, and what it says of the code.                            *)

\* However set_light calls of any number of threads interleave, one thread is
\* inside at a time, and the files hold what its writes so far make of the
\* winner's program (lights-qpnp.c:211-346).
THEOREM Invariance == Spec => []IInv
<1>1. IInv /\ [Next]_vars => IInv'
  BY InvStep
<1> QED BY InitInv, <1>1, PTL DEF Spec

\* What is kept, written and still to be written stays in range: the duties of
\* a ramp are eight percentages (lights-qpnp.c:192-209).
THEOREM TypeCorrect == Spec => []TypeOK
BY Invariance, PTL DEF IInv

\* As long as the writes of an update go through, it changes the ramp of a
\* channel only while blinking is off (lights-qpnp.c:246).
THEOREM RampsChangeWhileOff == Spec => RampChangesWhileOff
<1> DEFINE A == \A f \in RampFiles :
                  ~faulty /\ files'[f] # files[f] => files[BlinkFile] = 0
<1>1. IInv /\ [Next]_vars => [A]_vars
  <2> SUFFICES ASSUME IInv, Next, NEW f \in RampFiles, ~faulty, files'[f] # files[f]
               PROVE  files[BlinkFile] = 0
    OBVIOUS
  <2>1. files' # files
    OBVIOUS
  <2>2. PICK t \in Threads : WriteFile(t)
    BY <2>1 DEF Next, Open, SetLight, SetBacklight, Unlock
  <2>3. /\ pc[t] # "idle" /\ files' = [files EXCEPT ![Head(todo[t]).file] = Head(todo[t]).value]
        /\ Head(todo[t]) = todo[t][1] /\ Len(todo[t]) \in Nat \ {0}
    BY <2>1, <2>2, WriteIs
  <2>4. DOMAIN files = Files /\ f \in Files /\ f[2] \in RampAttributes
    BY DEF IInv, DataInv, Files, RampFiles
  <2>5. f # LcdFile /\ f # BlinkFile /\ \A c \in 1..3 : f # BrightnessFile(c)
    BY <2>4 DEF RampAttributes, LcdFile, BlinkFile, BrightnessFile
  <2>6. Head(todo[t]).file = f
    BY <2>3, <2>4
  <2>7. pc[t] = "speaker"
    <3>1. 1 \in 1..Len(todo[t])
      BY <2>3
    <3> QED BY <2>3, <2>5, <2>6, <3>1 DEF IInv, TodoInv, DataInv
  <2> DEFINE n == Done(t)
             s == Winner(lights)
             w == SpeakerWrites(s)[n + 1]
  <2>8. n \in Nat /\ n < ProgramLen(s) /\ s \in Kept /\ w.file = f
    BY <2>2, <2>6, <2>7, ProgramWrite
  <2>9. \/ w = Write(BlinkFile, 0)
        \/ w = Write(BlinkFile, 1)
        \/ Blinks(s) /\ \E c \in 1..3, j \in 1..5 : n + 1 = 5 * c - 4 + j
        \/ \E c \in 1..3 : w = BrightnessWrite(c, s)
    BY <2>8, WhichWrite
  <2>10. Holds(files, n, s)
    BY <2>7 DEF IInv, FilesInv
  <2> HIDE DEF n, s, w
  <2>11. Blinks(s) /\ \E c \in 1..3, j \in 1..5 : n + 1 = 5 * c - 4 + j
    BY <2>5, <2>8, <2>9 DEF Write, BrightnessWrite
  <2>12. n \in 1..16
    BY <2>8, <2>11
  <2> QED BY <2>10, <2>11, <2>12 DEF Holds
<1> QED BY Invariance, <1>1, PTL DEF Spec, RampChangesWhileOff

\* Whenever g_lock is free and no write of the last update has failed, a
\* blinking LED pulses for the time the winner asks for, short of it by less
\* than one turn of the ramp, for any times (lights-qpnp.c:249-255).
THEOREM PulsesAsLongAsAsked == Spec => []PulseAsLongAsAsked
<1>1. IInv => PulseAsLongAsAsked
  <2> SUFFICES ASSUME IInv, g_lock = NoThread, ~faulty, files[BlinkFile] = 1, NEW h \in Channel
               PROVE  LET on == Winner(lights).flashOnMS
                          pulse == files[<<h, "pause_hi">>]
                                     + 2 * RAMP_SIZE * files[<<h, "ramp_step_ms">>]
                      IN pulse <= on /\ on - pulse < 2 * RAMP_SIZE
    BY DEF PulseAsLongAsAsked
  <2> DEFINE s == Winner(lights)
  <2>1. ~Updating
    BY NobodyInside DEF IInv, Updating
  <2>2. s \in Kept
    BY WinnerIs DEF IInv, DataInv
  <2>3. Holds(files, ProgramLen(s), s)
    BY <2>1 DEF IInv, FilesInv
  <2> HIDE DEF s
  <2>4. Blinks(s)
    BY <2>2, <2>3, AllHolds
  <2>5. s.flashOnMS \in Int /\ s.flashOnMS > 0
    BY <2>2, <2>4, KeptIs DEF LightState, Blinks
  <2>6. PICK c \in 1..3 : Colors[c] = h
    BY DEF Channel
  <2>7. /\ files[RampFile(c, 4)] = RampValue(c, 4, s)
        /\ files[RampFile(c, 5)] = RampValue(c, 5, s)
    BY <2>3, <2>4 DEF Holds, ProgramLen
  <2>8. /\ RampFile(c, 4) = <<h, "pause_hi">> /\ RampFile(c, 5) = <<h, "ramp_step_ms">>
        /\ RampValue(c, 4, s) = PauseHi(s.flashOnMS)
        /\ RampValue(c, 5, s) = StepDuration(s.flashOnMS)
    BY <2>6 DEF RampFile, Attributes, RampValue
  <2>9. /\ files[<<h, "pause_hi">>] = PauseHi(s.flashOnMS)
        /\ files[<<h, "ramp_step_ms">>] = StepDuration(s.flashOnMS)
    BY ONLY <2>7, <2>8
  <2>10. /\ PauseHi(s.flashOnMS) + 2 * RAMP_SIZE * StepDuration(s.flashOnMS) <= s.flashOnMS
         /\ s.flashOnMS - (PauseHi(s.flashOnMS) + 2 * RAMP_SIZE * StepDuration(s.flashOnMS))
              < 2 * RAMP_SIZE
    BY <2>5, PulseTakes
  <2> QED BY <2>9, <2>10 DEF s
<1> QED BY Invariance, <1>1, PTL

\* Each step of the HAL is a step of the arbiter or none: taking the lock to
\* set one of the three lights begins an update, giving it back ends it with
\* the winner shown, or with any look if a write of it failed; the files are
\* written in between, and the backlight is not seen (lights-qpnp.c:211-346).
THEOREM Refinement == Spec => ImplementsArbiter
<1> DEFINE Bar == IF Updating THEN Changing ELSE IF faulty THEN Broken ELSE Shown
<1>0. /\ Shown # Changing /\ Broken # Changing
      /\ \A s \in Kept : Look(s) # Changing /\ Look(s) # Broken
  <2>1. DOMAIN Changing = {"update"} /\ DOMAIN Broken = {"broken"}
    BY DEF Changing, Broken
  <2>2. "blink" \in DOMAIN Shown
    BY DEF Shown
  <2>3. \A s \in Kept : "blink" \in DOMAIN Look(s)
    BY DEF Look
  <2> QED BY <2>1, <2>2, <2>3
<1>1. Init => Arbiter!Init
  <2> SUFFICES ASSUME Init
               PROVE  Arbiter!Init
    OBVIOUS
  <2>1. IInv /\ ~faulty /\ ~Updating /\ Winner(lights) = Dark /\ Dark \in Kept
    BY InitInv DEF Init, Updating, Winner, LedLights, Kept
  <2>2. Shown = Look(Dark)
    BY <2>1, AllHolds DEF IInv, FilesInv
  <2> QED BY <2>1, <2>2 DEF Init, Arbiter!Init, Arbiter!Lights, LedLights
<1>2. IInv /\ [Next]_vars => [Arbiter!Next]_(Arbiter!vars)
  <2> SUFFICES ASSUME IInv, [Next]_vars
               PROVE  Arbiter!Next \/ UNCHANGED <<lights, Bar>>
    BY DEF Arbiter!vars
  <2>1. CASE UNCHANGED vars
    <3>1. Updating' <=> Updating
      BY <2>1 DEF vars, Updating
    <3>2. Shown' = Shown
      BY <2>1 DEF vars, Shown
    <3> QED BY <2>1, <3>1, <3>2 DEF vars, Changing, Broken
  <2>2. ASSUME NEW l \in Lights, Open(l)
        PROVE  UNCHANGED <<lights, Bar>>
    <3>1. Updating' <=> Updating
      BY <2>2 DEF Open, Updating
    <3>2. Shown' = Shown
      BY <2>2 DEF Open, Shown
    <3> QED BY <2>2, <3>1, <3>2 DEF Open, Changing, Broken
  <2>3. ASSUME NEW t \in Threads, NEW s \in States, NEW l \in LedLights, SetLight(t, l, s)
        PROVE  Arbiter!Next
    <3>1. lights' = [lights EXCEPT ![l] = s] /\ ~Updating /\ Updating'
      BY <2>3, SetLightStep
    <3>2. Bar # Changing /\ Bar' = Changing
      BY <1>0, <3>1 DEF Changing
    <3>3. Arbiter!Begin(l, s)
      BY <3>1, <3>2 DEF Arbiter!Begin
    <3> QED BY <3>3 DEF Arbiter!Next, Arbiter!Lights, LedLights
  <2>4. ASSUME NEW t \in Threads, NEW s \in States, SetBacklight(t, s)
        PROVE  UNCHANGED <<lights, Bar>>
    <3>1. UNCHANGED <<lights, files, faulty>> /\ ~Updating /\ ~Updating'
      BY <2>4, SetBacklightStep
    <3>2. Shown' = Shown
      BY <3>1 DEF Shown
    <3> QED BY <3>1, <3>2 DEF Broken
  <2>5. ASSUME NEW t \in Threads, WriteFile(t)
        PROVE  UNCHANGED <<lights, Bar>>
    <3>1. /\ Updating' <=> Updating
          /\ ~Updating => Shown' = Shown /\ faulty' = faulty
          /\ lights' = lights
      BY <2>5, WriteStep, WriteIs
    <3> QED BY <3>1 DEF Changing, Broken
  <2>6. ASSUME NEW t \in Threads, Unlock(t)
        PROVE  Arbiter!Next \/ UNCHANGED <<lights, Bar>>
    <3>1. IInv' /\ ~Updating' /\ UNCHANGED <<lights, files, faulty>>
      BY <2>6, UnlockStep
    <3>2. Shown' = Shown
      BY <3>1 DEF Shown
    <3>3. CASE ~Updating
      BY <3>1, <3>2, <3>3 DEF Broken
    <3>4. CASE Updating
      <4>1. Bar = Changing
        BY <3>4
      <4>2. Bar' \in {Look(Winner(lights)), Broken}
        <5>1. ~faulty => Holds(files, ProgramLen(Winner(lights)), Winner(lights))
          <6>1. ~faulty' => Holds(files', ProgramLen(Winner(lights')), Winner(lights'))
            BY <3>1 DEF IInv, FilesInv
          <6> QED BY <3>1, <6>1
        <5>2. Winner(lights) \in Kept
          BY WinnerIs DEF IInv, DataInv
        <5>3. ~faulty => Shown = Look(Winner(lights))
          BY <5>1, <5>2, AllHolds
        <5> QED BY <3>1, <3>2, <5>3 DEF Broken
      <4>3. Arbiter!Winner(lights) = Winner(lights)
        BY DEF Arbiter!Winner, Winner
      <4> HIDE DEF Bar
      <4>4. Arbiter!End
        BY <3>1, <4>1, <4>2, <4>3 DEF Arbiter!End, Bar
      <4> QED BY <4>4 DEF Arbiter!Next
    <3> QED BY <3>3, <3>4
  <2> QED BY <2>1, <2>2, <2>3, <2>4, <2>5, <2>6 DEF Next
<1> QED BY Invariance, <1>1, <1>2, PTL DEF Spec, ImplementsArbiter, Arbiter!Spec

=============================================================================

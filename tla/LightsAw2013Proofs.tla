-------------------------- MODULE LightsAw2013Proofs --------------------------
(***************************************************************************)
(* Proofs about LightsAw2013, for any threads, any requests, any colors    *)
(* nearest_color gives them and any files a write to may fail: one thread  *)
(* updates the LED at a time, what it still has to write is the end of one *)
(* program, and how far it has come says what the files hold.              *)
(***************************************************************************)
EXTENDS LightsAw2013, SequenceTheorems, TLAPS

Values(f) == IF f[2] = "breath" THEN [1..4 -> 1..7] ELSE 0..255
Writes == {w \in [file : Files, value : 0..255 \cup [1..4 -> 1..7]] :
             w.value \in Values(w.file)}

\* The writes of an update of the LED: the lights out twice, the patterns, and
\* the color; and those of them a thread has done.
Program(s) == LightsOut \o SpeakerWrites(s)
ProgramLen == 15
Done(t) == ProgramLen - Len(todo[t])

\* What the files of a channel hold when the first n writes of the program of
\* a state have gone through.
Holds(fs, n, s) ==
  \A c \in Channel :
    /\ c <= n /\ n < 12 + c => fs[<<c, "brightness">>] = 0
    /\ n >= 12 + c => fs[<<c, "brightness">>] = LedColor(s)[c]
    /\ n >= 5 + 2 * c => fs[<<c, "breath">>] = BreathPattern(s)
    /\ n >= 6 + 2 * c =>
         fs[<<c, "blink">>] = IF Blinks(s) /\ LedColor(s)[c] # 0 THEN 1 ELSE 0

DataInv ==
  /\ lights \in [LedLights -> Kept]
  /\ DOMAIN files = Files
  /\ \A f \in Files : files[f] \in Values(f)
  /\ pc \in [Threads -> {"idle", "speaker", "single"}]
  /\ todo \in [Threads -> Seq(Writes)]

\* One thread at a time is in a set_light function, with g_lock.
LockInv ==
  /\ \A t \in Threads : pc[t] # "idle" => g_lock = t /\ once
  /\ \A t \in Threads : pc[t] = "idle" => todo[t] = <<>>
  /\ devices # {} => once
  /\ ~once => g_lock = NoThread

\* A thread that updates the LED still has the end of the program to write.
TodoInv ==
  \A t \in Threads :
    /\ pc[t] = "single" =>
         \A i \in 1..Len(todo[t]) : todo[t][i].file \notin LedFiles
    /\ pc[t] = "speaker" =>
         /\ Len(todo[t]) <= ProgramLen
         /\ \A i \in 1..Len(todo[t]) :
              todo[t][i] = Program(Winner(lights))[Done(t) + i]

\* The files hold what the program has written so far.
FilesInv ==
  ~faulty =>
    /\ \A t \in Threads :
         pc[t] = "speaker" => Holds(files, Done(t), Winner(lights))
    /\ ~Updating => Holds(files, ProgramLen, Winner(lights))

IInv == TypeOK /\ DataInv /\ LockInv /\ TodoInv /\ FilesInv

-----------------------------------------------------------------------------
(* Requests.                                                               *)

LEMMA DarkType == Dark \in LightState /\ Dark.color \in [1..3 -> 0..255] /\ ~Blinks(Dark)
BY DEF Dark, LightState, Blinks

\* An attention request that is edited stays a request, and blinks only if it
\* was not edited.
LEMMA AttentionIs ==
  ASSUME NEW s \in States
  PROVE  /\ Attention(s) \in LightState
         /\ Blinks(Attention(s)) => Attention(s) = s
<1>1. s \in LightState
  BY StatesAssumption
<1>2. CASE Attention(s) = s
  BY <1>1, <1>2
<1>3. CASE Attention(s) = [s EXCEPT !.flashMode = "NONE"]
  BY <1>1, <1>3 DEF LightState, Blinks
<1>4. CASE s.flashMode = "NONE" /\ Attention(s) = [s EXCEPT !.color = <<0, 0, 0>>]
  BY <1>1, <1>4 DEF LightState, Blinks
<1> QED BY <1>2, <1>3, <1>4 DEF Attention

LEMMA PatternType ==
  ASSUME NEW s \in LightState
  PROVE  BreathPattern(s) \in [1..4 -> 1..7]
<1>1. \A ms \in Int : Seconds(ms) \in 1..7
  BY DEF Seconds
<1>2. s.flashOnMS \in Int /\ s.flashOffMS \in Int
  BY DEF LightState
<1>3. Seconds(s.flashOnMS) \in 1..7 /\ Seconds(s.flashOffMS) \in 1..7
  BY <1>1, <1>2
<1> HIDE DEF Seconds
<1> QED BY <1>3 DEF BreathPattern

\* What a light keeps is a state, and shows a color of 8 bits a channel.
LEMMA KeptIs ==
  ASSUME NEW s \in Kept
  PROVE  /\ s \in LightState
         /\ LedColor(s) \in [Channel -> 0..255]
         /\ BreathPattern(s) \in [1..4 -> 1..7]
<1>1. s \in LightState
  BY AttentionIs, DarkType, StatesAssumption DEF Kept
<1>3. Blinks(s) => s \in States
  <2>1. \A r \in States : Blinks(Attention(r)) => Attention(r) \in States
    BY AttentionIs
  <2> QED BY <2>1, DarkType DEF Kept
<1>4. LedColor(s) \in [Channel -> 0..255]
  <2>1. CASE Blinks(s)
    <3>1. Nearest(s.color) \in BlinkColors
      BY <1>3, <2>1, NearestAssumption
    <3>2. BlinkColors \subseteq [1..3 -> 0..255]
      BY DEF BlinkColors
    <3> QED BY <2>1, <3>1, <3>2 DEF LedColor, Channel
  <2>2. CASE ~Blinks(s)
    BY <1>1, <2>2 DEF LedColor, Channel, LightState
  <2> QED BY <2>1, <2>2
<1> QED BY <1>1, <1>4, PatternType

\* The light that wins is one of the requests.
LEMMA WinnerIs ==
  ASSUME NEW ls \in [LedLights -> Kept]
  PROVE  Winner(ls) \in Kept
BY DEF Winner, LedLights

-----------------------------------------------------------------------------
(* The program of an update.                                               *)

\* Two pieces of a program make one.
Joins(r, p, q) ==
  /\ r \in Seq(Writes)
  /\ Len(r) = Len(p) + Len(q)
  /\ \A i \in 1..Len(p) : r[i] = p[i]
  /\ \A i \in 1..Len(q) : r[Len(p) + i] = q[i]

LEMMA Joined ==
  ASSUME NEW p \in Seq(Writes), NEW q \in Seq(Writes)
  PROVE  Joins(p \o q, p, q)
<1>1. Len(p) \in Nat /\ Len(q) \in Nat
  BY LenProperties
<1>2. /\ p \o q \in Seq(Writes) /\ Len(p \o q) = Len(p) + Len(q)
      /\ \A i \in 1..(Len(p) + Len(q)) :
           (p \o q)[i] = IF i <= Len(p) THEN p[i] ELSE q[i - Len(p)]
  BY ConcatProperties
<1>3. \A i \in 1..Len(p) : (p \o q)[i] = p[i]
  BY <1>1, <1>2
<1>4. ASSUME NEW i \in 1..Len(q)
      PROVE  (p \o q)[Len(p) + i] = q[i]
  <2>1. /\ Len(p) + i \in 1..(Len(p) + Len(q))
        /\ ~(Len(p) + i <= Len(p)) /\ (Len(p) + i) - Len(p) = i
    BY <1>1
  <2>2. (p \o q)[Len(p) + i] = q[(Len(p) + i) - Len(p)]
    BY <1>2, <2>1
  <2> QED BY <2>1, <2>2
<1> QED BY <1>2, <1>3, <1>4 DEF Joins

LEMMA JoinedTwo ==
  ASSUME NEW p \in Seq(Writes), NEW q \in Seq(Writes),
         NEW m \in Nat, Len(p) = m, Len(q) = 2
  PROVE  /\ p \o q \in Seq(Writes) /\ Len(p \o q) = m + 2
         /\ \A i \in 1..m : (p \o q)[i] = p[i]
         /\ (p \o q)[m + 1] = q[1] /\ (p \o q)[m + 2] = q[2]
<1>1. Joins(p \o q, p, q)
  BY Joined
<1>2. (p \o q)[Len(p) + 1] = q[1] /\ (p \o q)[Len(p) + 2] = q[2]
  <2>1. 1 \in 1..Len(q) /\ 2 \in 1..Len(q)
    OBVIOUS
  <2> QED BY <1>1, <2>1 DEF Joins
<1> QED BY <1>1, <1>2 DEF Joins

LEMMA ThreeWrites ==
  ASSUME NEW f \in [1..3 -> Writes]
  PROVE  f \in Seq(Writes) /\ Len(f) = 3
<1>1. f \in Seq(Writes)
  BY SeqDef
<1>2. DOMAIN f = 1..3 /\ DOMAIN f = 1..Len(f) /\ Len(f) \in Nat
  BY <1>1, LenProperties
<1> QED BY <1>1, <1>2

LEMMA BrightnessIs ==
  ASSUME NEW color \in [Channel -> 0..255]
  PROVE  /\ Brightness(color) \in Seq(Writes) /\ Len(Brightness(color)) = 3
         /\ \A c \in Channel : Brightness(color)[c] = Write(<<c, "brightness">>, color[c])
<1>1. \A c \in Channel : Write(<<c, "brightness">>, color[c]) \in Writes
  BY DEF Write, Writes, Values, Files, LedFiles
<1>2. Brightness(color) \in [1..3 -> Writes]
  BY <1>1 DEF Brightness, Channel
<1>3. Brightness(color) \in Seq(Writes) /\ Len(Brightness(color)) = 3
  BY <1>2, ThreeWrites
<1> QED BY <1>3 DEF Brightness

LEMMA LightsOutIs ==
  /\ LightsOut \in Seq(Writes) /\ Len(LightsOut) = 3
  /\ \A c \in Channel : LightsOut[c] = Write(<<c, "brightness">>, 0)
<1>1. <<0, 0, 0>> \in [Channel -> 0..255] /\ \A c \in Channel : <<0, 0, 0>>[c] = 0
  BY DEF Channel
<1>2. /\ Brightness(<<0, 0, 0>>) \in Seq(Writes) /\ Len(Brightness(<<0, 0, 0>>)) = 3
      /\ \A c \in Channel :
           Brightness(<<0, 0, 0>>)[c] = Write(<<c, "brightness">>, <<0, 0, 0>>[c])
  BY <1>1, BrightnessIs
<1> QED BY <1>1, <1>2 DEF LightsOut

BreathWrite(c, s) == Write(<<c, "breath">>, BreathPattern(s))
BlinkWrite(c, s) ==
  Write(<<c, "blink">>, IF Blinks(s) /\ LedColor(s)[c] # 0 THEN 1 ELSE 0)

LEMMA BreathWritesIs ==
  ASSUME NEW s \in Kept, NEW c \in Channel
  PROVE  /\ BreathWrites(c, s) \in Seq(Writes) /\ Len(BreathWrites(c, s)) = 2
         /\ BreathWrites(c, s)[1] = BreathWrite(c, s)
         /\ BreathWrites(c, s)[2] = BlinkWrite(c, s)
<1>1. BreathPattern(s) \in [1..4 -> 1..7]
  BY KeptIs
<1>2. BreathWrite(c, s) \in Writes
  BY <1>1 DEF BreathWrite, Write, Writes, Values, Files, LedFiles
<1>3. BlinkWrite(c, s) \in Writes
  BY DEF BlinkWrite, Write, Writes, Values, Files, LedFiles
<1>4. BreathWrites(c, s) = <<BreathWrite(c, s), BlinkWrite(c, s)>>
  BY DEF BreathWrites, BreathWrite, BlinkWrite
<1> QED BY <1>2, <1>3, <1>4

\* The fifteen writes, in their order.
LEMMA ProgramIs ==
  ASSUME NEW s \in Kept
  PROVE  /\ Program(s) \in Seq(Writes) /\ Len(Program(s)) = ProgramLen
         /\ \A c \in Channel :
              /\ Program(s)[c] = Write(<<c, "brightness">>, 0)
              /\ Program(s)[3 + c] = Write(<<c, "brightness">>, 0)
              /\ Program(s)[5 + 2 * c] = BreathWrite(c, s)
              /\ Program(s)[6 + 2 * c] = BlinkWrite(c, s)
              /\ Program(s)[12 + c] = Write(<<c, "brightness">>, LedColor(s)[c])
<1> DEFINE B(c) == BreathWrites(c, s)
           p1 == LightsOut \o B(1)
           p2 == p1 \o B(2)
           p3 == p2 \o B(3)
           p4 == p3 \o Brightness(LedColor(s))
           p5 == LightsOut \o p4
<1>0. \A c \in 1..3 : /\ B(c) \in Seq(Writes) /\ Len(B(c)) = 2
                      /\ B(c)[1] = BreathWrite(c, s) /\ B(c)[2] = BlinkWrite(c, s)
  BY BreathWritesIs DEF Channel
<1>l. /\ LightsOut \in Seq(Writes) /\ Len(LightsOut) = 3
      /\ \A c \in 1..3 : LightsOut[c] = Write(<<c, "brightness">>, 0)
  BY LightsOutIs DEF Channel
<1>c. /\ Brightness(LedColor(s)) \in Seq(Writes) /\ Len(Brightness(LedColor(s))) = 3
      /\ \A c \in 1..3 : Brightness(LedColor(s))[c] = Write(<<c, "brightness">>, LedColor(s)[c])
  BY BrightnessIs, KeptIs DEF Channel
<1> HIDE DEF B
<1>1. /\ p1 \in Seq(Writes) /\ Len(p1) = 5
      /\ \A c \in 1..3 : p1[c] = Write(<<c, "brightness">>, 0)
      /\ p1[4] = BreathWrite(1, s) /\ p1[5] = BlinkWrite(1, s)
  <2>1. B(1) \in Seq(Writes) /\ Len(B(1)) = 2
    BY <1>0
  <2>2. /\ p1 \in Seq(Writes) /\ Len(p1) = 3 + 2
        /\ \A i \in 1..3 : p1[i] = LightsOut[i]
        /\ p1[3 + 1] = B(1)[1] /\ p1[3 + 2] = B(1)[2]
    BY ONLY <1>l, <2>1, JoinedTwo, 3 \in Nat, Zenon
  <2> HIDE DEF p1
  <2> QED BY <1>0, <1>l, <2>2
<1> HIDE DEF p1
<1>2. /\ p2 \in Seq(Writes) /\ Len(p2) = 7
      /\ \A i \in 1..5 : p2[i] = p1[i]
      /\ p2[6] = BreathWrite(2, s) /\ p2[7] = BlinkWrite(2, s)
  <2>1. B(2) \in Seq(Writes) /\ Len(B(2)) = 2
    BY <1>0
  <2>2. /\ p2 \in Seq(Writes) /\ Len(p2) = 5 + 2
        /\ \A i \in 1..5 : p2[i] = p1[i]
        /\ p2[5 + 1] = B(2)[1] /\ p2[5 + 2] = B(2)[2]
    BY ONLY <1>1, <2>1, JoinedTwo, 5 \in Nat, Zenon
  <2> HIDE DEF p2
  <2> QED BY <1>0, <2>2
<1> HIDE DEF p2
<1>3. /\ p3 \in Seq(Writes) /\ Len(p3) = 9
      /\ \A i \in 1..7 : p3[i] = p2[i]
      /\ p3[8] = BreathWrite(3, s) /\ p3[9] = BlinkWrite(3, s)
  <2>1. B(3) \in Seq(Writes) /\ Len(B(3)) = 2
    BY <1>0
  <2>2. /\ p3 \in Seq(Writes) /\ Len(p3) = 7 + 2
        /\ \A i \in 1..7 : p3[i] = p2[i]
        /\ p3[7 + 1] = B(3)[1] /\ p3[7 + 2] = B(3)[2]
    BY ONLY <1>2, <2>1, JoinedTwo, 7 \in Nat, Zenon
  <2> HIDE DEF p3
  <2> QED BY <1>0, <2>2
<1> HIDE DEF p3
<1>4. /\ p4 \in Seq(Writes) /\ Len(p4) = 12
      /\ \A i \in 1..9 : p4[i] = p3[i]
      /\ \A c \in 1..3 : p4[9 + c] = Write(<<c, "brightness">>, LedColor(s)[c])
  <2>1. Joins(p4, p3, Brightness(LedColor(s)))
    BY <1>3, <1>c, Joined
  <2> HIDE DEF p4
  <2> QED BY <2>1, <1>3, <1>c DEF Joins
<1> HIDE DEF p4
<1>5. /\ p5 \in Seq(Writes) /\ Len(p5) = 15
      /\ \A i \in 1..3 : p5[i] = LightsOut[i]
      /\ \A i \in 1..12 : p5[3 + i] = p4[i]
  <2>1. Joins(p5, LightsOut, p4)
    BY <1>l, <1>4, Joined
  <2> HIDE DEF p5
  <2> QED BY <2>1, <1>l, <1>4 DEF Joins
<1>6. Program(s) = p5
  BY DEF Program, SpeakerWrites, B, p1, p2, p3, p4
<1> HIDE DEF p5
<1>7. \A c \in 1..3 : /\ p5[c] = Write(<<c, "brightness">>, 0)
                      /\ p5[3 + c] = Write(<<c, "brightness">>, 0)
  <2> SUFFICES ASSUME NEW c \in 1..3
               PROVE  /\ p5[c] = Write(<<c, "brightness">>, 0)
                      /\ p5[3 + c] = Write(<<c, "brightness">>, 0)
    OBVIOUS
  <2>1. p5[c] = LightsOut[c] /\ p5[3 + c] = p4[c] /\ p4[c] = p3[c]
        /\ p3[c] = p2[c] /\ p2[c] = p1[c]
    BY <1>2, <1>3, <1>4, <1>5
  <2> QED BY <2>1, <1>l, <1>1
<1>8. /\ p5[7] = BreathWrite(1, s) /\ p5[8] = BlinkWrite(1, s)
      /\ p5[9] = BreathWrite(2, s) /\ p5[10] = BlinkWrite(2, s)
      /\ p5[11] = BreathWrite(3, s) /\ p5[12] = BlinkWrite(3, s)
  <2>1. \A i \in 4..9 : p5[3 + i] = p3[i]
    BY <1>4, <1>5
  <2>2. /\ p5[3 + 4] = p3[4] /\ p5[3 + 5] = p3[5] /\ p5[3 + 6] = p3[6]
        /\ p5[3 + 7] = p3[7] /\ p5[3 + 8] = p3[8] /\ p5[3 + 9] = p3[9]
    BY <2>1
  <2>3. p3[4] = p1[4] /\ p3[5] = p1[5] /\ p3[6] = p2[6] /\ p3[7] = p2[7]
    BY <1>2, <1>3
  <2> QED BY <1>1, <1>2, <1>3, <2>2, <2>3
<1>9. \A c \in 1..3 : /\ p5[5 + 2 * c] = BreathWrite(c, s)
                      /\ p5[6 + 2 * c] = BlinkWrite(c, s)
  BY <1>8
<1>10. \A c \in 1..3 : p5[12 + c] = Write(<<c, "brightness">>, LedColor(s)[c])
  <2> SUFFICES ASSUME NEW c \in 1..3
               PROVE  p5[12 + c] = Write(<<c, "brightness">>, LedColor(s)[c])
    OBVIOUS
  <2>1. 9 + c \in 1..12 /\ 12 + c = 3 + (9 + c)
    OBVIOUS
  <2>2. p5[12 + c] = p4[9 + c]
    BY <1>5, <2>1
  <2> QED BY <1>4, <2>2
<1> QED BY <1>5, <1>6, <1>7, <1>9, <1>10 DEF Channel, ProgramLen

\* Which of the fifteen a write is.
LEMMA WhichWrite ==
  ASSUME NEW s \in Kept, NEW n \in 0..14
  PROVE  \E c \in Channel :
           \/ n + 1 \in {c, 3 + c} /\ Program(s)[n + 1] = Write(<<c, "brightness">>, 0)
           \/ n + 1 = 5 + 2 * c /\ Program(s)[n + 1] = BreathWrite(c, s)
           \/ n + 1 = 6 + 2 * c /\ Program(s)[n + 1] = BlinkWrite(c, s)
           \/ /\ n + 1 = 12 + c
              /\ Program(s)[n + 1] = Write(<<c, "brightness">>, LedColor(s)[c])
<1> DEFINE P == Program(s)
<1>1. \A c \in 1..3 :
        /\ P[c] = Write(<<c, "brightness">>, 0) /\ P[3 + c] = Write(<<c, "brightness">>, 0)
        /\ P[5 + 2 * c] = BreathWrite(c, s) /\ P[6 + 2 * c] = BlinkWrite(c, s)
        /\ P[12 + c] = Write(<<c, "brightness">>, LedColor(s)[c])
  BY ProgramIs DEF Channel
<1> HIDE DEF P
<1>2. \E c \in 1..3 : \/ n + 1 = c \/ n + 1 = 3 + c \/ n + 1 = 5 + 2 * c
                      \/ n + 1 = 6 + 2 * c \/ n + 1 = 12 + c
  <2>1. \/ n + 1 = 1 \/ n + 1 = 2 \/ n + 1 = 3 \/ n + 1 = 3 + 1 \/ n + 1 = 3 + 2 \/ n + 1 = 3 + 3
        \/ n + 1 = 5 + 2 * 1 \/ n + 1 = 5 + 2 * 2 \/ n + 1 = 5 + 2 * 3
        \/ n + 1 = 6 + 2 * 1 \/ n + 1 = 6 + 2 * 2 \/ n + 1 = 6 + 2 * 3
        \/ n + 1 = 12 + 1 \/ n + 1 = 12 + 2 \/ n + 1 = 12 + 3
    OBVIOUS
  <2>2. 1 \in 1..3 /\ 2 \in 1..3 /\ 3 \in 1..3
    OBVIOUS
  <2> QED BY ONLY <2>1, <2>2, Zenon
<1>3. PICK c \in 1..3 : \/ n + 1 = c \/ n + 1 = 3 + c \/ n + 1 = 5 + 2 * c
                        \/ n + 1 = 6 + 2 * c \/ n + 1 = 12 + c
  BY <1>2
<1> QED BY <1>1, <1>3 DEF P, Channel

\* One more write that goes through.
LEMMA OneMore ==
  ASSUME NEW s \in Kept, NEW n \in 0..14, NEW fs, DOMAIN fs = Files, Holds(fs, n, s)
  PROVE  Holds([fs EXCEPT ![Program(s)[n + 1].file] = Program(s)[n + 1].value], n + 1, s)
<1> DEFINE w == Program(s)[n + 1]
           gs == [fs EXCEPT ![w.file] = w.value]
<1>0. PICK c \in Channel :
        \/ n + 1 \in {c, 3 + c} /\ w = Write(<<c, "brightness">>, 0)
        \/ n + 1 = 5 + 2 * c /\ w = BreathWrite(c, s)
        \/ n + 1 = 6 + 2 * c /\ w = BlinkWrite(c, s)
        \/ n + 1 = 12 + c /\ w = Write(<<c, "brightness">>, LedColor(s)[c])
  BY WhichWrite
<1> HIDE DEF w
<1> SUFFICES ASSUME NEW d \in Channel
             PROVE  /\ d <= n + 1 /\ n + 1 < 12 + d => gs[<<d, "brightness">>] = 0
                    /\ n + 1 >= 12 + d => gs[<<d, "brightness">>] = LedColor(s)[d]
                    /\ n + 1 >= 5 + 2 * d => gs[<<d, "breath">>] = BreathPattern(s)
                    /\ n + 1 >= 6 + 2 * d =>
                         gs[<<d, "blink">>] = IF Blinks(s) /\ LedColor(s)[d] # 0 THEN 1 ELSE 0
  BY DEF Holds, w
<1>1. ASSUME NEW e \in Channel, NEW a \in {"brightness", "breath", "blink"},
             w.file = <<e, a>>
      PROVE  \A b \in {"brightness", "breath", "blink"} :
               gs[<<d, b>>] = IF e = d /\ a = b THEN w.value ELSE fs[<<d, b>>]
  BY <1>1 DEF Files, LedFiles
<1> HIDE DEF gs
<1>2. /\ d <= n /\ n < 12 + d => fs[<<d, "brightness">>] = 0
      /\ n >= 12 + d => fs[<<d, "brightness">>] = LedColor(s)[d]
      /\ n >= 5 + 2 * d => fs[<<d, "breath">>] = BreathPattern(s)
      /\ n >= 6 + 2 * d =>
           fs[<<d, "blink">>] = IF Blinks(s) /\ LedColor(s)[d] # 0 THEN 1 ELSE 0
  BY DEF Holds
<1>3. c \in 1..3 /\ d \in 1..3
  BY DEF Channel
<1>4. CASE n + 1 \in {c, 3 + c} /\ w = Write(<<c, "brightness">>, 0)
  <2>1. w.file = <<c, "brightness">> /\ w.value = 0
    BY <1>4 DEF Write
  <2>2. gs[<<d, "breath">>] = fs[<<d, "breath">>] /\ gs[<<d, "blink">>] = fs[<<d, "blink">>]
    BY <1>1, <2>1
  <2>3. gs[<<d, "brightness">>] = IF c = d THEN 0 ELSE fs[<<d, "brightness">>]
    BY <1>1, <2>1
  <2> QED BY <1>2, <1>3, <1>4, <2>2, <2>3
<1>5. CASE n + 1 = 5 + 2 * c /\ w = BreathWrite(c, s)
  <2>1. w.file = <<c, "breath">> /\ w.value = BreathPattern(s)
    BY <1>5 DEF Write, BreathWrite
  <2>2. /\ gs[<<d, "brightness">>] = fs[<<d, "brightness">>]
        /\ gs[<<d, "blink">>] = fs[<<d, "blink">>]
    BY <1>1, <2>1
  <2>3. gs[<<d, "breath">>] = IF c = d THEN BreathPattern(s) ELSE fs[<<d, "breath">>]
    BY <1>1, <2>1
  <2> HIDE DEF BreathPattern
  <2> QED BY <1>2, <1>3, <1>5, <2>2, <2>3
<1>6. CASE n + 1 = 6 + 2 * c /\ w = BlinkWrite(c, s)
  <2> DEFINE B(e) == IF Blinks(s) /\ LedColor(s)[e] # 0 THEN 1 ELSE 0
  <2>1. w.file = <<c, "blink">> /\ w.value = B(c)
    BY <1>6 DEF Write, BlinkWrite
  <2>2. /\ gs[<<d, "brightness">>] = fs[<<d, "brightness">>]
        /\ gs[<<d, "breath">>] = fs[<<d, "breath">>]
    BY <1>1, <2>1
  <2>3. gs[<<d, "blink">>] = IF c = d THEN B(d) ELSE fs[<<d, "blink">>]
    BY <1>1, <2>1
  <2>4. n >= 6 + 2 * d => fs[<<d, "blink">>] = B(d)
    BY <1>2
  <2> HIDE DEF B
  <2>5. n + 1 >= 6 + 2 * d => gs[<<d, "blink">>] = B(d)
    BY <1>3, <1>6, <2>3, <2>4
  <2> QED BY <1>2, <1>3, <1>6, <2>2, <2>5 DEF B
<1>7. CASE n + 1 = 12 + c /\ w = Write(<<c, "brightness">>, LedColor(s)[c])
  <2>1. w.file = <<c, "brightness">> /\ w.value = LedColor(s)[c]
    BY <1>7 DEF Write
  <2>2. gs[<<d, "breath">>] = fs[<<d, "breath">>] /\ gs[<<d, "blink">>] = fs[<<d, "blink">>]
    BY <1>1, <2>1
  <2>3. gs[<<d, "brightness">>] = IF c = d THEN LedColor(s)[d] ELSE fs[<<d, "brightness">>]
    BY <1>1, <2>1
  <2> QED BY <1>2, <1>3, <1>7, <2>2, <2>3
<1> QED BY <1>0, <1>4, <1>5, <1>6, <1>7

\* When all has gone through, the LED shows the request, and the other way round.
LEMMA AllHolds ==
  ASSUME NEW s \in Kept
  PROVE  Holds(files, ProgramLen, s) <=> Shown = Look(s)
<1>1. Holds(files, ProgramLen, s) <=>
        \A c \in Channel :
          /\ files[<<c, "brightness">>] = LedColor(s)[c]
          /\ files[<<c, "breath">>] = BreathPattern(s)
          /\ files[<<c, "blink">>] = IF Blinks(s) /\ LedColor(s)[c] # 0 THEN 1 ELSE 0
  BY DEF Holds, ProgramLen, Channel
<1>2. LedColor(s) = [c \in Channel |-> LedColor(s)[c]]
  BY KeptIs
<1> DEFINE B(c) == IF Blinks(s) /\ LedColor(s)[c] # 0 THEN 1 ELSE 0
<1>3. Shown = Look(s) <=>
        /\ [c \in Channel |-> files[<<c, "brightness">>]] = LedColor(s)
        /\ [c \in Channel |-> files[<<c, "blink">>]] = [c \in Channel |-> B(c)]
        /\ [c \in Channel |-> files[<<c, "breath">>]] = [c \in Channel |-> BreathPattern(s)]
  BY DEF Shown, Look
<1> HIDE DEF B
<1>4. Shown = Look(s) <=>
        \A c \in Channel :
          /\ files[<<c, "brightness">>] = LedColor(s)[c]
          /\ files[<<c, "breath">>] = BreathPattern(s)
          /\ files[<<c, "blink">>] = B(c)
  BY <1>2, <1>3
<1> QED BY <1>1, <1>4 DEF B

-----------------------------------------------------------------------------
(* The steps.                                                              *)

\* Two threads inside set_light functions are one.
LEMMA OneInside ==
  ASSUME LockInv, NEW t \in Threads, NEW u \in Threads, pc[t] # "idle", pc[u] # "idle"
  PROVE  t = u
BY DEF LockInv

\* Whoever waits for g_lock finds nobody inside.
LEMMA NobodyInside ==
  ASSUME LockInv, g_lock = NoThread, NEW t \in Threads
  PROVE  pc[t] = "idle"
BY ThreadsAssumption DEF LockInv

Scalars == /\ once \in BOOLEAN /\ devices \subseteq Lights
           /\ g_lock \in Threads \cup {NoThread} /\ faulty \in BOOLEAN

LEMMA TypeFromData == DataInv /\ Scalars => TypeOK
<1> SUFFICES ASSUME DataInv, Scalars
             PROVE  TypeOK
  OBVIOUS
<1>1. \A f \in Files : IF f[2] = "breath" THEN IsPattern(files[f]) ELSE files[f] \in 0..255
  BY DEF DataInv, Values, IsPattern
<1>2. \A t \in Threads : \A i \in DOMAIN todo[t] : todo[t][i].file \in Files
  <2> SUFFICES ASSUME NEW t \in Threads, NEW i \in DOMAIN todo[t]
               PROVE  todo[t][i].file \in Files
    OBVIOUS
  <2>1. todo[t] \in Seq(Writes)
    BY DEF DataInv
  <2>2. todo[t][i] \in Writes
    BY <2>1, LenProperties
  <2> QED BY <2>2 DEF Writes
<1> QED BY <1>1, <1>2 DEF DataInv, Scalars, TypeOK

LEMMA TypeFromDataNext == DataInv' /\ Scalars' => TypeOK'
BY TypeFromData, PTL

\* A write of the list of a thread, and the rest of the list.
LEMMA HeadAndTail ==
  ASSUME NEW q \in Seq(Writes), q # <<>>
  PROVE  /\ Head(q) \in Writes /\ Head(q) = q[1] /\ Len(q) \in Nat \ {0}
         /\ Tail(q) \in Seq(Writes) /\ Len(Tail(q)) = Len(q) - 1
         /\ \A i \in 1..Len(Tail(q)) : Tail(q)[i] = q[i + 1]
<1>1. /\ Head(q) \in Writes /\ Tail(q) \in Seq(Writes) /\ Len(Tail(q)) = Len(q) - 1
      /\ \A i \in 1..Len(Tail(q)) : Tail(q)[i] = q[i + 1]
  BY HeadTailProperties
<1>2. Len(q) \in Nat \ {0}
  BY EmptySeq
<1> QED BY <1>1, <1>2

LEMMA InitInv == Init => IInv
<1> SUFFICES ASSUME Init
             PROVE  IInv
  OBVIOUS
<1> USE DEF Init
<1>1. DataInv
  <2>1. \A f \in Files : files[f] \in Values(f)
    <3>1. <<1, 2, 1, 2>> \in [1..4 -> 1..7]
      OBVIOUS
    <3> QED BY <3>1 DEF Values
  <2>2. todo \in [Threads -> Seq(Writes)]
    BY EmptySeq
  <2> QED BY <2>1, <2>2 DEF DataInv, Kept
<1>2. TypeOK
  BY <1>1, TypeFromData DEF Scalars
<1>3. LockInv /\ TodoInv /\ ~Updating
  BY DEF LockInv, TodoInv, Updating
<1>4. Winner(lights) = Dark
  BY DEF Winner, LedLights
<1>5. Shown = Look(Dark)
  <2>1. /\ LedColor(Dark) = <<0, 0, 0>> /\ ~Blinks(Dark)
        /\ BreathPattern(Dark) = <<1, 2, 1, 2>>
    BY DEF LedColor, Blinks, BreathPattern, Dark
  <2>2. \A c \in Channel : /\ files[<<c, "brightness">>] = 0
                           /\ files[<<c, "blink">>] = 0
                           /\ files[<<c, "breath">>] = <<1, 2, 1, 2>>
    BY DEF Files, LedFiles
  <2>3. <<0, 0, 0>> = [c \in Channel |-> 0]
    BY DEF Channel
  <2> QED BY <2>1, <2>2, <2>3 DEF Shown, Look
<1>6. Holds(files, ProgramLen, Dark)
  BY <1>5, AllHolds DEF Kept
<1> QED BY <1>1, <1>2, <1>3, <1>4, <1>6 DEF IInv, FilesInv

LEMMA OpenStep ==
  ASSUME IInv, NEW l \in Lights, Open(l)
  PROVE  IInv'
<1> USE DEF Open, IInv
<1>1. DataInv'
  BY DEF DataInv
<1>2. LockInv'
  BY DEF LockInv
<1>3. TypeOK'
  BY DEF TypeOK
<1>4. TodoInv'
  BY DEF TodoInv, Done
<1>5. FilesInv'
  BY DEF FilesInv, Updating, Done
<1> QED BY <1>1, <1>2, <1>3, <1>4, <1>5

LEMMA SetLightStep ==
  ASSUME IInv, NEW t \in Threads, NEW l \in LedLights, NEW s \in States, SetLight(t, l, s)
  PROVE  /\ IInv'
         /\ lights' = [lights EXCEPT ![l] = IF l = "attention" THEN Attention(s) ELSE s]
         /\ ~Updating /\ Updating'
<1> USE DEF IInv
<1>1. /\ l \in devices /\ pc[t] = "idle" /\ g_lock = NoThread /\ g_lock' = t
      /\ pc' = [pc EXCEPT ![t] = "speaker"]
      /\ lights' = [lights EXCEPT ![l] = IF l = "attention" THEN Attention(s) ELSE s]
      /\ todo' = [todo EXCEPT ![t] = LightsOut \o SpeakerWrites(Winner(lights'))]
      /\ faulty' = FALSE /\ UNCHANGED <<once, devices, files>>
  BY DEF SetLight, Lock
<1> DEFINE w == Winner(lights')
<1>2. lights' \in [LedLights -> Kept]
  BY <1>1 DEF DataInv, Kept
<1>3. w \in Kept
  BY <1>2, WinnerIs
<1>4. Program(w) \in Seq(Writes) /\ Len(Program(w)) = ProgramLen
  BY <1>3, ProgramIs
<1>5. todo' = [todo EXCEPT ![t] = Program(w)]
  BY <1>1 DEF Program
<1>6. \A u \in Threads : pc[u] = "idle"
  BY <1>1, NobodyInside
<1>7. \A u \in Threads : u # t => pc'[u] = "idle" /\ todo'[u] = todo[u]
  BY <1>1, <1>5, <1>6 DEF DataInv
<1>8. pc'[t] = "speaker" /\ todo'[t] = Program(w) /\ Done(t)' = 0
  <2>1. pc'[t] = "speaker" /\ todo'[t] = Program(w)
    BY <1>1, <1>5 DEF DataInv
  <2> QED BY <2>1, <1>4 DEF Done, ProgramLen
<1> HIDE DEF w
<1>9. DataInv'
  BY <1>1, <1>2, <1>4, <1>5 DEF DataInv
<1>10. TypeOK'
  <2>1. Scalars'
    BY <1>1 DEF TypeOK, Scalars
  <2> QED BY <1>9, <2>1, TypeFromDataNext
<1>11. LockInv'
  <2>1. once
    BY <1>1 DEF LockInv
  <2> QED BY <2>1, <1>1, <1>6, <1>7, <1>8 DEF LockInv
<1>12. TodoInv'
  <2> SUFFICES ASSUME NEW u \in Threads, pc'[u] # "idle"
               PROVE  /\ pc'[u] # "single"
                      /\ Len(todo'[u]) <= ProgramLen
                      /\ \A i \in 1..Len(todo'[u]) :
                           todo'[u][i] = Program(Winner(lights'))[Done(u)' + i]
    BY DEF TodoInv
  <2>1. u = t
    BY <1>7
  <2>2. pc'[u] # "single" /\ todo'[u] = Program(w) /\ Done(u)' = 0
    BY <2>1, <1>8
  <2>3. \A i \in 1..Len(Program(w)) : Done(u)' + i = i
    BY <2>2, <1>4 DEF ProgramLen
  <2> QED BY <2>2, <2>3, <1>4 DEF w, ProgramLen
<1>13. FilesInv'
  <2>1. Updating'
    BY <1>8 DEF Updating
  <2>2. Holds(files', 0, w)
    BY DEF Holds, Channel
  <2> QED BY <2>1, <2>2, <1>7, <1>8 DEF FilesInv, w
<1> QED BY <1>1, <1>6, <1>8, <1>9, <1>10, <1>11, <1>12, <1>13 DEF Updating

LEMMA SetSingleStep ==
  ASSUME IInv, NEW t \in Threads, NEW l, NEW file \in {LcdFile, ButtonFile},
         NEW value \in 0..255, SetSingle(t, l, file, value)
  PROVE  IInv' /\ UNCHANGED <<lights, files, faulty>> /\ ~Updating /\ ~Updating'
<1> USE DEF IInv
<1>1. /\ l \in devices /\ pc[t] = "idle" /\ g_lock = NoThread /\ g_lock' = t
      /\ pc' = [pc EXCEPT ![t] = "single"]
      /\ todo' = [todo EXCEPT ![t] = <<Write(file, value)>>]
      /\ UNCHANGED <<once, devices, lights, files, faulty>>
  BY DEF SetSingle, Lock
<1>2. Write(file, value) \in Writes /\ Write(file, value).file \notin LedFiles
  BY DEF Write, Writes, Values, Files, LcdFile, ButtonFile, LedFiles, Channel
<1>3. <<Write(file, value)>> \in Seq(Writes)
  BY <1>2
<1>4. \A u \in Threads : pc[u] = "idle"
  BY <1>1, NobodyInside
<1>5. \A u \in Threads : u # t => pc'[u] = "idle" /\ todo'[u] = todo[u]
  BY <1>1, <1>4 DEF DataInv
<1>6. pc'[t] = "single" /\ todo'[t] = <<Write(file, value)>>
  BY <1>1 DEF DataInv
<1>7. DataInv'
  BY <1>1, <1>3 DEF DataInv
<1>8. Scalars'
  BY <1>1 DEF TypeOK, Scalars
<1>9. TypeOK'
  BY <1>7, <1>8, TypeFromDataNext
<1>10. LockInv'
  BY <1>1, <1>4, <1>5, <1>6 DEF LockInv
<1>11. TodoInv'
  BY <1>2, <1>5, <1>6 DEF TodoInv
<1>12. ~Updating /\ ~Updating'
  BY <1>4, <1>5, <1>6 DEF Updating
<1>13. FilesInv'
  BY <1>1, <1>5, <1>6, <1>12 DEF FilesInv
<1> QED BY <1>1, <1>7, <1>9, <1>10, <1>11, <1>12, <1>13

\* What the write of a thread inside does to the files.
LEMMA WriteIs ==
  ASSUME IInv, NEW t \in Threads, WriteFile(t)
  PROVE  /\ pc[t] # "idle" /\ Done(t) \in Int /\ Len(todo[t]) \in Nat \ {0}
         /\ Head(todo[t]) \in Writes /\ Head(todo[t]) = todo[t][1]
         /\ todo' = [todo EXCEPT ![t] = Tail(todo[t])]
         /\ todo'[t] \in Seq(Writes) /\ Done(t)' = Done(t) + 1
         /\ Len(todo'[t]) = Len(todo[t]) - 1
         /\ \A i \in 1..Len(todo'[t]) : todo'[t][i] = todo[t][i + 1]
         /\ \/ /\ files' = [files EXCEPT ![Head(todo[t]).file] = Head(todo[t]).value]
               /\ faulty' = faulty
            \/ /\ files' = files
               /\ faulty' = (faulty \/ Head(todo[t]).file \in LedFiles)
         /\ UNCHANGED <<once, devices, g_lock, lights, pc>>
<1>1. pc[t] # "idle" /\ todo[t] # <<>> /\ todo[t] \in Seq(Writes)
  BY DEF IInv, LockInv, DataInv, WriteFile
<1>2. /\ Head(todo[t]) \in Writes /\ Head(todo[t]) = todo[t][1]
      /\ Len(todo[t]) \in Nat \ {0}
      /\ Tail(todo[t]) \in Seq(Writes) /\ Len(Tail(todo[t])) = Len(todo[t]) - 1
      /\ \A i \in 1..Len(Tail(todo[t])) : Tail(todo[t])[i] = todo[t][i + 1]
  BY <1>1, HeadAndTail
<1>3. todo' = [todo EXCEPT ![t] = Tail(todo[t])] /\ todo'[t] = Tail(todo[t])
  BY DEF WriteFile, IInv, DataInv
<1>4. Done(t)' = Done(t) + 1 /\ Done(t) \in Int
  <2>0. Len(todo'[t]) = Len(Tail(todo[t])) /\ Len(todo[t]) \in Nat \ {0}
    BY <1>2, <1>3, Zenon
  <2>1. Len(todo[t]) \in Int /\ Len(todo'[t]) = Len(todo[t]) - 1
    BY ONLY <1>2, <2>0
  <2> QED BY ONLY <2>1 DEF Done, ProgramLen
<1>5. /\ \/ /\ files' = [files EXCEPT ![Head(todo[t]).file] = Head(todo[t]).value]
            /\ faulty' = faulty
         \/ /\ files' = files
            /\ faulty' = (faulty \/ Head(todo[t]).file \in LedFiles)
      /\ UNCHANGED <<once, devices, g_lock, lights, pc>>
  BY DEF WriteFile
<1> QED BY <1>1, <1>2, <1>3, <1>4, <1>5

\* The write of a thread that updates the LED is the next of its program.
LEMMA ProgramWrite ==
  ASSUME IInv, NEW t \in Threads, WriteFile(t), pc[t] = "speaker"
  PROVE  /\ Done(t) \in 0..14 /\ Winner(lights) \in Kept
         /\ Head(todo[t]) = Program(Winner(lights))[Done(t) + 1]
         /\ Head(todo[t]).file \in LedFiles
<1>1. Len(todo[t]) \in Nat \ {0} /\ Head(todo[t]) = todo[t][1]
  BY WriteIs
<1>2. /\ Len(todo[t]) <= ProgramLen
      /\ \A i \in 1..Len(todo[t]) :
           todo[t][i] = Program(Winner(lights))[Done(t) + i]
  BY DEF IInv, TodoInv
<1>3. Done(t) \in 0..14
  <2>1. PICK n \in Nat \ {0} : n = Len(todo[t]) /\ n <= 15
    BY <1>1, <1>2 DEF ProgramLen
  <2>2. Done(t) = 15 - n
    BY <2>1 DEF Done, ProgramLen
  <2>3. n <= 15
    BY <2>1
  <2>4. 15 - n \in 0..14
    BY ONLY n \in Nat \ {0}, <2>3
  <2> QED BY ONLY <2>2, <2>4, Zenon
<1>4. Winner(lights) \in Kept
  BY WinnerIs DEF IInv, DataInv
<1>5. todo[t][1] = Program(Winner(lights))[Done(t) + 1]
  BY <1>1, <1>2
<1>6. Program(Winner(lights))[Done(t) + 1].file \in LedFiles
  <2>1. PICK c \in Channel, a \in {"brightness", "breath", "blink"} :
          Program(Winner(lights))[Done(t) + 1].file = <<c, a>>
    <3> DEFINE w == Program(Winner(lights))[Done(t) + 1]
    <3>1. \E c \in Channel :
            \/ w = Write(<<c, "brightness">>, 0)
            \/ w = BreathWrite(c, Winner(lights))
            \/ w = BlinkWrite(c, Winner(lights))
            \/ w = Write(<<c, "brightness">>, LedColor(Winner(lights))[c])
      BY <1>3, <1>4, WhichWrite
    <3> HIDE DEF w
    <3>2. \E c \in Channel, a \in {"brightness", "breath", "blink"} : w.file = <<c, a>>
      BY <3>1 DEF Write, BreathWrite, BlinkWrite
    <3> QED BY <3>2 DEF w
  <2> QED BY <2>1 DEF LedFiles
<1> QED BY <1>1, <1>3, <1>4, <1>5, <1>6

LEMMA WriteStep ==
  ASSUME IInv, NEW t \in Threads, WriteFile(t)
  PROVE  /\ IInv'
         /\ Updating' <=> Updating
         /\ ~Updating => Shown' = Shown /\ faulty' = faulty
<1> DEFINE h == Head(todo[t])
<1> USE DEF IInv
<1>1. /\ pc[t] # "idle" /\ Done(t) \in Int /\ Len(todo[t]) \in Nat \ {0}
      /\ h \in Writes /\ h = todo[t][1]
      /\ todo' = [todo EXCEPT ![t] = Tail(todo[t])]
      /\ todo'[t] \in Seq(Writes) /\ Done(t)' = Done(t) + 1
      /\ Len(todo'[t]) = Len(todo[t]) - 1
      /\ \A i \in 1..Len(todo'[t]) : todo'[t][i] = todo[t][i + 1]
      /\ \/ files' = [files EXCEPT ![h.file] = h.value] /\ faulty' = faulty
         \/ files' = files /\ faulty' = (faulty \/ h.file \in LedFiles)
      /\ UNCHANGED <<once, devices, g_lock, lights, pc>>
  BY WriteIs
<1> HIDE DEF h
<1>2. \A u \in Threads : u # t => pc[u] = "idle" /\ todo'[u] = todo[u]
  BY <1>1, OneInside DEF DataInv
<1>3. DataInv'
  <2>1. \A f \in Files : files'[f] \in Values(f)
    BY <1>1 DEF DataInv, Writes
  <2>2. todo' \in [Threads -> Seq(Writes)] /\ DOMAIN files' = Files
    BY <1>1 DEF DataInv
  <2> QED BY <1>1, <2>1, <2>2 DEF DataInv
<1>4. Scalars'
  BY <1>1 DEF TypeOK, Scalars
<1>5. TypeOK'
  BY <1>3, <1>4, TypeFromDataNext
<1>6. LockInv'
  BY <1>1, <1>2 DEF LockInv
<1>7. TodoInv'
  <2>1. ASSUME pc[t] = "single"
        PROVE  \A i \in 1..Len(todo'[t]) : todo'[t][i].file \notin LedFiles
    BY <1>1, <2>1 DEF TodoInv
  <2>2. ASSUME pc[t] = "speaker"
        PROVE  /\ Len(todo'[t]) <= ProgramLen
               /\ \A i \in 1..Len(todo'[t]) :
                    todo'[t][i] = Program(Winner(lights))[Done(t)' + i]
    <3>1. Len(todo'[t]) <= ProgramLen
      BY <1>1, <2>2 DEF TodoInv, ProgramLen
    <3>2. ASSUME NEW i \in 1..Len(todo'[t])
          PROVE  todo'[t][i] = Program(Winner(lights))[Done(t)' + i]
      <4>1. i + 1 \in 1..Len(todo[t]) /\ Done(t)' + i = Done(t) + (i + 1)
        <5>1. /\ Done(t) \in Int /\ Done(t)' = Done(t) + 1 /\ Len(todo[t]) \in Nat
              /\ Len(todo'[t]) = Len(todo[t]) - 1
          BY <1>1
        <5> QED BY ONLY <5>1, i \in 1..Len(todo'[t])
      <4>2. todo[t][i + 1] = Program(Winner(lights))[Done(t) + (i + 1)]
        BY <2>2, <4>1 DEF TodoInv
      <4> QED BY <1>1, <4>1, <4>2
    <3> QED BY <3>1, <3>2
  <2> QED BY <1>1, <1>2, <2>1, <2>2 DEF TodoInv
<1>8. Updating' <=> Updating
  BY <1>1 DEF Updating
<1>9. CASE pc[t] = "speaker"
  <2>1. /\ Done(t) \in 0..14 /\ Winner(lights) \in Kept
        /\ h = Program(Winner(lights))[Done(t) + 1] /\ h.file \in LedFiles
    BY <1>9, ProgramWrite DEF h
  <2>2. Updating
    BY <1>9 DEF Updating
  <2>3. ASSUME ~faulty'
        PROVE  Holds(files', Done(t)', Winner(lights'))
    <3>1. ~faulty /\ files' = [files EXCEPT ![h.file] = h.value]
      <4>1. ~(faulty' = (faulty \/ h.file \in LedFiles))
        BY <2>1, <2>3
      <4> QED BY <1>1, <2>3, <4>1
    <3>2. Holds(files, Done(t), Winner(lights)) /\ DOMAIN files = Files
      BY <1>9, <3>1 DEF FilesInv, DataInv
    <3>3. Holds(files', Done(t) + 1, Winner(lights))
      BY <2>1, <3>1, <3>2, OneMore
    <3> QED BY <1>1, <3>3
  <2>4. FilesInv'
    BY <1>1, <1>2, <1>8, <2>2, <2>3 DEF FilesInv
  <2> QED BY <1>3, <1>5, <1>6, <1>7, <1>8, <2>2, <2>4
<1>10. CASE pc[t] = "single"
  <2>1. h.file \notin LedFiles
    BY <1>1, <1>10 DEF TodoInv
  <2>2. faulty' = faulty
    <3>1. faulty \in BOOLEAN
      BY DEF TypeOK
    <3> QED BY <1>1, <2>1, <3>1
  <2>3. \A f \in LedFiles : files'[f] = files[f]
    BY <1>1, <2>1 DEF DataInv, Files
  <2>4. ~Updating
    BY <1>2, <1>10 DEF Updating
  <2>5. Shown' = Shown
    BY <2>3 DEF Shown, LedFiles
  <2>6. Winner(lights) \in Kept /\ lights' = lights
    BY <1>1, WinnerIs DEF DataInv
  <2>7. FilesInv'
    <3>1. ~Updating'
      BY <1>8, <2>4
    <3>2. Holds(files, ProgramLen, Winner(lights)) => Holds(files', ProgramLen, Winner(lights))
      BY <2>3 DEF Holds, ProgramLen, LedFiles
    <3>3. \A u \in Threads : pc'[u] # "speaker"
      BY <3>1 DEF Updating
    <3> QED BY <2>2, <2>4, <2>6, <3>1, <3>2, <3>3 DEF FilesInv
  <2> QED BY <1>3, <1>5, <1>6, <1>7, <1>8, <2>2, <2>5, <2>7
<1> QED BY <1>1, <1>9, <1>10 DEF DataInv

LEMMA UnlockStep ==
  ASSUME IInv, NEW t \in Threads, Unlock(t)
  PROVE  /\ IInv' /\ ~Updating' /\ UNCHANGED <<lights, files, faulty>>
         /\ Updating <=> pc[t] = "speaker"
<1> USE DEF IInv
<1>1. /\ pc[t] # "idle" /\ todo[t] = <<>> /\ g_lock' = NoThread
      /\ pc' = [pc EXCEPT ![t] = "idle"]
      /\ UNCHANGED <<once, devices, lights, files, todo, faulty>>
  BY DEF Unlock
<1>2. \A u \in Threads : u # t => pc[u] = "idle"
  BY <1>1, OneInside
<1>3. \A u \in Threads : pc'[u] = "idle" /\ todo'[u] = <<>>
  BY <1>1, <1>2 DEF DataInv, LockInv
<1>4. DataInv'
  BY <1>1 DEF DataInv
<1>5. Scalars'
  BY <1>1 DEF TypeOK, Scalars
<1>6. TypeOK'
  BY <1>4, <1>5, TypeFromDataNext
<1>7. LockInv'
  BY <1>1, <1>3 DEF LockInv
<1>8. TodoInv'
  BY <1>3 DEF TodoInv
<1>9. ~Updating' /\ (Updating <=> pc[t] = "speaker")
  BY <1>2, <1>3 DEF Updating
<1>10. FilesInv'
  <2>1. CASE pc[t] = "speaker"
    <3>1. Done(t) = ProgramLen
      BY <1>1, EmptySeq DEF Done, ProgramLen
    <3>2. ~faulty => Holds(files, ProgramLen, Winner(lights))
      BY <2>1, <3>1 DEF FilesInv
    <3> QED BY <1>1, <1>3, <3>2 DEF FilesInv
  <2>2. CASE ~Updating
    BY <1>1, <1>3, <2>2 DEF FilesInv
  <2> QED BY <1>9, <2>1, <2>2
<1> QED BY <1>1, <1>4, <1>6, <1>7, <1>8, <1>9, <1>10

LEMMA BrightnessType ==
  ASSUME NEW s \in States
  PROVE  RgbToBrightness(s) \in 0..255 /\ s.color[3] \in 0..255
<1>1. s.color[1] \in 0..255 /\ s.color[2] \in 0..255 /\ s.color[3] \in 0..255
  BY StatesAssumption DEF LightState
<1>2. \A r, g, b \in 0..255 : (77 * r + 150 * g + 29 * b) \div 256 \in 0..255
  OBVIOUS
<1> QED BY <1>1, <1>2 DEF RgbToBrightness

\* The two lights of one file.
LEMMA SingleStep ==
  ASSUME IInv, NEW t \in Threads, NEW s \in States, SetBacklight(t, s) \/ SetButtons(t, s)
  PROVE  IInv' /\ UNCHANGED <<lights, files, faulty>> /\ ~Updating /\ ~Updating'
<1>1. CASE SetBacklight(t, s)
  BY <1>1, BrightnessType, SetSingleStep DEF SetBacklight
<1>2. CASE SetButtons(t, s)
  BY <1>2, BrightnessType, SetSingleStep DEF SetButtons
<1> QED BY <1>1, <1>2

LEMMA InvStep == IInv /\ [Next]_vars => IInv'
<1> SUFFICES ASSUME IInv, [Next]_vars
             PROVE  IInv'
  OBVIOUS
<1>1. CASE UNCHANGED vars
  BY <1>1 DEF vars, IInv, TypeOK, DataInv, LockInv, TodoInv, FilesInv, Updating, Done
<1>2. ASSUME NEW l \in Lights, Open(l)
      PROVE  IInv'
  BY <1>2, OpenStep
<1>3. ASSUME NEW t \in Threads, NEW s \in States, NEW l \in LedLights, SetLight(t, l, s)
      PROVE  IInv'
  BY <1>3, SetLightStep
<1>4. ASSUME NEW t \in Threads, NEW s \in States, SetBacklight(t, s) \/ SetButtons(t, s)
      PROVE  IInv'
  BY <1>4, SingleStep
<1>5. ASSUME NEW t \in Threads, WriteFile(t)
      PROVE  IInv'
  BY <1>5, WriteStep
<1>6. ASSUME NEW t \in Threads, Unlock(t)
      PROVE  IInv'
  BY <1>6, UnlockStep
<1> QED BY <1>1, <1>2, <1>3, <1>4, <1>5, <1>6 DEF Next

-----------------------------------------------------------------------------
(* The invariant, and what it says of the code.                            *)

\* However set_light calls of any number of threads interleave, one thread is
\* inside at a time, and the files hold what its writes so far make of the
\* winner's program (lights-aw2013.c:287-430).
THEOREM Invariance == Spec => []IInv
<1>1. IInv /\ [Next]_vars => IInv'
  BY InvStep
<1> QED BY InitInv, <1>1, PTL DEF Spec

\* What is kept, written and still to be written stays in range: a pattern is
\* four numbers of seconds from 1 to 7, a channel has 8 bits.
THEOREM TypeCorrect == Spec => []TypeOK
BY Invariance, PTL DEF IInv

\* As long as the writes of an update go through, it changes the pattern of a
\* channel only when all channels are dark (lights-aw2013.c:361).
THEOREM PatternsChangeInTheDark == Spec => PatternChangesInTheDark
<1> DEFINE A == \A c \in Channel, f \in {"blink", "breath"} :
                  ~faulty /\ files'[<<c, f>>] # files[<<c, f>>] =>
                    \A d \in Channel : files[<<d, "brightness">>] = 0
<1>1. IInv /\ [Next]_vars => [A]_vars
  <2> SUFFICES ASSUME IInv, Next, NEW c \in Channel, NEW f \in {"blink", "breath"},
                      ~faulty, files'[<<c, f>>] # files[<<c, f>>], NEW d \in Channel
               PROVE  files[<<d, "brightness">>] = 0
    OBVIOUS
  <2>1. files' # files
    OBVIOUS
  <2>2. PICK t \in Threads : WriteFile(t)
    BY <2>1 DEF Next, Open, SetLight, SetBacklight, SetButtons, SetSingle, Unlock
  <2>3. /\ pc[t] # "idle" /\ files' = [files EXCEPT ![Head(todo[t]).file] = Head(todo[t]).value]
        /\ Head(todo[t]) = todo[t][1] /\ Len(todo[t]) \in Nat \ {0}
    BY <2>1, <2>2, WriteIs
  <2>4. DOMAIN files = Files /\ <<c, f>> \in LedFiles /\ <<c, f>> \in Files
    BY DEF IInv, DataInv, Files, LedFiles
  <2>5. Head(todo[t]).file = <<c, f>>
    BY <2>3, <2>4
  <2>6. pc[t] = "speaker"
    <3>1. 1 \in 1..Len(todo[t])
      BY <2>3
    <3> QED BY <2>3, <2>4, <2>5, <3>1 DEF IInv, TodoInv, DataInv
  <2> DEFINE n == Done(t)
             w == Program(Winner(lights))[n + 1]
  <2>7. n \in 0..14 /\ Winner(lights) \in Kept /\ w.file = <<c, f>>
    BY <2>2, <2>5, <2>6, ProgramWrite
  <2>8. \E e \in Channel :
          \/ w = Write(<<e, "brightness">>, 0)
          \/ n + 1 = 5 + 2 * e
          \/ n + 1 = 6 + 2 * e
          \/ w = Write(<<e, "brightness">>, LedColor(Winner(lights))[e])
    BY <2>7, WhichWrite
  <2>9. Holds(files, n, Winner(lights))
    BY <2>6 DEF IInv, FilesInv
  <2> HIDE DEF n, w
  <2>10. \A e \in Channel : \A v : w # Write(<<e, "brightness">>, v)
    BY <2>7 DEF Write
  <2>11. d <= n /\ n < 12 + d
    BY <2>7, <2>8, <2>10 DEF Channel
  <2> QED BY <2>9, <2>11 DEF Holds
<1> QED BY Invariance, <1>1, PTL DEF Spec, PatternChangesInTheDark

\* Each step of the HAL is a step of the arbiter or none: taking the lock to
\* set one of the three lights begins an update, giving it back ends it with
\* the winner shown, or with any look if a write of it failed; the files are
\* written in between (lights-aw2013.c:287-430).
THEOREM Refinement == Spec => ImplementsArbiter
<1> DEFINE Bar == IF Updating THEN Changing ELSE IF faulty THEN Broken ELSE Shown
<1>0. /\ Shown # Changing /\ Broken # Changing
      /\ \A s \in Kept : Look(s) # Changing /\ Look(s) # Broken
  <2>1. DOMAIN Changing = {"update"} /\ DOMAIN Broken = {"broken"}
    BY DEF Changing, Broken
  <2>2. DOMAIN Shown = {"color", "blink", "breath"}
    BY DEF Shown
  <2>3. \A s \in Kept : DOMAIN Look(s) = {"color", "blink", "breath"}
    BY DEF Look
  <2> QED BY <2>1, <2>2, <2>3
<1>1. Init => Arbiter!Init
  <2> SUFFICES ASSUME Init
               PROVE  Arbiter!Init
    OBVIOUS
  <2>1. IInv /\ ~faulty /\ ~Updating /\ Winner(lights) = Dark /\ Dark \in Kept
    BY InitInv DEF Init, Updating, Winner, LedLights, Kept
  <2>2. Shown = Look(Dark)
    BY <2>1, AllHolds DEF IInv, FilesInv
  <2> QED BY <2>1, <2>2 DEF Init, Arbiter!Init, Arbiter!Lights, LedLights
<1>2. IInv /\ [Next]_vars => [Arbiter!Next]_(Arbiter!vars)
  <2> SUFFICES ASSUME IInv, [Next]_vars
               PROVE  Arbiter!Next \/ UNCHANGED <<lights, Bar>>
    BY DEF Arbiter!vars
  <2>1. CASE UNCHANGED vars
    <3>1. Updating' <=> Updating
      BY <2>1 DEF vars, Updating
    <3>2. Shown' = Shown
      BY <2>1 DEF vars, Shown
    <3> QED BY <2>1, <3>1, <3>2 DEF vars, Changing, Broken
  <2>2. ASSUME NEW l \in Lights, Open(l)
        PROVE  UNCHANGED <<lights, Bar>>
    <3>1. Updating' <=> Updating
      BY <2>2 DEF Open, Updating
    <3>2. Shown' = Shown
      BY <2>2 DEF Open, Shown
    <3> QED BY <2>2, <3>1, <3>2 DEF Open, Changing, Broken
  <2>3. ASSUME NEW t \in Threads, NEW s \in States, NEW l \in LedLights, SetLight(t, l, s)
        PROVE  Arbiter!Next
    <3> DEFINE r == IF l = "attention" THEN Attention(s) ELSE s
    <3>1. /\ lights' = [lights EXCEPT ![l] = r] /\ r \in Kept
          /\ ~Updating /\ Updating'
      BY <2>3, SetLightStep DEF Kept
    <3>2. Bar # Changing /\ Bar' = Changing
      BY <1>0, <3>1 DEF Changing
    <3>3. Arbiter!Begin(l, r)
      BY <3>1, <3>2 DEF Arbiter!Begin
    <3> HIDE DEF r
    <3> QED BY <3>1, <3>3 DEF Arbiter!Next, Arbiter!Lights, LedLights
  <2>4. ASSUME NEW t \in Threads, NEW s \in States, SetBacklight(t, s) \/ SetButtons(t, s)
        PROVE  UNCHANGED <<lights, Bar>>
    <3>1. UNCHANGED <<lights, files, faulty>> /\ ~Updating /\ ~Updating'
      BY <2>4, SingleStep
    <3>2. Shown' = Shown
      BY <3>1 DEF Shown
    <3> QED BY <3>1, <3>2 DEF Broken
  <2>5. ASSUME NEW t \in Threads, WriteFile(t)
        PROVE  UNCHANGED <<lights, Bar>>
    <3>1. /\ Updating' <=> Updating
          /\ ~Updating => Shown' = Shown /\ faulty' = faulty
          /\ lights' = lights
      BY <2>5, WriteStep, WriteIs
    <3> QED BY <3>1 DEF Changing, Broken
  <2>6. ASSUME NEW t \in Threads, Unlock(t)
        PROVE  Arbiter!Next \/ UNCHANGED <<lights, Bar>>
    <3>1. IInv' /\ ~Updating' /\ UNCHANGED <<lights, files, faulty>>
      BY <2>6, UnlockStep
    <3>2. Shown' = Shown
      BY <3>1 DEF Shown
    <3>3. CASE ~Updating
      BY <3>1, <3>2, <3>3 DEF Broken
    <3>4. CASE Updating
      <4>1. Bar = Changing
        BY <3>4
      <4>2. Bar' \in {Look(Winner(lights)), Broken}
        <5>1. ~faulty => Holds(files, ProgramLen, Winner(lights))
          <6>1. ~faulty' => Holds(files', ProgramLen, Winner(lights'))
            BY <3>1 DEF IInv, FilesInv
          <6> QED BY <3>1, <6>1
        <5>2. Winner(lights) \in Kept
          BY WinnerIs DEF IInv, DataInv
        <5>3. ~faulty => Shown = Look(Winner(lights))
          BY <5>1, <5>2, AllHolds
        <5> QED BY <3>1, <3>2, <5>3 DEF Broken
      <4>3. Arbiter!Winner(lights) = Winner(lights)
        BY DEF Arbiter!Winner, Winner
      <4> HIDE DEF Bar
      <4>4. Arbiter!End
        BY <3>1, <4>1, <4>2, <4>3 DEF Arbiter!End, Bar
      <4> QED BY <4>4 DEF Arbiter!Next
    <3> QED BY <3>3, <3>4
  <2> QED BY <2>1, <2>2, <2>3, <2>4, <2>5, <2>6 DEF Next
<1> QED BY Invariance, <1>1, <1>2, PTL DEF Spec, ImplementsArbiter, Arbiter!Spec

=============================================================================

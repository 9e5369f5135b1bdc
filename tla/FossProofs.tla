------------------------------ MODULE FossProofs ------------------------------
(***************************************************************************)
(* Proofs about Foss, for any size of the buffer, any replies of the       *)
(* daemon and any faults: what has been read, what is on the wire and what *)
(* the daemon has still to write are together its reply, or the beginning  *)
(* of it, however they are cut.                                            *)
(***************************************************************************)
EXTENDS Foss, SequenceTheorems, TLAPS

\* The reply of the daemon, wherever its pieces are.
Stream == (buf \o wire) \o rest

\* No reply that is late or missing and no death of the process.
Prompt == faults \subseteq {"connect", "refuse"}

\* Where the socket is open there is a call whose argument is new.
CallInv ==
  /\ pc \in {"idle", "open", "write"} <=> peer = "none"
  /\ pc # "idle" => enabled # mCachedFOSSStatus
  /\ pc = "compare" => peer \in {"replying", "closed"}
  /\ peer \in {"none", "asked"} => buf = <<>> /\ wire = <<>> /\ rest = <<>>
  /\ peer = "closed" => rest = <<>>

\* A reply that begins like a success is one.
StreamInv ==
  Stream # <<>> => /\ Stream[1] \in {"Succ", "Fail"}
                   /\ Stream[1] = "Succ" => foss = enabled

\* A prompt daemon's reply says what it has done, and is looked at only when
\* there is enough of it.
PromptInv ==
  Prompt =>
    /\ peer \in {"none", "asked"} => foss = mCachedFOSSStatus
    /\ peer \in {"replying", "closed"} =>
         \/ foss = enabled /\ SaysSuccess(Stream)
         \/ foss = mCachedFOSSStatus /\ Stream # <<>> /\ Stream[1] = "Fail"
    /\ pc = "compare" => (wire = <<>> /\ rest = <<>>) \/ Len(buf) = BufSize

IInv == TypeOK /\ CallInv /\ StreamInv /\ PromptInv

-----------------------------------------------------------------------------
(* Pieces of a reply.                                                      *)

\* To move the first n pieces of a sequence to the end of another loses none.
LEMMA MovePieces ==
  ASSUME NEW s \in Seq(Pieces), NEW w \in Seq(Pieces), NEW n \in 0..Len(w)
  PROVE  /\ SubSeq(w, 1, n) \in Seq(Pieces) /\ SubSeq(w, n + 1, Len(w)) \in Seq(Pieces)
         /\ (s \o SubSeq(w, 1, n)) \o SubSeq(w, n + 1, Len(w)) = s \o w
         /\ Len(s \o SubSeq(w, 1, n)) = Len(s) + n
<1> DEFINE a == SubSeq(w, 1, n)  b == SubSeq(w, n + 1, Len(w))
<1>1. Len(w) \in Nat /\ \A i \in 1..Len(w) : w[i] \in Pieces
  BY LenProperties
<1>2. a \in Seq(Pieces) /\ Len(a) = n
  <2>1. \A i \in 1..n : w[i] \in Pieces
    BY <1>1
  <2> QED BY <1>1, <2>1, SubSeqProperties
<1>3. b \in Seq(Pieces)
  <2>1. \A i \in (n + 1)..Len(w) : w[i] \in Pieces
    BY <1>1
  <2> QED BY <1>1, <2>1, SubSeqProperties
<1>4. a \o b = w
  <2>1. SubSeq(w, 1, n) \o SubSeq(w, n + 1, Len(w)) = SubSeq(w, 1, Len(w))
    <3>1. 1 \in 1..(Len(w) + 1) /\ n \in (1 - 1)..Len(w) /\ Len(w) \in n..Len(w)
      BY <1>1
    <3> QED BY <3>1, ConcatAdjacentSubSeq
  <2>2. SubSeq(w, 1, Len(w)) = w
    BY SubSeqFull
  <2> QED BY <2>1, <2>2
<1>5. (s \o a) \o b = s \o (a \o b)
  <2>1. s \in Seq(Pieces) /\ a \in Seq(Pieces) /\ b \in Seq(Pieces)
    BY <1>2, <1>3
  <2> HIDE DEF a, b
  <2> QED BY <2>1, ConcatAssociative
<1>6. Len(s \o a) = Len(s) + Len(a)
  BY <1>2, ConcatProperties
<1> QED BY <1>2, <1>3, <1>4, <1>5, <1>6

\* A sequence begins like any of its beginnings.
LEMMA Beginning ==
  ASSUME NEW s \in Seq(Pieces), NEW w \in Seq(Pieces)
  PROVE  /\ s \o w \in Seq(Pieces) /\ Len(s \o w) = Len(s) + Len(w)
         /\ \A i \in 1..Len(s) : (s \o w)[i] = s[i]
         /\ s \o w = <<>> => s = <<>>
         /\ s # <<>> => Len(s) >= 1
BY ConcatProperties, LenProperties

\* What has been read begins the reply.
LEMMA BufBegins ==
  ASSUME TypeOK
  PROVE  /\ Stream \in Seq(Pieces) /\ buf \o wire \in Seq(Pieces)
         /\ Len(Stream) >= Len(buf) /\ Len(buf) \in Nat /\ Len(Stream) \in Nat
         /\ \A i \in 1..Len(buf) : Stream[i] = buf[i]
         /\ \A i \in 1..Len(buf \o wire) : Stream[i] = (buf \o wire)[i]
         /\ buf \o wire # <<>> => Stream # <<>> /\ Len(buf \o wire) >= 1
<1>1. buf \in Seq(Pieces) /\ wire \in Seq(Pieces) /\ rest \in Seq(Pieces)
  BY DEF TypeOK
<1>2. /\ buf \o wire \in Seq(Pieces) /\ Len(buf \o wire) = Len(buf) + Len(wire)
      /\ \A i \in 1..Len(buf) : (buf \o wire)[i] = buf[i]
      /\ buf \o wire # <<>> => Len(buf \o wire) >= 1
  BY <1>1, Beginning
<1>3. /\ Stream \in Seq(Pieces) /\ Len(Stream) = Len(buf \o wire) + Len(rest)
      /\ \A i \in 1..Len(buf \o wire) : Stream[i] = (buf \o wire)[i]
      /\ Stream = <<>> => buf \o wire = <<>>
  BY <1>1, <1>2, Beginning DEF Stream
<1>4. Len(buf) \in Nat /\ Len(wire) \in Nat /\ Len(rest) \in Nat
  BY <1>1, LenProperties
<1> QED BY <1>2, <1>3, <1>4

\* Nothing that begins with a failure says success.
LEMMA FailureIsNone ==
  ASSUME NEW s \in Seq(Pieces), SaysSuccess(s)
  PROVE  s # <<>> /\ s[1] = "Succ"
BY DEF SaysSuccess

-----------------------------------------------------------------------------
(* One step of reading, writing and hanging up.                            *)

\* read() moves pieces from the wire to the buffer, at most what fits.
LEMMA ReadKeepsStream ==
  ASSUME TypeOK, ReadSome
  PROVE  /\ buf' \in Seq(Pieces) /\ wire' \in Seq(Pieces) /\ Len(buf') <= BufSize
         /\ Stream' = Stream
         /\ pc' = "compare" => Len(buf') = BufSize
         /\ pc' \in {"compare", "poll"}
<1> DEFINE n == IF Len(wire) < Room THEN Len(wire) ELSE Room
<1>1. /\ buf \in Seq(Pieces) /\ wire \in Seq(Pieces)
      /\ Len(wire) \in Nat /\ Len(buf) \in Nat /\ Len(buf) <= BufSize
  BY LenProperties DEF TypeOK
<1>2. n \in 0..Len(wire) /\ n <= BufSize - Len(buf)
  BY <1>1, BufSizeAssumption DEF Room
<1>3. buf' = buf \o SubSeq(wire, 1, n) /\ wire' = SubSeq(wire, n + 1, Len(wire))
      /\ rest' = rest /\ pc' = IF n = Room THEN "compare" ELSE "poll"
  BY DEF ReadSome, socket
<1>4. /\ SubSeq(wire, 1, n) \in Seq(Pieces) /\ wire' \in Seq(Pieces)
      /\ buf' \o wire' = buf \o wire /\ Len(buf') = Len(buf) + n
  BY <1>1, <1>2, <1>3, MovePieces
<1>5. buf' \in Seq(Pieces)
  BY <1>1, <1>3, <1>4, Beginning
<1>6. Stream' = Stream
  BY <1>3, <1>4 DEF Stream
<1>7. Len(buf') <= BufSize /\ (n = Room => Len(buf') = BufSize)
  BY <1>1, <1>2, <1>4, BufSizeAssumption DEF Room
<1> QED BY <1>3, <1>4, <1>5, <1>6, <1>7

\* The daemon moves pieces from the rest of its reply to the wire.
LEMMA WriteKeepsStream ==
  ASSUME TypeOK, DaemonWrites
  PROVE  /\ wire' \in Seq(Pieces) /\ rest' \in Seq(Pieces)
         /\ Stream' = Stream
<1>1. buf \in Seq(Pieces) /\ wire \in Seq(Pieces) /\ rest \in Seq(Pieces)
  BY DEF TypeOK
<1>2. PICK n \in 1..Len(rest) : /\ wire' = wire \o SubSeq(rest, 1, n)
                                /\ rest' = SubSeq(rest, n + 1, Len(rest))
  BY DEF DaemonWrites
<1>3. n \in 0..Len(rest)
  BY <1>1, LenProperties
<1>4. /\ SubSeq(rest, 1, n) \in Seq(Pieces) /\ rest' \in Seq(Pieces)
      /\ wire' \o rest' = wire \o rest
  BY <1>1, <1>2, <1>3, MovePieces
<1>5. wire' \in Seq(Pieces)
  BY <1>1, <1>2, <1>4, Beginning
<1>6. buf' = buf
  BY DEF DaemonWrites
<1>7. (buf \o wire') \o rest' = buf \o (wire' \o rest')
  <2>1. buf \in Seq(Pieces) /\ wire' \in Seq(Pieces) /\ rest' \in Seq(Pieces)
    BY <1>1, <1>4, <1>5
  <2> QED BY ONLY <2>1, ConcatAssociative
<1>8. (buf \o wire) \o rest = buf \o (wire \o rest)
  BY <1>1, ConcatAssociative
<1>9. Stream' = (buf \o wire') \o rest'
  BY <1>6 DEF Stream
<1>10. Stream = (buf \o wire) \o rest
  BY DEF Stream
<1> QED BY <1>4, <1>5, <1>7, <1>8, <1>9, <1>10

\* No pieces fit in the buffer.
LEMMA NoPieces == <<>> \in Seq(Pieces) /\ Len(<<>>) = 0 /\ Len(<<>>) <= BufSize
<1>1. <<>> \in Seq(Pieces) /\ Len(<<>>) = 0
  BY EmptySeq
<1> QED BY <1>1, BufSizeAssumption

\* Nothing read, nothing on the wire and nothing to write is no stream, and
\* an answer that has not been written is all of it.
LEMMA EmptyStream ==
  ASSUME NEW r \in Seq(Pieces)
  PROVE  (<<>> \o <<>>) \o r = r
BY ConcatEmptySeq, EmptySeq

\* What the daemon hangs up on leaves the beginning of its reply.
LEMMA CutStream ==
  ASSUME TypeOK, rest' = <<>>, buf' = buf, wire' = wire
  PROVE  Stream' = buf \o wire
<1>1. buf \o wire \in Seq(Pieces)
  BY BufBegins
<1>2. (buf \o wire) \o <<>> = buf \o wire
  BY <1>1, ConcatEmptySeq
<1>3. Stream' = (buf \o wire) \o <<>>
  BY DEF Stream
<1> QED BY <1>2, <1>3

-----------------------------------------------------------------------------
(* The steps, for each part of the invariant.                              *)

LEMMA TypeInit == Init => TypeOK
BY NoPieces DEF Init, TypeOK

LEMMA TypeStep ==
  ASSUME TypeOK, [Next]_vars
  PROVE  TypeOK'
<1> DEFINE Replies == [op : {"get", "set"}, val : BOOLEAN, ok : BOOLEAN] \cup {NoReply}
<1> USE DEF TypeOK, Answer, socket
<1>1. CASE IsEnabled /\ UNCHANGED faults
  BY <1>1 DEF IsEnabled
<1>2. CASE SetCached /\ UNCHANGED faults
  BY <1>2 DEF SetCached
<1>3. ASSUME NEW e \in BOOLEAN, SetEnabled(e), UNCHANGED faults
      PROVE  TypeOK'
  BY <1>3 DEF SetEnabled
<1>4. CASE OpenSocket /\ UNCHANGED faults
  <2>1. /\ UNCHANGED <<faults, foss, mCachedFOSSStatus, enabled, buf, socket>>
        /\ pc' \in {"write", "idle"}
        /\ reply' \in {reply, [op |-> "set", val |-> enabled, ok |-> FALSE]}
    BY <1>4 DEF OpenSocket
  <2>2. enabled \in BOOLEAN /\ reply \in Replies
    OBVIOUS
  <2>3. reply' \in Replies
    <3>1. [op |-> "set", val |-> enabled, ok |-> FALSE] \in Replies
      BY ONLY <2>2
    <3> HIDE DEF Replies
    <3> QED BY ONLY <2>1, <2>2, <3>1
  <2>4. reply' \in [op : {"get", "set"}, val : BOOLEAN, ok : BOOLEAN] \cup {NoReply}
    BY ONLY <2>3
  <2> HIDE DEF Replies
  <2> QED BY <2>1, <2>4, Zenon
<1>5. CASE WriteCommand /\ UNCHANGED faults
  <2>1. /\ UNCHANGED <<faults, foss, mCachedFOSSStatus, enabled, rest, wire>>
        /\ buf' = <<>> /\ pc' \in {"read", "idle"} /\ peer' \in {peer, "asked"}
        /\ reply' \in {reply, [op |-> "set", val |-> enabled, ok |-> FALSE]}
    BY <1>5 DEF WriteCommand
  <2>2. enabled \in BOOLEAN /\ reply \in Replies
    OBVIOUS
  <2>3. reply' \in Replies
    <3>1. [op |-> "set", val |-> enabled, ok |-> FALSE] \in Replies
      BY ONLY <2>2
    <3> HIDE DEF Replies
    <3> QED BY ONLY <2>1, <2>2, <3>1
  <2>4. reply' \in [op : {"get", "set"}, val : BOOLEAN, ok : BOOLEAN] \cup {NoReply}
    BY ONLY <2>3
  <2> HIDE DEF Replies
  <2> QED BY <2>1, <2>4, NoPieces, Zenon
<1>6. CASE ReadSome /\ UNCHANGED faults
  <2>1. /\ UNCHANGED <<faults, foss, mCachedFOSSStatus, enabled, peer, rest, reply>>
        /\ buf' \in Seq(Pieces) /\ wire' \in Seq(Pieces) /\ Len(buf') <= BufSize
        /\ pc' \in {"compare", "poll"}
    BY <1>6, ReadKeepsStream DEF ReadSome
  <2> QED BY <2>1
<1>7. CASE (ReadEnd \/ PollReady \/ PollTimeout) /\ UNCHANGED faults
  BY <1>7 DEF ReadEnd, PollReady, PollTimeout
<1>8. CASE Compare /\ UNCHANGED faults
  BY <1>8, NoPieces DEF Compare, SaysSuccess
<1>9. CASE DaemonApplies /\ UNCHANGED faults
  BY <1>9, RepliesAssumption DEF DaemonApplies
<1>10. CASE DaemonWrites /\ UNCHANGED faults
  <2>1. /\ UNCHANGED <<faults, foss, mCachedFOSSStatus, pc, enabled, buf, peer, reply>>
        /\ wire' \in Seq(Pieces) /\ rest' \in Seq(Pieces)
    BY <1>10, WriteKeepsStream DEF DaemonWrites
  <2> QED BY <2>1
<1>11. CASE DaemonCloses /\ UNCHANGED faults
  BY <1>11, NoPieces DEF DaemonCloses
<1>12. CASE Crash /\ UNCHANGED faults
  BY <1>12, NoPieces DEF Crash
<1>13. CASE UNCHANGED vars
  BY <1>13 DEF vars
<1> QED
  BY <1>1, <1>2, <1>3, <1>4, <1>5, <1>6, <1>7, <1>8, <1>9, <1>10, <1>11, <1>12, <1>13
     DEF Next, Step, Daemon

LEMMA CallStep ==
  ASSUME TypeOK, CallInv, [Next]_vars
  PROVE  CallInv'
<1> USE DEF CallInv, Answer, socket
<1>1. CASE IsEnabled \/ SetCached
  BY <1>1 DEF IsEnabled, SetCached
<1>3. ASSUME NEW e \in BOOLEAN, SetEnabled(e)
      PROVE  CallInv'
  BY <1>3 DEF SetEnabled
<1>4. CASE OpenSocket
  BY <1>4 DEF OpenSocket
<1>5. CASE WriteCommand
  BY <1>5 DEF WriteCommand
<1>6. CASE ReadSome
  <2>1. /\ UNCHANGED <<mCachedFOSSStatus, enabled, peer, rest>>
        /\ wire # <<>> /\ pc = "read" /\ pc' \in {"compare", "poll"}
    BY <1>6, ReadKeepsStream DEF ReadSome
  <2>2. peer \in {"replying", "closed"}
    BY <2>1 DEF TypeOK
  <2> QED BY <2>1, <2>2
<1>7. CASE ReadEnd \/ PollReady \/ PollTimeout
  BY <1>7 DEF ReadEnd, PollReady, PollTimeout
<1>8. CASE Compare
  BY <1>8 DEF Compare
<1>9. CASE DaemonApplies
  BY <1>9 DEF DaemonApplies
<1>10. CASE DaemonWrites
  <2>1. UNCHANGED <<mCachedFOSSStatus, enabled, pc, peer>> /\ peer = "replying"
    BY <1>10 DEF DaemonWrites
  <2> QED BY <2>1
<1>11. CASE DaemonCloses
  BY <1>11 DEF DaemonCloses
<1>12. CASE Crash
  BY <1>12 DEF Crash
<1>13. CASE UNCHANGED vars
  BY <1>13 DEF vars
<1> QED
  BY <1>1, <1>3, <1>4, <1>5, <1>6, <1>7, <1>8, <1>9, <1>10, <1>11, <1>12, <1>13
     DEF Next, Step, Daemon

\* A word of the daemon is never empty and begins with what was done.
LEMMA FirstPiece ==
  /\ \A s \in Successes : s \in Seq(Pieces) /\ s # <<>> /\ s[1] = "Succ"
  /\ \A s \in Failures : s \in Seq(Pieces) /\ s # <<>> /\ s[1] = "Fail"
BY RepliesAssumption, FailureIsNone

\* Before the daemon answers there is no stream.
LEMMA NoStream ==
  ASSUME CallInv, peer \in {"none", "asked"}
  PROVE  Stream = <<>>
<1>1. Stream = (<<>> \o <<>>) \o <<>>
  BY DEF CallInv, Stream
<1>2. <<>> \in Seq(Pieces)
  BY NoPieces
<1> QED BY <1>1, <1>2, EmptyStream

\* The answer of the daemon is the stream.
LEMMA AnswerIsStream ==
  ASSUME CallInv, DaemonApplies
  PROVE  Stream' = rest'
<1>1. buf' = <<>> /\ wire' = <<>> /\ rest' \in Seq(Pieces)
  BY FirstPiece DEF CallInv, DaemonApplies
<1>2. Stream' = (<<>> \o <<>>) \o rest'
  BY <1>1 DEF Stream
<1> QED BY <1>1, <1>2, EmptyStream

LEMMA StreamStep ==
  ASSUME TypeOK, CallInv, StreamInv, [Next]_vars
  PROVE  StreamInv'
<1>1. CASE UNCHANGED <<foss, enabled, buf, wire, rest>>
  BY <1>1 DEF StreamInv, Stream
<1>2. ASSUME NEW e \in BOOLEAN, SetEnabled(e)
      PROVE  StreamInv'
  <2>1. peer = "none" /\ Stream' = Stream
    BY <1>2 DEF SetEnabled, socket, CallInv, Stream
  <2> QED BY <2>1, NoStream DEF StreamInv
<1>3. CASE WriteCommand
  <2>1. buf' = <<>> /\ wire' = <<>> /\ rest' = <<>>
    BY <1>3 DEF WriteCommand, CallInv
  <2> QED BY <2>1, NoPieces, EmptyStream DEF StreamInv, Stream
<1>4. CASE ReadSome
  BY <1>4, ReadKeepsStream DEF ReadSome, StreamInv
<1>5. CASE Compare \/ Crash
  <2>1. buf' = <<>> /\ wire' = <<>> /\ rest' = <<>>
    BY <1>5 DEF Compare, Crash
  <2> QED BY <2>1, NoPieces, EmptyStream DEF StreamInv, Stream
<1>6. CASE DaemonApplies
  <2>1. Stream' = rest' /\ enabled' = enabled
    BY <1>6, AnswerIsStream DEF DaemonApplies
  <2>2. CASE foss' = enabled /\ rest' \in Successes
    BY <2>1, <2>2, FirstPiece DEF StreamInv
  <2>3. CASE rest' \in Failures
    BY <2>1, <2>3, FirstPiece DEF StreamInv
  <2> QED BY <1>6, <2>2, <2>3 DEF DaemonApplies
<1>7. CASE DaemonWrites
  BY <1>7, WriteKeepsStream DEF DaemonWrites, StreamInv
<1>8. CASE DaemonCloses
  <2>1. Stream' = buf \o wire /\ UNCHANGED <<foss, enabled>>
    BY <1>8, CutStream DEF DaemonCloses
  <2>2. ASSUME buf \o wire # <<>>
        PROVE  Stream # <<>> /\ Stream[1] = (buf \o wire)[1]
    <3>1. Len(buf \o wire) >= 1 /\ Len(buf \o wire) \in Nat
      BY <2>2, BufBegins, LenProperties
    <3>2. 1 \in 1..Len(buf \o wire)
      BY <3>1
    <3> QED BY <2>2, <3>2, BufBegins
  <2> QED BY <2>1, <2>2 DEF StreamInv
<1> QED
  <2>1. CASE \/ IsEnabled \/ SetCached \/ OpenSocket
             \/ ReadEnd \/ PollReady \/ PollTimeout \/ UNCHANGED vars
    <3>1. UNCHANGED <<foss, enabled, buf, wire, rest>>
      BY <2>1 DEF IsEnabled, SetCached, OpenSocket, ReadEnd, PollReady, PollTimeout,
                  vars, socket
    <3> QED BY <3>1, <1>1
  <2> QED
    BY <1>2, <1>3, <1>4, <1>5, <1>6, <1>7, <1>8, <2>1 DEF Next, Step, Daemon

\* What has been read says success exactly when the whole reply does.
LEMMA EnoughIsRead ==
  ASSUME TypeOK, (wire = <<>> /\ rest = <<>>) \/ Len(buf) = BufSize
  PROVE  SaysSuccess(buf) <=> SaysSuccess(Stream)
<1>1. CASE wire = <<>> /\ rest = <<>>
  <2>1. buf \in Seq(Pieces)
    BY DEF TypeOK
  <2>2. buf \o <<>> = buf
    BY <2>1, ConcatEmptySeq
  <2>3. Stream = buf
    BY <1>1, <2>2 DEF Stream
  <2> QED BY <2>3
<1>2. CASE Len(buf) = BufSize
  <2>1. Len(buf) >= 2 /\ Len(Stream) >= 2 /\ 1 \in 1..Len(buf) /\ 2 \in 1..Len(buf)
    BY <1>2, BufSizeAssumption, BufBegins
  <2>2. Stream[1] = buf[1] /\ Stream[2] = buf[2]
    BY <2>1, BufBegins
  <2> QED BY <2>1, <2>2 DEF SaysSuccess
<1> QED BY <1>1, <1>2

\* What is taken for a success is one, even a reply that is cut short.
LEMMA SuccessIsApplied ==
  ASSUME TypeOK, StreamInv, SaysSuccess(buf)
  PROVE  foss = enabled
<1>1. 1 \in 1..Len(buf) /\ Len(Stream) >= 1 /\ buf[1] = "Succ"
  BY BufBegins DEF SaysSuccess
<1>2. Stream[1] = "Succ" /\ Stream # <<>>
  BY <1>1, BufBegins, NoPieces
<1> QED BY <1>2 DEF StreamInv

LEMMA PromptStep ==
  ASSUME TypeOK, CallInv, StreamInv, PromptInv, [Next]_vars
  PROVE  PromptInv'
<1> SUFFICES ASSUME Prompt
             PROVE  /\ peer' \in {"none", "asked"} => foss' = mCachedFOSSStatus'
                    /\ peer' \in {"replying", "closed"} =>
                         \/ foss' = enabled' /\ SaysSuccess(Stream')
                         \/ /\ foss' = mCachedFOSSStatus'
                            /\ Stream' # <<>> /\ Stream'[1] = "Fail"
                    /\ pc' = "compare" => (wire' = <<>> /\ rest' = <<>>) \/ Len(buf') = BufSize
  <2>1. faults' = faults
    BY DEF Next, vars
  <2> QED BY <2>1 DEF PromptInv, Prompt, SaysSuccess
<1>0. /\ peer \in {"none", "asked"} => foss = mCachedFOSSStatus
      /\ peer \in {"replying", "closed"} =>
           \/ foss = enabled /\ SaysSuccess(Stream)
           \/ foss = mCachedFOSSStatus /\ Stream # <<>> /\ Stream[1] = "Fail"
      /\ pc = "compare" => (wire = <<>> /\ rest = <<>>) \/ Len(buf) = BufSize
  BY DEF PromptInv
<1>1. CASE IsEnabled \/ SetCached \/ OpenSocket \/ PollReady \/ UNCHANGED vars
  <2>1. /\ UNCHANGED <<foss, mCachedFOSSStatus, enabled, buf, wire, rest, peer>>
        /\ pc' = "compare" => pc = "compare"
    BY <1>1 DEF IsEnabled, SetCached, OpenSocket, PollReady, Answer, vars, socket
  <2>2. Stream' = Stream
    BY <2>1 DEF Stream
  <2> QED BY <1>0, <2>1, <2>2
<1>2. ASSUME NEW e \in BOOLEAN, SetEnabled(e)
      PROVE  /\ peer' = "none" /\ foss' = mCachedFOSSStatus' /\ pc' # "compare"
  BY <1>0, <1>2 DEF SetEnabled, socket, CallInv
<1>3. CASE WriteCommand
  BY <1>0, <1>3 DEF WriteCommand, CallInv, Answer
<1>4. CASE ReadSome
  <2>1. Stream' = Stream /\ (pc' = "compare" => Len(buf') = BufSize)
    BY <1>4, ReadKeepsStream
  <2>2. UNCHANGED <<foss, mCachedFOSSStatus, enabled, peer>>
    BY <1>4 DEF ReadSome
  <2> QED BY <1>0, <2>1, <2>2
<1>5. CASE ReadEnd \/ PollTimeout
  <2>1. UNCHANGED <<foss, mCachedFOSSStatus, enabled, buf, wire, rest, peer>>
    BY <1>5 DEF ReadEnd, PollTimeout, socket
  <2>2. wire = <<>> /\ rest = <<>>
    BY <1>5 DEF ReadEnd, PollTimeout, CallInv, May, Prompt
  <2>3. Stream' = Stream
    BY <2>1 DEF Stream
  <2> QED BY <1>0, <2>1, <2>2, <2>3
<1>6. CASE Compare
  <2>1. /\ peer' = "none" /\ pc' = "idle" /\ foss' = foss
        /\ mCachedFOSSStatus' = IF SaysSuccess(buf) THEN enabled ELSE mCachedFOSSStatus
    BY <1>6 DEF Compare, Answer
  <2>2. SaysSuccess(buf) <=> SaysSuccess(Stream)
    BY <1>0, <1>6, EnoughIsRead DEF Compare
  <2>3. SaysSuccess(Stream) => Stream[1] = "Succ"
    BY DEF SaysSuccess
  <2>4. peer \in {"replying", "closed"}
    BY <1>6 DEF Compare, CallInv
  <2> QED BY <1>0, <2>1, <2>2, <2>3, <2>4
<1>7. CASE DaemonApplies
  <2>1. /\ Stream' = rest' /\ UNCHANGED <<enabled, mCachedFOSSStatus, pc>>
        /\ peer' = "replying" /\ pc # "compare" /\ foss = mCachedFOSSStatus
    BY <1>0, <1>7, AnswerIsStream DEF DaemonApplies, CallInv
  <2>2. CASE foss' = enabled /\ rest' \in Successes
    BY <2>1, <2>2, RepliesAssumption
  <2>3. CASE foss' = foss /\ rest' \in Failures
    BY <2>1, <2>3, RepliesAssumption
  <2> QED BY <1>7, <2>2, <2>3 DEF DaemonApplies
<1>8. CASE DaemonWrites
  <2>1. Stream' = Stream
    BY <1>8, WriteKeepsStream
  <2>2. /\ UNCHANGED <<foss, mCachedFOSSStatus, enabled, peer, pc, buf>>
        /\ rest # <<>>
    BY <1>8, NoPieces DEF DaemonWrites
  <2> QED BY <1>0, <2>1, <2>2
<1>9. CASE DaemonCloses
  <2>1. /\ UNCHANGED <<foss, mCachedFOSSStatus, enabled, buf, wire, rest, pc>>
        /\ peer = "replying" /\ peer' = "closed"
    BY <1>9 DEF DaemonCloses, May, Prompt
  <2>2. Stream' = Stream
    BY <2>1 DEF Stream
  <2> QED BY <1>0, <2>1, <2>2
<1>10. ~Crash
  BY DEF Crash, May, Prompt
<1> QED
  BY <1>1, <1>2, <1>3, <1>4, <1>5, <1>6, <1>7, <1>8, <1>9, <1>10 DEF Next, Step, Daemon

-----------------------------------------------------------------------------
(* The invariant, and what it says of the code.                            *)

LEMMA InitInv == Init => IInv
<1> SUFFICES ASSUME Init
             PROVE  IInv
  OBVIOUS
<1>1. CallInv
  BY DEF Init, CallInv
<1>2. Stream = <<>>
  BY <1>1, NoStream DEF Init
<1> QED BY <1>1, <1>2, TypeInit DEF Init, IInv, StreamInv, PromptInv

LEMMA InvStep == IInv /\ [Next]_vars => IInv'
BY TypeStep, CallStep, StreamStep, PromptStep DEF IInv

\* However the pieces of a reply are cut, what has been read, what is on the
\* wire and what the daemon has still to write are together its reply, or the
\* beginning of one whose socket has been closed (Utils.cpp:86-115).
THEOREM Invariance == Spec => []IInv
<1>1. IInv /\ [Next]_vars => IInv'
  BY InvStep
<1> QED BY InitInv, <1>1, PTL DEF Spec

\* The calls, the socket and the daemon stay in their states, and what has been
\* read never exceeds the buffer (SDM.cpp:188, Utils.cpp:93-109).
THEOREM TypeCorrect == Spec => []TypeOK
BY Invariance, PTL DEF IInv

\* Between calls, and with a prompt daemon, the cached status is the daemon's,
\* so that the early return of SDM.cpp:185 drops no command.
THEOREM CacheIsTrue == Spec => []CacheTrue
<1>1. IInv => CacheTrue
  BY DEF IInv, PromptInv, Prompt, CallInv, CacheTrue
<1> QED BY Invariance, <1>1, PTL

\* A late reply, one cut short and a daemon that hangs up never make a call
\* cache what the daemon has not (SDM.cpp:190-195).
THEOREM CachesWhatIsApplied == Spec => CachedOnlyWhenApplied
<1>1. IInv /\ [Next]_vars =>
        [reply' # NoReply /\ mCachedFOSSStatus' # mCachedFOSSStatus =>
           foss = mCachedFOSSStatus']_vars
  <2> SUFFICES ASSUME IInv, [Next]_vars,
                      reply' # NoReply, mCachedFOSSStatus' # mCachedFOSSStatus
               PROVE  foss = mCachedFOSSStatus'
    OBVIOUS
  <2>1. Compare
    BY DEF Next, Step, Daemon, vars, IsEnabled, SetCached, SetEnabled, OpenSocket,
           WriteCommand, ReadSome, ReadEnd, PollReady, PollTimeout,
           DaemonApplies, DaemonWrites, DaemonCloses, Crash
  <2>2. SaysSuccess(buf) /\ mCachedFOSSStatus' = enabled
    BY <2>1 DEF Compare
  <2> QED BY <2>2, SuccessIsApplied DEF IInv
<1> QED BY Invariance, <1>1, PTL DEF Spec, CachedOnlyWhenApplied

=============================================================================

--------------------------------- MODULE Foss ---------------------------------
(***************************************************************************)
(* The adaptive backlight of the SDM backend: setAdaptiveBacklightEnabled  *)
(* with its cached status (SDM.cpp), and the exchange with the DPPS daemon *)
(* over a stream socket, sendDPPSCommand (Utils.cpp).  mLock lets one call *)
(* in at a time; LiveDisplay shows that.                                   *)
(*                                                                         *)
(* The bytes of a reply come in pieces: "Succ" "ess" is the word the code  *)
(* compares seven bytes of, "more" is text after it.                       *)
(***************************************************************************)
EXTENDS Naturals, Sequences

CONSTANTS BufSize,   \* the pieces that fit in DPPS_BUF_SIZE bytes
          Successes, \* replies of the daemon to a command it has applied
          Failures,  \* and to one it has not
          NoReply,
          FaultSets  \* what may go wrong, one of these sets in each behaviour

Pieces == {"Succ", "ess", "Fail", "more"}

\* strncmp(buf, "Success", 7) == 0
SaysSuccess(s) == Len(s) >= 2 /\ s[1] = "Succ" /\ s[2] = "ess"

ASSUME BufSizeAssumption == BufSize \in Nat /\ BufSize >= 2
ASSUME RepliesAssumption ==
  /\ \A s \in Successes : s \in Seq(Pieces) /\ SaysSuccess(s)
  /\ \A s \in Failures : s \in Seq(Pieces) /\ s # <<>> /\ s[1] = "Fail"
AllFaults == {"connect", "refuse", "slow", "close", "crash"}
ASSUME FaultsAssumption == FaultSets \subseteq SUBSET AllFaults

VARIABLES
  faults, \* what may go wrong; chosen once
  foss,   \* whether the daemon has the adaptive backlight on
  mCachedFOSSStatus,
  pc,     \* the next step of the call in progress
  enabled,\* its argument
  buf,    \* what it has read of the reply
  peer,   \* the daemon's side of the socket
  rest,   \* what the daemon has still to write
  wire,   \* written and not read
  reply   \* what the last call returned, or NoReply

socket == <<peer, rest, wire>>
vars == <<faults, foss, mCachedFOSSStatus, pc, enabled, buf, peer, rest, wire, reply>>

TypeOK ==
  /\ faults \in FaultSets
  /\ foss \in BOOLEAN
  /\ mCachedFOSSStatus \in BOOLEAN
  /\ pc \in {"idle", "open", "write", "read", "poll", "compare"}
  /\ enabled \in BOOLEAN
  /\ buf \in Seq(Pieces) /\ Len(buf) <= BufSize
  /\ peer \in {"none", "asked", "replying", "closed"}
  /\ rest \in Seq(Pieces)
  /\ wire \in Seq(Pieces)
  /\ reply \in [op : {"get", "set"}, val : BOOLEAN, ok : BOOLEAN] \cup {NoReply}

Init == /\ faults \in FaultSets
        /\ foss = FALSE
        /\ mCachedFOSSStatus = FALSE
        /\ pc = "idle"
        /\ enabled = FALSE
        /\ buf = <<>>
        /\ peer = "none"
        /\ rest = <<>>
        /\ wire = <<>>
        /\ reply = NoReply

May(fault) == fault \in faults

Answer(op, val, ok) == /\ reply' = [op |-> op, val |-> val, ok |-> ok]
                       /\ pc' = "idle"

-----------------------------------------------------------------------------
(* The calls.                                                              *)

IsEnabled ==
  /\ pc = "idle"
  /\ Answer("get", mCachedFOSSStatus, TRUE)
  /\ UNCHANGED <<foss, mCachedFOSSStatus, enabled, buf, socket>>

SetCached ==
  /\ pc = "idle"
  /\ Answer("set", mCachedFOSSStatus, TRUE)
  /\ UNCHANGED <<foss, mCachedFOSSStatus, enabled, buf, socket>>

SetEnabled(e) ==
  /\ pc = "idle"
  /\ e # mCachedFOSSStatus
  /\ enabled' = e
  /\ reply' = NoReply
  /\ pc' = "open"
  /\ UNCHANGED <<foss, mCachedFOSSStatus, buf, socket>>

\* No socket: the command is not sent.
OpenSocket ==
  /\ pc = "open"
  /\ \/ pc' = "write" /\ UNCHANGED reply
     \/ May("connect") /\ Answer("set", enabled, FALSE)
  /\ UNCHANGED <<foss, mCachedFOSSStatus, enabled, buf, socket>>

WriteCommand ==
  /\ pc = "write"
  /\ \/ pc' = "read" /\ peer' = "asked" /\ UNCHANGED reply
     \/ May("connect") /\ Answer("set", enabled, FALSE) /\ UNCHANGED peer
  /\ buf' = <<>>
  /\ UNCHANGED <<foss, mCachedFOSSStatus, enabled, rest, wire>>

Room == BufSize - Len(buf)

\* Mutant: the pieces overwrite one another.
ReadOverwrites ==
  /\ pc = "read"
  /\ wire # <<>>
  /\ LET n == IF Len(wire) < Room THEN Len(wire) ELSE Room
     IN /\ buf' = SubSeq(wire, 1, n)
        /\ wire' = SubSeq(wire, n + 1, Len(wire))
        /\ pc' = IF n = Room THEN "compare" ELSE "poll"
  /\ UNCHANGED <<foss, mCachedFOSSStatus, enabled, peer, rest, reply>>

\* Mutant: the length left is not reduced.
ReadTooMuch ==
  /\ pc = "read"
  /\ wire # <<>>
  /\ buf' = buf \o wire
  /\ wire' = <<>>
  /\ pc' = IF Len(wire) = BufSize THEN "compare" ELSE "poll"
  /\ UNCHANGED <<foss, mCachedFOSSStatus, enabled, peer, rest, reply>>

\* read() of what has come and fits; a full buffer ends the loop.
ReadSome ==
  /\ pc = "read"
  /\ wire # <<>>
  /\ LET n == IF Len(wire) < Room THEN Len(wire) ELSE Room
     IN /\ buf' = buf \o SubSeq(wire, 1, n)
        /\ wire' = SubSeq(wire, n + 1, Len(wire))
        /\ pc' = IF n = Room THEN "compare" ELSE "poll"
  /\ UNCHANGED <<foss, mCachedFOSSStatus, enabled, peer, rest, reply>>

\* Mutant: read() is called again at the end of the stream.
ReadAgain ==
  /\ pc = "read"
  /\ wire = <<>>
  /\ peer = "closed"
  /\ UNCHANGED vars

\* The end of the stream; an error of read() is taken in the same way.
ReadEnd ==
  /\ pc = "read"
  /\ wire = <<>>
  /\ peer = "closed"
  /\ pc' = "compare"
  /\ UNCHANGED <<foss, mCachedFOSSStatus, enabled, buf, socket, reply>>

\* poll() waits 20 ms for more; the end of the stream counts as readable.
PollReady ==
  /\ pc = "poll"
  /\ wire # <<>> \/ peer = "closed"
  /\ pc' = "read"
  /\ UNCHANGED <<foss, mCachedFOSSStatus, enabled, buf, socket, reply>>

PollTimeout ==
  /\ pc = "poll"
  /\ wire = <<>>
  /\ peer = "replying"
  /\ rest = <<>> \/ May("slow")
  /\ pc' = "compare"
  /\ UNCHANGED <<foss, mCachedFOSSStatus, enabled, buf, socket, reply>>

\* Mutant: any reply is a success.
CompareNothing ==
  /\ pc = "compare"
  /\ mCachedFOSSStatus' = enabled
  /\ Answer("set", enabled, TRUE)
  /\ peer' = "none" /\ rest' = <<>> /\ wire' = <<>>
  /\ buf' = <<>>
  /\ UNCHANGED <<foss, enabled>>

\* The socket is closed, and the reply looked at.
Compare ==
  /\ pc = "compare"
  /\ mCachedFOSSStatus' = IF SaysSuccess(buf) THEN enabled
                                              ELSE mCachedFOSSStatus
  /\ Answer("set", enabled, SaysSuccess(buf))
  /\ peer' = "none" /\ rest' = <<>> /\ wire' = <<>>
  /\ buf' = <<>>
  /\ UNCHANGED <<foss, enabled>>

-----------------------------------------------------------------------------
(* The daemon, and the death of the process.                               *)

DaemonApplies ==
  /\ peer = "asked"
  /\ peer' = "replying"
  /\ \/ foss' = enabled /\ rest' \in Successes
     \/ May("refuse") /\ rest' \in Failures /\ UNCHANGED foss
  /\ UNCHANGED <<mCachedFOSSStatus, pc, enabled, buf, wire, reply>>

DaemonWrites ==
  /\ peer = "replying"
  /\ \E n \in 1..Len(rest) :
       /\ wire' = wire \o SubSeq(rest, 1, n)
       /\ rest' = SubSeq(rest, n + 1, Len(rest))
  /\ UNCHANGED <<foss, mCachedFOSSStatus, pc, enabled, buf, peer, reply>>

\* The daemon hangs up, with the reply or without.
DaemonCloses ==
  /\ \/ peer = "replying" /\ rest = <<>>
     \/ peer \in {"asked", "replying"} /\ May("close")
  /\ peer' = "closed"
  /\ rest' = <<>>
  /\ UNCHANGED <<foss, mCachedFOSSStatus, pc, enabled, buf, wire, reply>>

\* A command that is under way may still be applied.
Crash ==
  /\ May("crash")
  /\ foss' \in {foss} \cup (IF peer = "asked" THEN {enabled} ELSE {})
  /\ mCachedFOSSStatus' = FALSE
  /\ pc' = "idle"
  /\ enabled' = FALSE
  /\ buf' = <<>>
  /\ peer' = "none"
  /\ rest' = <<>>
  /\ wire' = <<>>
  /\ reply' = NoReply

-----------------------------------------------------------------------------
Step == \/ OpenSocket \/ WriteCommand
        \/ ReadSome \/ ReadEnd \/ PollReady \/ PollTimeout \/ Compare
Daemon == DaemonApplies \/ DaemonWrites \/ DaemonCloses

Next == /\ \/ IsEnabled \/ SetCached \/ (\E e \in BOOLEAN : SetEnabled(e))
           \/ Step \/ Daemon \/ Crash
        /\ UNCHANGED faults

Spec == Init /\ [][Next]_vars

\* The process runs on, and the daemon answers or hangs up: the first read()
\* has no time limit.  A daemon that has written all goes on or stays.
FairSpec == /\ Spec
            /\ WF_vars(Step /\ UNCHANGED faults)
            /\ WF_vars((DaemonApplies \/ DaemonWrites) /\ UNCHANGED faults)

-----------------------------------------------------------------------------
(* Properties.                                                             *)

\* Between calls the cached status is the daemon's, when the daemon is prompt
\* and nobody dies: however the reply is cut in pieces, a success is taken for
\* one and nothing else is, and the early return of SDM.cpp:185 is safe.
CacheTrue ==
  pc = "idle" /\ faults \subseteq {"connect", "refuse"} =>
    mCachedFOSSStatus = foss

\* Whatever is lost, late or cut short, a call changes the cached status only
\* to what the daemon has (190-195).
CachedOnlyWhenApplied ==
  [][reply' # NoReply /\ mCachedFOSSStatus' # mCachedFOSSStatus =>
       foss = mCachedFOSSStatus']_vars

\* Every call returns, so that mLock is given back (LiveDisplay.cpp:220-231).
CallsEnd == (pc # "idle") ~> (pc = "idle")

\* AdaptiveBacklight.java:71-72: setEnabled is "false if adaptive backlight is
\* not supported or the operation failed; true in any other case".
SetTakesEffect ==
  reply # NoReply /\ reply.op = "set" /\ reply.ok => foss = reply.val
=============================================================================

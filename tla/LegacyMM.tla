------------------------------ MODULE LegacyMM ------------------------------
(***************************************************************************)
(* The display classes of org.cyanogenmod.hardware on a board of the       *)
(* LegacyMM backend, from the callers to the vendor library: the gate and  *)
(* the fallbacks of the Java classes, the conversions of the JNI bridge,   *)
(* the front end (module LiveDisplay, whose actions are taken over), and   *)
(* LegacyMM.cpp, whose vendor calls are the steps inside "op".             *)
(***************************************************************************)
EXTENDS Integers

CONSTANTS
  Threads, NoThread,
  Modes, Bogus,            \* display modes; an id that is none
  NoMode,                  \* no mode
  Balances,                \* color balances
  Pictures, ZeroPicture,   \* picture adjustments; the one of zeros
  Switches,                \* the switches in use
  Boards,                  \* what the vendor library may support
  FaultSets,               \* what may go wrong, one of these in each behaviour
  Menus                    \* bound: the requests one behaviour mixes

ASSUME ThreadsAssumption == NoThread \notin Threads
ASSUME ModeAssumption == Bogus \notin Modes /\ NoMode \notin Modes \cup {Bogus}
ASSUME ZeroAssumption == 0 \in Balances /\ ZeroPicture \in Pictures
ASSUME SwitchAssumption ==
         Switches \subseteq {"outdoor", "backlight", "contrast", "enhancement"}

\* The bits of enum Feature.
DISPLAY_MODES == 0
COLOR_TEMPERATURE == 1
OUTDOOR_MODE == 2
ADAPTIVE_BACKLIGHT == 3
PICTURE_ADJUSTMENT == 4

\* Of a board: what disp_api_supported says, whether there are modes, and
\* whether the calibrated ranges are other than zero.
BoardType == [supported : SUBSET {DISPLAY_MODES, COLOR_TEMPERATURE,
                                  PICTURE_ADJUSTMENT},
              modes : BOOLEAN, ranges : BOOLEAN]
ASSUME BoardAssumption == Boards \subseteq BoardType

AllFaults == {"vendor", "library", "node", "crash", "symbol"}
ASSUME FaultAssumption == FaultSets \subseteq SUBSET AllFaults

VARIABLES
  faults, board, menu,                    \* chosen once
  active, default, balance, picture, on,  \* the device and the sysfs nodes
  classInit, sFeatures, mBackend, mLock, mConnected, mFeatures, backend,
  pc, call, bit, rc,                      \* the front end: module LiveDisplay
  mLibHandle,   \* the vendor library is loaded and its functions looked up
  req, answer,  \* what each thread has asked, and the answer it is to get
  step, id,     \* the next vendor call of an operation; the id it has read
  was           \* history: the mode before a setDisplayMode that is half done

fixed == <<faults, board, menu>>
device == <<active, default, balance, picture, on>>
frontEnd == <<classInit, sFeatures, mBackend, mLock, mConnected, mFeatures,
              backend, pc, call, bit, rc>>
locals == <<step, id, was>>
vars == <<faults, board, menu, active, default, balance, picture, on, classInit,
          sFeatures, mBackend, mLock, mConnected, mFeatures, backend, pc, call,
          bit, rc, mLibHandle, req, answer, step, id, was>>

FrontEnd == INSTANCE LiveDisplay WITH MaxBit <- PICTURE_ADJUSTMENT

May(fault) == fault \in faults

-----------------------------------------------------------------------------
(* LegacyMM::hasFeature.                                                   *)

\* Mutant: the balance is offered although there is no mode to balance.
HasFeatureApart(f) ==
  /\ f \in board.supported
  /\ f = DISPLAY_MODES => board.modes
  /\ f \in {COLOR_TEMPERATURE, PICTURE_ADJUSTMENT} => board.ranges

\* Display modes and color balance depend on each other.
HasFeature(f) ==
  /\ f \in board.supported
  /\ f \in {DISPLAY_MODES, COLOR_TEMPERATURE} => board.modes
  /\ f \in {COLOR_TEMPERATURE, PICTURE_ADJUSTMENT} => board.ranges

\* External: which operations of the library succeed when nothing fails.
Works(f) == /\ f \in board.supported
            /\ f \in {DISPLAY_MODES, COLOR_TEMPERATURE} => board.modes

\* The native feature a request needs, and how the front end handles it.
BitOf(r) ==
  CASE r.op \in {"setMode", "getModes", "getMode", "getDefaultMode"} -> DISPLAY_MODES
    [] r.op \in {"setBalance", "getBalance", "getBalanceRange"} -> COLOR_TEMPERATURE
    [] r.op \in {"setPicture", "getPicture", "getDefaultPicture",
                 "getPictureRanges"} -> PICTURE_ADJUSTMENT
    [] r.op \in {"setSwitch", "isOn"} ->
         IF r.switch = "outdoor" THEN OUTDOOR_MODE ELSE ADAPTIVE_BACKLIGHT

KindOf(op) == IF op \in {"getMode", "getDefaultMode", "getBalance", "isOn"}
              THEN "value" ELSE "status"

\* What the board offers, in the terms of DisplayService.
Offered == {"switch"} \cup {f \in {"modes", "balance", "picture"} :
             HasFeature(CASE f = "modes" -> DISPLAY_MODES
                          [] f = "balance" -> COLOR_TEMPERATURE
                          [] f = "picture" -> PICTURE_ADJUSTMENT)}

\* The service the whole implements: a mode set half is not active yet.
Service == INSTANCE DisplayService WITH
  offered <- Offered,
  active <- IF was = NoMode THEN active ELSE was,
  asked <- req

NoRequest == Service!NoRequest
NoAnswer == Service!NoAnswer
ASSUME MenuAssumption == Menus \subseteq SUBSET Service!Requests

-----------------------------------------------------------------------------
TypeOK ==
  /\ FrontEnd!TypeOK
  /\ faults \in FaultSets /\ board \in Boards /\ menu \in Menus
  /\ active \in Modes /\ default \in Modes
  /\ balance \in Balances
  /\ picture \in Pictures
  /\ on \in [Switches -> BOOLEAN]
  /\ mLibHandle \in BOOLEAN
  /\ req \in [Threads -> Service!Requests \cup {NoRequest}]
  /\ answer \in [Threads -> Service!Answers \cup {NoAnswer}]
  /\ step \in [Threads -> {"first", "second"}]
  /\ id \in [Threads -> Modes \cup {NoMode}]
  /\ was \in Modes \cup {NoMode}

\* A device that has been in use, and a process that has not.
Init ==
  /\ faults \in FaultSets /\ board \in Boards /\ menu \in Menus
  /\ active \in Modes
  /\ default = active
  /\ balance = 0
  /\ picture = ZeroPicture
  /\ on = [s \in Switches |-> FALSE]
  /\ FrontEnd!Init
  /\ mBackend
  /\ mLibHandle = FALSE
  /\ req = [t \in Threads |-> NoRequest]
  /\ answer = [t \in Threads |-> NoAnswer]
  /\ step = [t \in Threads |-> "first"]
  /\ id = [t \in Threads |-> NoMode]
  /\ was = NoMode

Reply(t, a) == answer' = [answer EXCEPT ![t] = a]
Waiting(t) == req[t] # NoRequest /\ answer[t] = NoAnswer
At(t, label) == pc[t] = label

-----------------------------------------------------------------------------
(* The Java classes.                                                       *)

Ask(t) == /\ At(t, "idle")
          /\ req[t] = NoRequest
          /\ \E r \in menu : req' = [req EXCEPT ![t] = r]
          /\ UNCHANGED <<device, frontEnd, mLibHandle, answer, locals>>

\* A class with a native side asks LiveDisplayVendorImpl what there is.
HasNativeSide(r) == r.op \in {"setSwitch", "isOn"} =>
                      r.switch \in {"outdoor", "backlight"}

Load(t) == /\ Waiting(t)
           /\ HasNativeSide(req[t])
           /\ \/ FrontEnd!LoadLibrary(t)
              \/ May("library") /\ FrontEnd!LoadFails(t)
           /\ UNCHANGED <<device, mLibHandle, req, answer, locals>>

Publish(t) == /\ FrontEnd!Publish(t)
              /\ UNCHANGED <<device, mLibHandle, req, answer, locals>>

Invoke(t) == /\ Waiting(t)
             /\ HasNativeSide(req[t])
             /\ FrontEnd!Invoke(t, KindOf(req[t].op), BitOf(req[t]))
             /\ UNCHANGED <<device, mLibHandle, req, answer, locals>>

IsSwitch(r) == r.op \in {"setSwitch", "isOn"}

Refuse(t) == /\ Waiting(t)
             /\ ~IsSwitch(req[t])
             /\ FrontEnd!Refuse(t, BitOf(req[t]))
             /\ Reply(t, Service!Refusal(req[t].op))
             /\ UNCHANGED <<device, mLibHandle, req, locals>>

\* A switch without a native feature is a sysfs node.
ByNode(t, op) == /\ Waiting(t)
                 /\ At(t, "idle")
                 /\ req[t].op = op
                 /\ HasNativeSide(req[t]) => FrontEnd!Refuse(t, BitOf(req[t]))
                 /\ UNCHANGED <<active, default, balance, picture, frontEnd,
                                mLibHandle, req, locals>>

WriteNode(t) ==
  /\ ByNode(t, "setSwitch")
  /\ \/ /\ on' = [on EXCEPT ![req[t].switch] = req[t].enabled]
        /\ Reply(t, Service!Bool(TRUE))
     \/ May("node") /\ Reply(t, Service!Bool(FALSE)) /\ UNCHANGED on

\* A node that cannot be read, or holds no number, is off.
ReadNode(t) ==
  /\ ByNode(t, "isOn")
  /\ \/ Reply(t, Service!Bool(on[req[t].switch]))
     \/ May("node") /\ Reply(t, Service!Bool(FALSE))
  /\ UNCHANGED on

Return(t) == /\ At(t, "idle")
             /\ answer[t] # NoAnswer
             /\ req' = [req EXCEPT ![t] = NoRequest]
             /\ Reply(t, NoAnswer)
             /\ UNCHANGED <<device, frontEnd, mLibHandle, locals>>

-----------------------------------------------------------------------------
(* The front end, and LegacyMM::initialize and deinitialize under it.      *)

\* A call that fails before its operation has its answer now.
Settle(t) == IF pc'[t] = "unlock" THEN Reply(t, Service!Failure(req[t].op))
                                  ELSE UNCHANGED answer

\* Mutant: the operations do not wait for each other.
UnlockedManage(t) ==
  /\ \/ FrontEnd!AcquireBusy(t) \/ FrontEnd!ConnectAlready(t)
     \/ FrontEnd!ConnectStart(t) \/ FrontEnd!Connected(t) \/ FrontEnd!Check(t)
  /\ Settle(t)
  /\ UNCHANGED <<device, mLibHandle, req, locals>>

Manage(t) ==
  /\ \/ FrontEnd!Acquire(t) \/ FrontEnd!ConnectAlready(t)
     \/ FrontEnd!ConnectStart(t) \/ FrontEnd!Connected(t) \/ FrontEnd!Check(t)
  /\ Settle(t)
  /\ UNCHANGED <<device, mLibHandle, req, locals>>

DlopenFails(t) == /\ May("library")
                  /\ FrontEnd!InitializeFails(t)
                  /\ mLibHandle' = FALSE
                  /\ Settle(t)
                  /\ UNCHANGED <<device, req, locals>>

DispApiInitFails(t) == /\ May("vendor")
                       /\ FrontEnd!InitializeFails(t)
                       /\ mLibHandle' = TRUE
                       /\ Settle(t)
                       /\ UNCHANGED <<device, req, locals>>

\* Mutant: the result of dlopen is not looked at.
InitializeUnlinked(t) ==
  /\ FrontEnd!InitializeOk(t)
  /\ mLibHandle' = TRUE \/ (May("library") /\ mLibHandle' = FALSE)
  /\ UNCHANGED <<device, req, answer, locals>>

\* dlopen and dlsym are repeated for each connection.
InitializeOk(t) == /\ FrontEnd!InitializeOk(t)
                   /\ mLibHandle' = TRUE
                   /\ UNCHANGED <<device, req, answer, locals>>

\* One answer of hasFeature: a failing call makes it false.
Probe(t) == /\ FrontEnd!Probe(t)
            /\ bit[t] \in mFeatures' => HasFeature(bit[t])
            /\ bit[t] \notin mFeatures' => ~HasFeature(bit[t]) \/ May("vendor")
            /\ UNCHANGED <<device, mLibHandle, req, answer, locals>>

\* reset(): LegacyMM closes the session with disp_api_init(1).
Reset(t) == /\ FrontEnd!Deinitialize(t) \/ FrontEnd!Clear(t)
            /\ UNCHANGED <<device, mLibHandle, req, answer, locals>>

Unlock(t) == /\ FrontEnd!Unlock(t)
             /\ UNCHANGED <<device, mLibHandle, req, answer, locals>>

-----------------------------------------------------------------------------
(* The operations of LegacyMM, and the answers the JNI bridge makes.       *)

\* The vendor call of the given step of thread t's operation.
In(t, ops, which) == At(t, "op") /\ req[t].op \in ops /\ step[t] = which

Called(t) == Works(call[t].feature)
CallFails(t) == ~Works(call[t].feature) \/ May("vendor")

Finish(t, a) == /\ FrontEnd!OperationOk(t)
                /\ Reply(t, a)
                /\ step' = [step EXCEPT ![t] = "first"]
                /\ id' = [id EXCEPT ![t] = NoMode]

\* A status that is not OK ends the session.
Fail(t) == /\ FrontEnd!OperationFails(t)
           /\ Reply(t, Service!Failure(req[t].op))
           /\ step' = [step EXCEPT ![t] = "first"]
           /\ UNCHANGED id

Continue(t) == /\ step' = [step EXCEPT ![t] = "second"]
               /\ UNCHANGED <<frontEnd, answer>>

SetActive(t) ==
  /\ In(t, {"setMode"}, "first")
  /\ \/ /\ Called(t) /\ req[t].id \in Modes
        /\ active' = req[t].id
        /\ IF req[t].makeDefault THEN Continue(t) /\ was' = active /\ UNCHANGED id
           ELSE Finish(t, Service!Bool(TRUE)) /\ UNCHANGED was
     \/ /\ CallFails(t) \/ req[t].id = Bogus
        /\ Fail(t)
        /\ UNCHANGED <<active, was>>
  /\ UNCHANGED <<default, balance, picture, on, mLibHandle, req>>

\* A failure leaves the mode active.
SetDefault(t) ==
  /\ In(t, {"setMode"}, "second")
  /\ was' = NoMode
  /\ \/ default' = req[t].id /\ Finish(t, Service!Bool(TRUE))
     \/ CallFails(t) /\ Fail(t) /\ UNCHANGED default
  /\ UNCHANGED <<active, balance, picture, on, mLibHandle, req>>

\* Mutant: an object is made of a mode that was not found.
ReadIdUnchecked(t, op, mode) ==
  /\ In(t, {op}, "first")
  /\ \/ /\ Called(t)
        /\ Continue(t)
        /\ id' = [id EXCEPT ![t] = mode]
     \/ CallFails(t) /\ Finish(t, Service!Mode(NoMode))
  /\ UNCHANGED <<device, mLibHandle, req, was>>

\* The id of a mode is read, and its name looked up in the list.
ReadId(t, op, mode) ==
  /\ In(t, {op}, "first")
  /\ \/ /\ Called(t)
        /\ Continue(t)
        /\ id' = [id EXCEPT ![t] = mode]
     \/ CallFails(t) /\ Finish(t, Service!Null)
  /\ UNCHANGED <<device, mLibHandle, req, was>>

GetCurrentDisplayMode(t) == ReadId(t, "getMode", active)
GetDefaultDisplayMode(t) == ReadId(t, "getDefaultMode", default)

GetDisplayModeById(t) ==
  /\ In(t, {"getMode", "getDefaultMode"}, "second")
  /\ \/ Finish(t, Service!Mode(id[t]))
     \/ CallFails(t) /\ Finish(t, Service!Null)
  /\ UNCHANGED <<device, mLibHandle, req, was>>

\* An uncounted list is empty; one that is counted and cannot be read fails.
GetDisplayModes(t) ==
  /\ In(t, {"getModes"}, "first")
  /\ \/ Called(t) /\ Finish(t, Service!List(Modes))
     \/ CallFails(t) /\ Finish(t, Service!List({}))
     \/ CallFails(t) /\ Fail(t)
  /\ UNCHANGED <<device, mLibHandle, req, was>>

SetColorBalance(t) ==
  /\ In(t, {"setBalance"}, "first")
  /\ \/ Called(t) /\ balance' = req[t].value /\ Finish(t, Service!Bool(TRUE))
     \/ CallFails(t) /\ Fail(t) /\ UNCHANGED balance
  /\ UNCHANGED <<active, default, picture, on, mLibHandle, req, was>>

\* A failure reads as the neutral balance.
GetColorBalance(t) ==
  /\ In(t, {"getBalance"}, "first")
  /\ \/ Called(t) /\ Finish(t, Service!Int(balance))
     \/ CallFails(t) /\ Finish(t, Service!Int(0))
  /\ UNCHANGED <<device, mLibHandle, req, was>>

\* The JNI bridge makes a range of what was read, null of a failure.
GetRanges(t) ==
  /\ In(t, {"getBalanceRange", "getPictureRanges"}, "first")
  /\ \/ Called(t) /\ Finish(t, Service!Range("min", "max"))
     \/ CallFails(t) /\ Fail(t)
  /\ UNCHANGED <<device, mLibHandle, req, was>>

AdjustPicture(t, op, hsic, a) ==
  /\ In(t, {op}, "first")
  /\ \/ Called(t) /\ picture' = hsic /\ Finish(t, a)
     \/ CallFails(t) /\ Fail(t) /\ UNCHANGED picture
  /\ UNCHANGED <<active, default, balance, on, mLibHandle, req, was>>

SetPictureAdjustment(t) == AdjustPicture(t, "setPicture", req[t].hsic, Service!Bool(TRUE))

\* The front end calls setPictureAdjustment with zeros, and hands them out.
GetPictureAdjustment(t) ==
  AdjustPicture(t, "getPicture", ZeroPicture, Service!Picture(ZeroPicture))

\* LegacyMM returns OK and leaves the zeros of its caller.
GetDefaultPictureAdjustment(t) ==
  /\ In(t, {"getDefaultPicture"}, "first")
  /\ Finish(t, Service!Picture(ZeroPicture))
  /\ UNCHANGED <<device, mLibHandle, req, was>>

-----------------------------------------------------------------------------
(* The process dies; the device and the nodes keep what they have.         *)

Die ==
  /\ classInit' = "none" /\ sFeatures' = {}
  /\ mLock' = NoThread
  /\ mConnected' = FALSE /\ mFeatures' = {}
  /\ backend' = "down"
  /\ mLibHandle' = FALSE
  /\ pc' = [t \in Threads |-> "idle"]
  /\ call' = [t \in Threads |-> FrontEnd!NoCall]
  /\ bit' = [t \in Threads |-> 0]
  /\ rc' = [t \in Threads |-> "NO_INIT"]
  /\ req' = [t \in Threads |-> NoRequest]
  /\ answer' = [t \in Threads |-> NoAnswer]
  /\ step' = [t \in Threads |-> "first"]
  /\ id' = [t \in Threads |-> NoMode]
  /\ was' = NoMode
  /\ UNCHANGED <<device, mBackend>>

Crash == May("crash") /\ Die

\* A missing function is only logged when it is looked up: the first call of
\* it goes through a null pointer.
MissingFunction(t) == /\ May("symbol")
                      /\ pc[t] \in {"initialize", "probe", "op", "reset"}
                      /\ Die

-----------------------------------------------------------------------------
Facade(t) == \/ Ask(t) \/ Load(t) \/ Publish(t) \/ Invoke(t) \/ Refuse(t)
             \/ WriteNode(t) \/ ReadNode(t) \/ Return(t)

Connection(t) == \/ Manage(t) \/ DlopenFails(t) \/ DispApiInitFails(t)
                 \/ InitializeOk(t) \/ Probe(t) \/ Reset(t) \/ Unlock(t)

Operation(t) == \/ SetActive(t) \/ SetDefault(t)
                \/ GetCurrentDisplayMode(t) \/ GetDefaultDisplayMode(t)
                \/ GetDisplayModeById(t) \/ GetDisplayModes(t)
                \/ SetColorBalance(t) \/ GetColorBalance(t) \/ GetRanges(t)
                \/ SetPictureAdjustment(t) \/ GetPictureAdjustment(t)
                \/ GetDefaultPictureAdjustment(t)

Next == /\ \/ \E t \in Threads : \/ Facade(t) \/ Connection(t) \/ Operation(t)
                                 \/ MissingFunction(t)
           \/ Crash
        /\ UNCHANGED fixed

Spec == Init /\ [][Next]_vars

-----------------------------------------------------------------------------
(* Properties.                                                             *)

\* A function of the vendor library is called only with the library loaded and
\* its session open, however many connections failed before, and whichever
\* thread made them (LegacyMM.cpp 33-110): probe, operations and deinitialize
\* never go through a pointer to a function that dlsym was not yet asked for.
\* Of a function it was asked for and did not find nothing is said: that call
\* is made, and is MissingFunction.
CallsIntoLibrary ==
  \A t \in Threads : pc[t] \in {"probe", "op", "reset"} =>
    mLibHandle /\ backend = "up"

\* Where no call fails, every feature that hasFeature (125-164) reports works:
\* only a mode that does not exist makes an operation fail and ends a session.
OfferedFeatureWorks ==
  faults = {} =>
    \A t \in Threads : At(t, "reset") => req[t].op = "setMode" /\ req[t].id = Bogus

\* The callers of the display classes see each call take effect at one instant
\* on the display, across threads, lost sessions and crashes; a failure leaves
\* at most a mode that is active and not the default (LegacyMM.cpp 234-244),
\* and ColorBalance (74, 84) throws only when a vendor call has failed.
ImplementsService == Service!Spec
=============================================================================

--------------------------- MODULE LegacyMMProofs ---------------------------
(***************************************************************************)
(* Proofs about LegacyMM, for any threads, modes, balances, pictures and   *)
(* boards.  The front end is not proved again: every step of LegacyMM is a *)
(* step of it, a stutter or the death of the process, and the lemmas of    *)
(* LiveDisplayProofs speak of the first two.                               *)
(***************************************************************************)
EXTENDS LegacyMM, TLAPS

FP == INSTANCE LiveDisplayProofs WITH MaxBit <- PICTURE_ADJUSTMENT

-----------------------------------------------------------------------------
(* The invariant.                                                          *)

\* The library is there for whoever is about to call it.
LibraryInv == /\ mConnected => mLibHandle
              /\ \A t \in Threads : pc[t] = "probe" => mLibHandle

\* What the vendor library may be found to support.
Having == {f \in FrontEnd!Features : HasFeature(f)}

\* Nothing is found that is not there, and everything where nothing fails.
FeatureInv ==
  /\ mFeatures \subseteq Having /\ sFeatures \subseteq Having
  /\ ~Service!Unreliable =>
       /\ mConnected => Having \subseteq mFeatures
       /\ classInit = "done" => Having \subseteq sFeatures
       /\ \A t \in Threads :
            /\ pc[t] = "publish" => mConnected
            /\ pc[t] = "probe" =>
                 \A f \in Having : f < bit[t] => f \in mFeatures

\* A native call runs for the request of its thread, and it is offered.
CallInv ==
  \A t \in Threads :
    call[t].kind # "init" =>
      /\ call[t].kind = KindOf(req[t].op)
      /\ call[t].feature = BitOf(req[t])
      /\ call[t].feature \in Having

\* A thread inside has asked; it gets its answer where its call ends.
AnswerInv ==
  \A t \in Threads :
    /\ pc[t] # "idle" => req[t] \in Service!Requests
    /\ answer[t] # NoAnswer => req[t] \in Service!Requests
    /\ pc[t] \notin {"idle", "reset", "clear", "unlock"} => answer[t] = NoAnswer
    /\ pc[t] \in {"reset", "clear", "unlock"} => answer[t] # NoAnswer

\* Between the two vendor calls of an operation.
HalfWay(t) == step[t] = "second" /\ req[t].op = "setMode"

StepInv ==
  /\ \A t \in Threads :
       /\ step[t] = "second" => pc[t] = "op"
       /\ step[t] = "second" /\ ~HalfWay(t) =>
            id[t] = IF req[t].op = "getMode" THEN active ELSE default
       /\ HalfWay(t) => /\ was \in Modes
                        /\ req[t].makeDefault
                        /\ req[t].id \in Modes
                        /\ active = req[t].id
  /\ was # NoMode => \E t \in Threads : HalfWay(t)

OwnTypes ==
  /\ faults \in FaultSets /\ board \in Boards /\ menu \in Menus
  /\ active \in Modes /\ default \in Modes
  /\ balance \in Balances
  /\ picture \in Pictures
  /\ on \in [Switches -> BOOLEAN]
  /\ mLibHandle \in BOOLEAN
  /\ req \in [Threads -> Service!Requests \cup {NoRequest}]
  /\ answer \in [Threads -> Service!Answers \cup {NoAnswer}]
  /\ step \in [Threads -> {"first", "second"}]
  /\ id \in [Threads -> Modes \cup {NoMode}]
  /\ was \in Modes \cup {NoMode}

IInv == /\ FP!IInv /\ OwnTypes /\ AnswerInv /\ CallInv
        /\ StepInv /\ LibraryInv /\ FeatureInv /\ OfferedFeatureWorks

-----------------------------------------------------------------------------
(* What a request is.                                                      *)

\* The operations of the requests.
Ops == {"setMode", "setBalance", "setPicture", "setSwitch", "isOn", "getModes",
        "getMode", "getDefaultMode", "getBalance", "getBalanceRange",
        "getPicture", "getDefaultPicture", "getPictureRanges"}

\* Every request is one of the known operations with its arguments.
LEMMA RequestForm ==
  ASSUME NEW r \in Service!Requests
  PROVE  /\ r.op \in Ops
         /\ r # NoRequest
         /\ r.op = "setMode" => r.id \in Modes \cup {Bogus} /\ r.makeDefault \in BOOLEAN
         /\ r.op = "setBalance" => r.value \in Balances
         /\ r.op = "setPicture" => r.hsic \in Pictures
         /\ r.op \in {"setSwitch", "isOn"} => r.switch \in Switches
         /\ r.op = "setSwitch" => r.enabled \in BOOLEAN
<1>1. NoRequest.op = "none"
  BY DEF NoRequest, Service!NoRequest
<1> QED BY <1>1 DEF Service!Requests, Ops

\* No answer that a call can get is mistaken for none.
LEMMA AnswersAreSome == NoAnswer \notin Service!Answers
<1>1. DOMAIN NoAnswer = {"answer"}
  BY DEF NoAnswer, Service!NoAnswer
<1>2. ASSUME NEW a \in Service!Answers
      PROVE  DOMAIN a # {"answer"}
  BY <1>2 DEF Service!Answers, Service!Bool, Service!Mode, Service!List,
              Service!Int, Service!Picture, Service!Range, Service!Null,
              Service!Thrown
<1> QED BY <1>1, <1>2

\* Every operation has a kind and a feature.
LEMMA RequestCalls ==
  ASSUME NEW r \in Service!Requests
  PROVE  /\ KindOf(r.op) \in {"status", "value"}
         /\ BitOf(r) \in FrontEnd!Features
<1>1. r.op \in Ops
  BY RequestForm
<1>2. BitOf(r) \in 0..4
  BY <1>1 DEF BitOf, Ops, DISPLAY_MODES, COLOR_TEMPERATURE, OUTDOOR_MODE,
              ADAPTIVE_BACKLIGHT, PICTURE_ADJUSTMENT
<1> QED BY <1>2 DEF KindOf, FrontEnd!Features, PICTURE_ADJUSTMENT

\* Refusals and failures are answers.
LEMMA RefusalsAreAnswers ==
  ASSUME NEW op \in Ops
  PROVE  /\ Service!Refusal(op) \in Service!Answers
         /\ Service!Failure(op) \in Service!Answers
BY ZeroAssumption DEF Ops, Service!Refusal, Service!Failure, Service!Answers

-----------------------------------------------------------------------------
(* The front end inside LegacyMM.                                          *)

\* The two instances of the front end are one.
LEMMA SameStep ==
  ASSUME NEW t \in Threads, FrontEnd!Enter(t) \/ FrontEnd!Run(t)
  PROVE  FP!Next
<1> USE DEF FrontEnd!Goto, FP!Goto, FrontEnd!At, FP!At, FrontEnd!Resume,
            FP!Resume, FrontEnd!java, FP!java, FrontEnd!native, FP!native,
            FrontEnd!locals, FP!locals, FrontEnd!vars, FP!vars,
            FrontEnd!Features, FP!Features, FrontEnd!NoCall, FP!NoCall,
            FrontEnd!HasNativeFeature, FP!HasNativeFeature
<1>1. CASE FrontEnd!Enter(t)
  <2>1. FP!Enter(t)
    BY <1>1 DEF FrontEnd!Enter, FP!Enter, FrontEnd!LoadLibrary, FP!LoadLibrary,
                FrontEnd!LoadFails, FP!LoadFails, FrontEnd!Invoke, FP!Invoke,
                FrontEnd!Refuse, FP!Refuse
  <2> QED BY <2>1 DEF FP!Next
<1>2. CASE FrontEnd!Connect(t)
  <2>1. FP!Connect(t)
    BY <1>2 DEF FrontEnd!Connect, FP!Connect,
                FrontEnd!ConnectAlready, FP!ConnectAlready,
                FrontEnd!ConnectNoBackend, FP!ConnectNoBackend,
                FrontEnd!ConnectStart, FP!ConnectStart,
                FrontEnd!InitializeFails, FP!InitializeFails,
                FrontEnd!InitializeOk, FP!InitializeOk,
                FrontEnd!Probe, FP!Probe, FrontEnd!Connected, FP!Connected
  <2> QED BY <2>1 DEF FP!Next, FP!Run
<1>3. CASE FrontEnd!Run(t) /\ ~FrontEnd!Connect(t)
  <2>1. FP!Run(t)
    BY <1>3 DEF FrontEnd!Run, FP!Run, FrontEnd!Acquire, FP!Acquire,
                FrontEnd!Check, FP!Check, FrontEnd!OperationOk, FP!OperationOk,
                FrontEnd!OperationFails, FP!OperationFails,
                FrontEnd!Deinitialize, FP!Deinitialize,
                FrontEnd!Clear, FP!Clear, FrontEnd!Unlock, FP!Unlock,
                FrontEnd!Publish, FP!Publish
  <2> QED BY <2>1 DEF FP!Next
<1> QED BY <1>1, <1>2, <1>3

\* Outside of Load, Invoke and Refuse, which enter it, a step of LegacyMM runs
\* the front end, leaves it alone or ends it.
LEMMA StepKinds ==
  ASSUME Next, IInv
  PROVE  FP!Next \/ UNCHANGED frontEnd \/ Die
<1> USE DEF frontEnd
<1>1. ASSUME NEW t \in Threads, Load(t) \/ Publish(t)
      PROVE  FP!Next
  BY <1>1, SameStep DEF Load, Publish, FrontEnd!Enter, FrontEnd!Run
<1>2. ASSUME NEW t \in Threads, Invoke(t)
      PROVE  FP!Next
  <2>1. req[t] \in Service!Requests
    BY <1>2 DEF Invoke, Waiting, IInv, OwnTypes
  <2>2. KindOf(req[t].op) \in {"status", "value"} /\ BitOf(req[t]) \in FrontEnd!Features
    BY <2>1, RequestCalls
  <2>3. FrontEnd!Enter(t)
    BY <1>2, <2>2 DEF Invoke, FrontEnd!Enter
  <2> QED BY <2>3, SameStep
<1>3. ASSUME NEW t \in Threads,
             Ask(t) \/ Refuse(t) \/ WriteNode(t) \/ ReadNode(t) \/ Return(t)
      PROVE  UNCHANGED frontEnd
  BY <1>3 DEF Ask, Refuse, WriteNode, ReadNode, Return, ByNode,
              FrontEnd!Refuse, FrontEnd!vars
<1>4. ASSUME NEW t \in Threads, Connection(t)
      PROVE  FP!Next
  BY <1>4, SameStep DEF Connection, Manage, DlopenFails, DispApiInitFails,
       InitializeOk, Probe, Reset, Unlock, FrontEnd!Run, FrontEnd!Connect
<1>5. ASSUME NEW t \in Threads, Operation(t)
      PROVE  FP!Next \/ UNCHANGED frontEnd
  <2>1. FrontEnd!Run(t) \/ UNCHANGED frontEnd
    BY <1>5 DEF Operation, SetActive, SetDefault, GetCurrentDisplayMode,
         GetDefaultDisplayMode, ReadId, GetDisplayModeById, GetDisplayModes,
         SetColorBalance, GetColorBalance, GetRanges, SetPictureAdjustment,
         GetPictureAdjustment, AdjustPicture, GetDefaultPictureAdjustment,
         Finish, Fail, Continue, FrontEnd!Run
  <2> QED BY <2>1, SameStep
<1>6. ASSUME NEW t \in Threads, MissingFunction(t)
      PROVE  Die
  BY <1>6 DEF MissingFunction
<1>7. CASE Crash
  BY <1>7 DEF Crash
<1> QED BY <1>1, <1>2, <1>3, <1>4, <1>5, <1>6, <1>7 DEF Next, Facade

\* The lemmas of the front end, for its bits.
LEMMA FrontEndInit == FP!Init => FP!IInv
BY ThreadsAssumption, FP!InitInv DEF PICTURE_ADJUSTMENT

\* The next state of a death is an initial state of the front end.
LEMMA FrontEndRestart == FP!Init' => FP!IInv'
BY FrontEndInit, PTL

\* The front end keeps its invariant: threads own what they use and sessions
\* are paired, whichever calls to the vendor library fail, and after a death.
LEMMA FrontEndStep == IInv /\ [Next]_vars => FP!IInv'
<1> SUFFICES ASSUME IInv, [Next]_vars
             PROVE  FP!IInv'
  OBVIOUS
<1>1. CASE FP!Next \/ UNCHANGED frontEnd
  <2>1. [FP!Next]_(FP!vars)
    BY <1>1 DEF frontEnd, FP!vars
  <2>2. FP!IInv
    BY DEF IInv
  <2>3. PICTURE_ADJUSTMENT \in Nat
    BY DEF PICTURE_ADJUSTMENT
  <2> QED BY <2>1, <2>2, <2>3, ThreadsAssumption, FP!InvStep
<1>2. CASE Die
  <2>1. mBackend' \in BOOLEAN
    BY <1>2 DEF Die, IInv, FP!IInv, FP!TypeOK
  <2>2. FP!Init'
    BY <1>2, <2>1 DEF Die, FP!Init, FrontEnd!NoCall, FP!NoCall
  <2> QED BY <2>2, FrontEndRestart
<1> QED BY <1>1, <1>2, StepKinds DEF vars, frontEnd

-----------------------------------------------------------------------------
(* Types.                                                                  *)

\* Giving an answer, or taking it back, keeps the answers in their type.
LEMMA ReplyTypes ==
  ASSUME OwnTypes, NEW t \in Threads,
         NEW a \in Service!Answers \cup {NoAnswer}, Reply(t, a)
  PROVE  answer' \in [Threads -> Service!Answers \cup {NoAnswer}]
BY DEF OwnTypes, Reply

\* So does a call that fails before its operation.
LEMMA SettleTypes ==
  ASSUME OwnTypes, AnswerInv, NEW t \in Threads, pc[t] # "idle", Settle(t)
  PROVE  answer' \in [Threads -> Service!Answers \cup {NoAnswer}]
<1>1. req[t].op \in Ops
  BY RequestForm DEF AnswerInv
<1> QED BY <1>1, RefusalsAreAnswers, ReplyTypes DEF Settle, OwnTypes

\* And the end of an operation.
LEMMA FinishTypes ==
  ASSUME OwnTypes, NEW t \in Threads, NEW a \in Service!Answers, Finish(t, a)
  PROVE  /\ answer' \in [Threads -> Service!Answers \cup {NoAnswer}]
         /\ step' \in [Threads -> {"first", "second"}]
         /\ id' \in [Threads -> Modes \cup {NoMode}]
BY ReplyTypes DEF Finish, OwnTypes

LEMMA FailTypes ==
  ASSUME OwnTypes, NEW t \in Threads, req[t].op \in Ops, Fail(t)
  PROVE  /\ answer' \in [Threads -> Service!Answers \cup {NoAnswer}]
         /\ step' \in [Threads -> {"first", "second"}]
         /\ id' \in [Threads -> Modes \cup {NoMode}]
BY ReplyTypes, RefusalsAreAnswers DEF Fail, OwnTypes

\* What the operations answer with.
LEMMA AnswerForms ==
  /\ \A b \in BOOLEAN : Service!Bool(b) \in Service!Answers
  /\ \A m \in Modes : Service!Mode(m) \in Service!Answers
  /\ \A n \in Balances : Service!Int(n) \in Service!Answers
  /\ \A p \in Pictures : Service!Picture(p) \in Service!Answers
  /\ Service!List(Modes) \in Service!Answers
  /\ Service!List({}) \in Service!Answers
  /\ Service!Null \in Service!Answers
  /\ Service!Range("min", "max") \in Service!Answers
BY DEF Service!Answers

\* An operation goes on, ends with an answer, or fails; a thread runs it for
\* its own request.
LEMMA OperationEnds ==
  ASSUME IInv, NEW t \in Threads, Operation(t)
  PROVE  /\ pc[t] = "op" /\ req[t] \in Service!Requests
         /\ UNCHANGED <<req, mLibHandle>>
         /\ \/ Continue(t) /\ step[t] = "first"
            \/ \E a \in Service!Answers : Finish(t, a)
            \/ Fail(t) /\ (CallFails(t) \/ (req[t].op = "setMode" /\ req[t].id = Bogus))
<1>1. pc[t] = "op"
  BY DEF Operation, SetActive, SetDefault, GetCurrentDisplayMode,
       GetDefaultDisplayMode, ReadId, GetDisplayModeById, GetDisplayModes,
       SetColorBalance, GetColorBalance, GetRanges, SetPictureAdjustment,
       GetPictureAdjustment, AdjustPicture, GetDefaultPictureAdjustment, In, At
<1>2. req[t] \in Service!Requests
  BY <1>1 DEF IInv, AnswerInv
<1>3. step[t] = "second" /\ req[t].op # "setMode" => id[t] \in Modes
  BY DEF IInv, StepInv, HalfWay, OwnTypes
<1>4. UNCHANGED <<req, mLibHandle>>
  BY DEF Operation, SetActive, SetDefault, GetCurrentDisplayMode,
       GetDefaultDisplayMode, ReadId, GetDisplayModeById, GetDisplayModes,
       SetColorBalance, GetColorBalance, GetRanges, SetPictureAdjustment,
       GetPictureAdjustment, AdjustPicture, GetDefaultPictureAdjustment
<1> DEFINE Ends == \/ Continue(t) /\ step[t] = "first"
                   \/ \E a \in Service!Answers : Finish(t, a)
                   \/ Fail(t) /\ (CallFails(t) \/ (req[t].op = "setMode" /\ req[t].id = Bogus))
<1>5. ASSUME SetActive(t) \/ SetDefault(t)
      PROVE  Ends
  BY <1>5, AnswerForms DEF SetActive, SetDefault, In
<1>6. ASSUME GetDisplayModeById(t)
      PROVE  Ends
  BY <1>6, <1>3, AnswerForms DEF GetDisplayModeById, In
<1>7. ASSUME GetCurrentDisplayMode(t) \/ GetDefaultDisplayMode(t)
      PROVE  Ends
  BY <1>7, AnswerForms DEF GetCurrentDisplayMode, GetDefaultDisplayMode, ReadId, In
<1>8. ASSUME GetColorBalance(t)
      PROVE  Ends
  BY <1>8, AnswerForms, ZeroAssumption DEF GetColorBalance, IInv, OwnTypes
<1>9. ASSUME GetDisplayModes(t) \/ SetColorBalance(t) \/ GetRanges(t)
      PROVE  Ends
  BY <1>9, AnswerForms DEF GetDisplayModes, SetColorBalance, GetRanges
<1>10. ASSUME \/ SetPictureAdjustment(t) \/ GetPictureAdjustment(t)
              \/ GetDefaultPictureAdjustment(t)
       PROVE  Ends
  BY <1>10, AnswerForms, ZeroAssumption
     DEF SetPictureAdjustment, GetPictureAdjustment, AdjustPicture,
         GetDefaultPictureAdjustment
<1> QED BY <1>1, <1>2, <1>4, <1>5, <1>6, <1>7, <1>8, <1>9, <1>10 DEF Operation

\* No step leaves the types.
LEMMA TypesStep == IInv /\ [Next]_vars => OwnTypes'
<1> SUFFICES ASSUME IInv, [Next]_vars
             PROVE  OwnTypes'
  OBVIOUS
<1>t. OwnTypes /\ AnswerInv /\ StepInv
  BY DEF IInv
<1>f. UNCHANGED fixed
  BY DEF Next, vars, fixed
<1>r. ASSUME NEW t \in Threads, req[t] # NoRequest
      PROVE  req[t] \in Service!Requests /\ req[t].op \in Ops
  BY <1>r, <1>t, RequestForm DEF OwnTypes
<1>i. ASSUME NEW t \in Threads, pc[t] # "idle"
      PROVE  req[t] \in Service!Requests /\ req[t].op \in Ops
  BY <1>i, <1>t, RequestForm DEF AnswerInv
<1> USE DEF device, locals
<1>1. CASE UNCHANGED vars
  BY <1>1, <1>t DEF vars, OwnTypes
<1>2. ASSUME NEW t \in Threads, Facade(t)
      PROVE  OwnTypes'
  <2>1. CASE Ask(t)
    <3>1. menu \subseteq Service!Requests
      BY <1>t, MenuAssumption DEF OwnTypes
    <3>2. req' \in [Threads -> Service!Requests \cup {NoRequest}]
      BY <2>1, <3>1, <1>t DEF Ask, OwnTypes
    <3> QED BY <2>1, <3>2, <1>t, <1>f DEF Ask, OwnTypes, fixed
  <2>2. CASE Load(t) \/ Publish(t) \/ Invoke(t)
    BY <2>2, <1>t, <1>f DEF Load, Publish, Invoke, OwnTypes, fixed
  <2>3. CASE Refuse(t)
    <3>1. answer' \in [Threads -> Service!Answers \cup {NoAnswer}]
      BY <2>3, <1>t, <1>r, RefusalsAreAnswers, ReplyTypes DEF Refuse, Waiting
    <3> QED BY <2>3, <3>1, <1>t, <1>f DEF Refuse, OwnTypes, fixed
  <2>4. CASE WriteNode(t)
    <3>1. req[t] \in Service!Requests /\ req[t].op = "setSwitch"
      BY <2>4, <1>r DEF WriteNode, ByNode, Waiting
    <3>2. req[t].switch \in Switches /\ req[t].enabled \in BOOLEAN
      BY <3>1, RequestForm
    <3>3. answer' \in [Threads -> Service!Answers \cup {NoAnswer}]
      BY <2>4, <1>t, AnswerForms, ReplyTypes DEF WriteNode
    <3>4. on' \in [Switches -> BOOLEAN]
      BY <2>4, <3>2, <1>t DEF WriteNode, OwnTypes
    <3> QED BY <2>4, <3>3, <3>4, <1>t, <1>f DEF WriteNode, ByNode, OwnTypes, fixed
  <2>5. CASE ReadNode(t)
    <3>1. req[t] \in Service!Requests /\ req[t].op = "isOn"
      BY <2>5, <1>r DEF ReadNode, ByNode, Waiting
    <3>2. on[req[t].switch] \in BOOLEAN
      BY <3>1, <1>t, RequestForm DEF OwnTypes
    <3>3. answer' \in [Threads -> Service!Answers \cup {NoAnswer}]
      BY <2>5, <3>2, <1>t, AnswerForms, ReplyTypes DEF ReadNode
    <3> QED BY <2>5, <3>3, <1>t, <1>f DEF ReadNode, ByNode, OwnTypes, fixed
  <2>6. CASE Return(t)
    <3>1. answer' \in [Threads -> Service!Answers \cup {NoAnswer}]
      BY <2>6, <1>t, ReplyTypes DEF Return
    <3> QED BY <2>6, <3>1, <1>t, <1>f DEF Return, OwnTypes, fixed
  <2> QED BY <1>2, <2>1, <2>2, <2>3, <2>4, <2>5, <2>6 DEF Facade
<1>3. ASSUME NEW t \in Threads, Connection(t)
      PROVE  OwnTypes'
  <2>1. CASE Manage(t) \/ DlopenFails(t) \/ DispApiInitFails(t)
    <3>1. pc[t] # "idle"
      BY <2>1 DEF Manage, DlopenFails, DispApiInitFails, FrontEnd!Acquire,
           FrontEnd!ConnectAlready, FrontEnd!ConnectStart, FrontEnd!Connected,
           FrontEnd!Check, FrontEnd!InitializeFails, FrontEnd!At
    <3>2. answer' \in [Threads -> Service!Answers \cup {NoAnswer}]
      BY <2>1, <3>1, <1>t, SettleTypes DEF Manage, DlopenFails, DispApiInitFails
    <3> QED BY <2>1, <3>2, <1>t, <1>f
            DEF Manage, DlopenFails, DispApiInitFails, OwnTypes, fixed
  <2>2. CASE InitializeOk(t) \/ Probe(t) \/ Reset(t) \/ Unlock(t)
    BY <2>2, <1>t, <1>f
       DEF InitializeOk, Probe, Reset, Unlock, OwnTypes, fixed
  <2> QED BY <1>3, <2>1, <2>2 DEF Connection
<1>4. ASSUME NEW t \in Threads, Operation(t)
      PROVE  OwnTypes'
  <2>1. /\ answer' \in [Threads -> Service!Answers \cup {NoAnswer}]
        /\ step' \in [Threads -> {"first", "second"}]
        /\ mLibHandle' = mLibHandle /\ req' = req
    <3>1. req[t].op \in Ops
      BY <1>4, OperationEnds, RequestForm
    <3> QED BY <1>4, <3>1, <1>t, OperationEnds, FinishTypes, FailTypes
            DEF Continue, OwnTypes
  <2>2. id' \in [Threads -> Modes \cup {NoMode}]
    BY <1>4, <1>t DEF Operation, SetActive, SetDefault, GetCurrentDisplayMode,
         GetDefaultDisplayMode, ReadId, GetDisplayModeById, GetDisplayModes,
         SetColorBalance, GetColorBalance, GetRanges, SetPictureAdjustment,
         GetPictureAdjustment, AdjustPicture, GetDefaultPictureAdjustment,
         Finish, Fail, OwnTypes
  <2>3. req[t] \in Service!Requests
    BY <1>4, OperationEnds
  <2>4. active' \in Modes /\ was' \in Modes \cup {NoMode} /\ default' \in Modes
    BY <1>4, <1>t DEF Operation, SetActive, SetDefault, GetCurrentDisplayMode,
         GetDefaultDisplayMode, ReadId, GetDisplayModeById, GetDisplayModes,
         SetColorBalance, GetColorBalance, GetRanges, SetPictureAdjustment,
         GetPictureAdjustment, AdjustPicture, GetDefaultPictureAdjustment,
         In, OwnTypes, StepInv, HalfWay
  <2>5. balance' \in Balances /\ picture' \in Pictures
    <3>1. /\ req[t].op = "setBalance" => req[t].value \in Balances
          /\ req[t].op = "setPicture" => req[t].hsic \in Pictures
      BY <2>3, RequestForm
    <3> QED BY <1>4, <1>t, <3>1, ZeroAssumption DEF Operation, SetActive,
         SetDefault, GetCurrentDisplayMode, GetDefaultDisplayMode, ReadId,
         GetDisplayModeById, GetDisplayModes, SetColorBalance, GetColorBalance,
         GetRanges, SetPictureAdjustment, GetPictureAdjustment, AdjustPicture,
         GetDefaultPictureAdjustment, In, OwnTypes
  <2>6. on' = on
    BY <1>4 DEF Operation, SetActive, SetDefault, GetCurrentDisplayMode,
         GetDefaultDisplayMode, ReadId, GetDisplayModeById, GetDisplayModes,
         SetColorBalance, GetColorBalance, GetRanges, SetPictureAdjustment,
         GetPictureAdjustment, AdjustPicture, GetDefaultPictureAdjustment
  <2> QED BY <1>t, <1>f, <2>1, <2>2, <2>4, <2>5, <2>6 DEF OwnTypes, fixed
<1>5. CASE Die
  BY <1>5, <1>t, <1>f DEF Die, OwnTypes, fixed
<1> QED BY <1>1, <1>2, <1>3, <1>4, <1>5 DEF Next, MissingFunction, Crash

-----------------------------------------------------------------------------
(* Requests and answers.                                                   *)

\* An answer comes exactly where a call ends, for the request it was made for.
LEMMA AnswerStep == IInv /\ [Next]_vars => AnswerInv'
<1> SUFFICES ASSUME IInv, [Next]_vars
             PROVE  AnswerInv'
  OBVIOUS
<1>t. FP!TypeOK /\ OwnTypes /\ AnswerInv
  BY DEF IInv, FP!IInv
<1>p. pc \in [Threads -> FP!Labels] /\ req \in [Threads -> Service!Requests \cup {NoRequest}]
      /\ answer \in [Threads -> Service!Answers \cup {NoAnswer}]
  BY <1>t DEF FP!TypeOK, OwnTypes
<1>r. ASSUME NEW t \in Threads, req[t] # NoRequest
      PROVE  req[t] \in Service!Requests
  BY <1>r, <1>p
<1> USE <1>t, <1>p DEF AnswerInv, FrontEnd!Goto, FrontEnd!At, At
<1>1. CASE UNCHANGED vars
  BY <1>1 DEF vars
<1>2. ASSUME NEW t \in Threads, Facade(t)
      PROVE  AnswerInv'
  <2>1. CASE Ask(t)
    <3>1. menu \subseteq Service!Requests
      BY MenuAssumption DEF OwnTypes
    <3>2. PICK r \in menu : req' = [req EXCEPT ![t] = r]
      BY <2>1 DEF Ask
    <3> QED BY <2>1, <3>1, <3>2 DEF Ask, frontEnd
  <2>2. CASE Load(t)
    BY <2>2, <1>r DEF Load, Waiting, FrontEnd!LoadLibrary, FrontEnd!LoadFails
  <2>3. CASE Publish(t)
    BY <2>3 DEF Publish, FrontEnd!Publish
  <2>4. CASE Invoke(t)
    BY <2>4, <1>r DEF Invoke, Waiting, FrontEnd!Invoke
  <2>5. CASE Refuse(t) \/ WriteNode(t) \/ ReadNode(t)
    <3>1. pc' = pc /\ req' = req /\ pc[t] = "idle" /\ req[t] \in Service!Requests
      BY <2>5, <1>r DEF Refuse, WriteNode, ReadNode, ByNode, FrontEnd!Refuse,
                        FrontEnd!vars, frontEnd, Waiting
    <3>2. PICK a : answer' = [answer EXCEPT ![t] = a]
      BY <2>5 DEF Refuse, WriteNode, ReadNode, Reply
    <3> QED BY <3>1, <3>2
  <2>6. CASE Return(t)
    BY <2>6 DEF Return, Reply, frontEnd
  <2> QED BY <1>2, <2>1, <2>2, <2>3, <2>4, <2>5, <2>6 DEF Facade
<1>3. ASSUME NEW t \in Threads, Connection(t)
      PROVE  AnswerInv'
  <2>1. CASE Manage(t) \/ DlopenFails(t) \/ DispApiInitFails(t)
    <3>1. PICK l \in {"connect", "initialize", "check", "op", "unlock", "publish"} :
            pc' = [pc EXCEPT ![t] = l]
      BY <2>1 DEF Manage, DlopenFails, DispApiInitFails, FrontEnd!Acquire,
           FrontEnd!ConnectAlready, FrontEnd!ConnectStart, FrontEnd!Connected,
           FrontEnd!Check, FrontEnd!InitializeFails, FrontEnd!Resume
    <3>2. pc[t] \notin {"idle", "reset", "clear", "unlock"} /\ req' = req /\ Settle(t)
      BY <2>1 DEF Manage, DlopenFails, DispApiInitFails, FrontEnd!Acquire,
           FrontEnd!ConnectAlready, FrontEnd!ConnectStart, FrontEnd!Connected,
           FrontEnd!Check, FrontEnd!InitializeFails
    <3>3. Service!Failure(req[t].op) # NoAnswer
      BY <3>2, RequestForm, RefusalsAreAnswers, AnswersAreSome
    <3>4. CASE l = "unlock"
      <4>1. answer' = [answer EXCEPT ![t] = Service!Failure(req[t].op)]
        BY <3>1, <3>2, <3>4 DEF Settle, Reply
      <4> QED BY <3>1, <3>2, <3>3, <3>4, <4>1
    <3>5. CASE l # "unlock"
      <4>1. answer' = answer
        BY <3>1, <3>2, <3>5 DEF Settle
      <4> QED BY <3>1, <3>2, <3>5, <4>1
    <3> QED BY <3>4, <3>5
  <2>2. CASE InitializeOk(t)
    BY <2>2 DEF InitializeOk, FrontEnd!InitializeOk
  <2>3. CASE Probe(t)
    BY <2>3 DEF Probe, FrontEnd!Probe
  <2>4. CASE Reset(t)
    BY <2>4 DEF Reset, FrontEnd!Deinitialize, FrontEnd!Clear
  <2>5. CASE Unlock(t)
    BY <2>5 DEF Unlock, FrontEnd!Unlock
  <2> QED BY <1>3, <2>1, <2>2, <2>3, <2>4, <2>5 DEF Connection
<1>4. ASSUME NEW t \in Threads, Operation(t)
      PROVE  AnswerInv'
  <2>1. pc[t] = "op" /\ req[t] \in Service!Requests /\ req' = req
    BY <1>4, OperationEnds
  <2>2. CASE Continue(t)
    BY <2>1, <2>2 DEF Continue, frontEnd
  <2>3. ASSUME NEW a \in Service!Answers, Finish(t, a)
        PROVE  AnswerInv'
    BY <2>1, <2>3, AnswersAreSome DEF Finish, Reply, FrontEnd!OperationOk
  <2>4. CASE Fail(t)
    <3>1. Service!Failure(req[t].op) # NoAnswer
      BY <2>1, RequestForm, RefusalsAreAnswers, AnswersAreSome
    <3> QED BY <2>1, <2>4, <3>1 DEF Fail, Reply, FrontEnd!OperationFails
  <2> QED BY <1>4, <2>2, <2>3, <2>4, OperationEnds
<1>5. CASE Die
  BY <1>5 DEF Die
<1> QED BY <1>1, <1>2, <1>3, <1>4, <1>5 DEF Next, MissingFunction, Crash

\* A call runs for what its thread has asked until it ends.
LEMMA CallStep == IInv /\ [Next]_vars => CallInv'
<1> SUFFICES ASSUME IInv, [Next]_vars
             PROVE  CallInv'
  OBVIOUS
<1>t. /\ call \in [Threads -> FP!Calls]
      /\ req \in [Threads -> Service!Requests \cup {NoRequest}]
      /\ CallInv /\ sFeatures \subseteq Having
  BY DEF IInv, FP!IInv, FP!TypeOK, OwnTypes, FeatureInv
<1>o. \A t \in Threads : pc[t] = "idle" => call[t].kind = "init"
  BY DEF IInv, FP!IInv, FP!OwnerInv
<1>f. Having' = Having
  BY DEF Having, HasFeature, Next, vars, fixed
<1> USE <1>t, <1>o, <1>f DEF CallInv, FrontEnd!At, At, FrontEnd!locals
<1>1. CASE UNCHANGED <<req, call>>
  BY <1>1
<1>2. ASSUME NEW t \in Threads, Ask(t) \/ Return(t)
      PROVE  CallInv'
  BY <1>2 DEF Ask, Return, frontEnd
<1>3. ASSUME NEW t \in Threads, Invoke(t)
      PROVE  CallInv'
  BY <1>3 DEF Invoke, FrontEnd!Invoke, FrontEnd!HasNativeFeature
<1>4. ASSUME NEW t \in Threads, Unlock(t)
      PROVE  CallInv'
  BY <1>4 DEF Unlock, FrontEnd!Unlock, FrontEnd!NoCall
<1>5. CASE Die
  BY <1>5 DEF Die, FrontEnd!NoCall
<1>6. ASSUME NEW t \in Threads,
             Load(t) \/ Publish(t) \/ Refuse(t) \/ WriteNode(t) \/ ReadNode(t)
      PROVE  UNCHANGED <<req, call>>
  BY <1>6 DEF Load, Publish, Refuse, WriteNode, ReadNode, ByNode, frontEnd,
       FrontEnd!LoadLibrary, FrontEnd!LoadFails, FrontEnd!Publish,
       FrontEnd!Refuse, FrontEnd!vars
<1>7. ASSUME NEW t \in Threads, Connection(t), ~Unlock(t)
      PROVE  UNCHANGED <<req, call>>
  BY <1>7 DEF Connection, Manage, DlopenFails, DispApiInitFails, InitializeOk,
       Probe, Reset, FrontEnd!Acquire, FrontEnd!ConnectAlready,
       FrontEnd!ConnectStart, FrontEnd!Connected, FrontEnd!Check,
       FrontEnd!InitializeFails, FrontEnd!InitializeOk, FrontEnd!Probe,
       FrontEnd!Deinitialize, FrontEnd!Clear
<1>8. ASSUME NEW t \in Threads, Operation(t)
      PROVE  UNCHANGED <<req, call>>
  BY <1>8, OperationEnds DEF Continue, Finish, Fail, frontEnd,
       FrontEnd!OperationOk, FrontEnd!OperationFails
<1> QED BY <1>1, <1>2, <1>3, <1>4, <1>5, <1>6, <1>7, <1>8
        DEF Next, Facade, MissingFunction, Crash, vars

-----------------------------------------------------------------------------
(* Operations of two vendor calls.                                         *)

\* Only one thread is inside the vendor library.
LEMMA Alone ==
  ASSUME IInv, NEW s \in Threads, NEW t \in Threads,
         pc[s] \in FrontEnd!InBackend, pc[t] \in FrontEnd!InBackend
  PROVE  s = t
<1>1. pc[s] \in FP!Section /\ pc[t] \in FP!Section
  BY DEF FP!Section, FP!InBackend, FrontEnd!InBackend
<1>2. FP!OwnerInv /\ PICTURE_ADJUSTMENT \in Nat
  BY DEF IInv, FP!IInv, PICTURE_ADJUSTMENT
<1> QED BY <1>1, <1>2, ThreadsAssumption, FP!OwnersExclude

\* A step of the front end that is not an operation is not inside "op", and
\* moves its own thread only.
LEMMA OutsideOp ==
  ASSUME IInv, NEW t \in Threads, Facade(t) \/ Connection(t)
  PROVE  /\ pc[t] # "op" /\ UNCHANGED <<active, default, locals>>
         /\ \A u \in Threads \ {t} : pc'[u] = pc[u] /\ req'[u] = req[u]
<1>1. pc \in [Threads -> FP!Labels] /\ req \in [Threads -> Service!Requests \cup {NoRequest}]
  BY DEF IInv, FP!IInv, FP!TypeOK, OwnTypes
<1> USE <1>1 DEF FrontEnd!At, At, FrontEnd!Goto, device
<1>2. CASE Ask(t) \/ Refuse(t) \/ WriteNode(t) \/ ReadNode(t) \/ Return(t)
  BY <1>2 DEF Ask, Refuse, WriteNode, ReadNode, Return, ByNode, frontEnd,
       FrontEnd!Refuse, FrontEnd!vars
<1>3. CASE Load(t) \/ Publish(t) \/ Invoke(t)
  BY <1>3 DEF Load, Publish, Invoke, FrontEnd!LoadLibrary, FrontEnd!LoadFails,
       FrontEnd!Publish, FrontEnd!Invoke
<1>4. CASE Connection(t)
  BY <1>4 DEF Connection, Manage, DlopenFails, DispApiInitFails, InitializeOk,
       Probe, Reset, Unlock, FrontEnd!Acquire, FrontEnd!ConnectAlready,
       FrontEnd!ConnectStart, FrontEnd!Connected, FrontEnd!Check,
       FrontEnd!InitializeFails, FrontEnd!InitializeOk, FrontEnd!Probe,
       FrontEnd!Deinitialize, FrontEnd!Clear, FrontEnd!Unlock, FrontEnd!Resume
<1> QED BY <1>2, <1>3, <1>4 DEF Facade

\* A half-done operation is the only one, and what it has done stands until
\* it ends: the other threads wait for mLock.
LEMMA StepStep == IInv /\ [Next]_vars => StepInv'
<1> SUFFICES ASSUME IInv, [Next]_vars
             PROVE  StepInv'
  OBVIOUS
<1>t. /\ FP!TypeOK /\ OwnTypes /\ StepInv
      /\ pc \in [Threads -> FP!Labels]
      /\ step \in [Threads -> {"first", "second"}]
      /\ id \in [Threads -> Modes \cup {NoMode}]
  BY DEF IInv, FP!IInv, FP!TypeOK, OwnTypes
<1> USE <1>t, ModeAssumption DEF StepInv, HalfWay, locals
<1>1. CASE UNCHANGED vars
  BY <1>1 DEF vars
<1>2. ASSUME NEW t \in Threads, Facade(t) \/ Connection(t)
      PROVE  StepInv'
  <2>1. /\ pc[t] # "op" /\ UNCHANGED <<active, default, step, id, was>>
        /\ \A u \in Threads \ {t} : pc'[u] = pc[u] /\ req'[u] = req[u]
    BY <1>2, OutsideOp
  <2>2. step[t] # "second"
    BY <2>1
  <2> QED BY <2>1, <2>2
<1>3. ASSUME NEW t \in Threads, Operation(t)
      PROVE  StepInv'
  <2>1. \A u \in Threads : u # t => step[u] # "second"
    <3>1. pc[t] = "op"
      BY <1>3, OperationEnds
    <3> QED BY <3>1, Alone DEF FrontEnd!InBackend
  <2>2. req' = req /\ pc[t] = "op" /\ req[t] \in Service!Requests
    BY <1>3, OperationEnds
  <2>3. (step[t] = "first" \/ ~HalfWay(t)) => was = NoMode
    BY <2>1
  <2>4. ASSUME Continue(t), step[t] = "first"
        PROVE  StepInv'
    <3>1. pc' = pc /\ step' = [step EXCEPT ![t] = "second"]
      BY <2>4 DEF Continue, frontEnd
    <3>2. CASE SetActive(t)
      <4>1. req[t].makeDefault
        BY <2>2, <2>4, <3>2, <3>1, RequestForm DEF SetActive, In, Finish, Fail
      <4>2. req[t].op = "setMode" /\ was' = active /\ active' = req[t].id /\ req[t].id \in Modes
        BY <2>4, <3>1, <3>2, <4>1 DEF SetActive, In, Finish, Fail
      <4> QED BY <2>1, <2>2, <3>1, <4>1, <4>2 DEF OwnTypes
    <3>3. ASSUME NEW op \in {"getMode", "getDefaultMode"}, NEW mode \in Modes,
                 mode = IF op = "getMode" THEN active ELSE default,
                 ReadId(t, op, mode)
          PROVE  StepInv'
      <4>1. /\ req[t].op = op /\ id' = [id EXCEPT ![t] = mode]
            /\ UNCHANGED <<active, default, was>>
        BY <2>4, <3>1, <3>3 DEF ReadId, In, Finish, device
      <4> QED BY <2>1, <2>2, <2>3, <2>4, <3>1, <3>3, <4>1
    <3>4. CASE GetCurrentDisplayMode(t) \/ GetDefaultDisplayMode(t)
      BY <3>3, <3>4 DEF GetCurrentDisplayMode, GetDefaultDisplayMode, OwnTypes
    <3>5. step'[t] = "second"
      BY <3>1
    <3> QED BY <1>3, <2>4, <3>2, <3>4, <3>5 DEF Operation, SetDefault,
          GetDisplayModeById, GetDisplayModes, SetColorBalance,
          GetColorBalance, GetRanges, SetPictureAdjustment,
          GetPictureAdjustment, AdjustPicture, GetDefaultPictureAdjustment,
          Finish, Fail
  <2>5. ASSUME step' = [step EXCEPT ![t] = "first"]
        PROVE  StepInv'
    <3>1. was' = NoMode
      <4>1. CASE SetActive(t)
        BY <2>3, <2>5, <4>1 DEF SetActive, In, Continue
      <4>2. CASE SetDefault(t)
        BY <4>2 DEF SetDefault
      <4>3. CASE ~SetActive(t) /\ ~SetDefault(t)
        <5>1. was' = was /\ req[t].op # "setMode"
          BY <1>3, <4>3 DEF Operation, GetCurrentDisplayMode,
               GetDefaultDisplayMode, ReadId, GetDisplayModeById,
               GetDisplayModes, SetColorBalance, GetColorBalance, GetRanges,
               SetPictureAdjustment, GetPictureAdjustment, AdjustPicture,
               GetDefaultPictureAdjustment, In
        <5> QED BY <5>1, <2>3
      <4> QED BY <4>1, <4>2, <4>3
    <3>2. \A u \in Threads : step'[u] # "second"
      BY <2>1, <2>5
    <3> QED BY <3>1, <3>2
  <2> QED BY <1>3, <2>4, <2>5, OperationEnds DEF Finish, Fail
<1>4. CASE Die
  BY <1>4 DEF Die
<1> QED BY <1>1, <1>2, <1>3, <1>4 DEF Next, MissingFunction, Crash

-----------------------------------------------------------------------------
(* The library and the features.                                           *)

\* What the front end's invariant says where LegacyMM needs it.
LEMMA FrontEndFacts ==
  ASSUME IInv
  PROVE  /\ \A t \in Threads :
              /\ pc[t] \in {"initialize", "probe"} => ~mConnected
              /\ pc[t] \in {"check", "op", "reset"} => mConnected /\ backend = "up"
              /\ pc[t] = "probe" => backend = "up"
              /\ pc[t] = "op" => call[t].feature \in mFeatures
              /\ pc[t] = "idle" => call[t].kind = "init"
              /\ pc[t] \in {"acquire", "check", "op", "reset", "clear", "unlock"} =>
                   call[t].kind # "init" /\ classInit = "done"
              /\ pc[t] # "idle" /\ call[t].kind = "init" => classInit = "running"
              /\ pc[t] = "publish" => classInit = "running"
         /\ pc \in [Threads -> FP!Labels] /\ call \in [Threads -> FP!Calls]
         /\ bit \in [Threads -> 0..5] /\ mConnected \in BOOLEAN
BY DEF IInv, FP!IInv, FP!TypeOK, FP!SessionInv, FP!OwnerInv, FP!Initializing,
       PICTURE_ADJUSTMENT

\* Whoever may call into the library has loaded it, after failed connections too.
LEMMA LibraryStep == IInv /\ [Next]_vars => LibraryInv'
<1> SUFFICES ASSUME IInv, [Next]_vars
             PROVE  LibraryInv'
  OBVIOUS
<1>t. LibraryInv /\ pc \in [Threads -> FP!Labels]
  BY FrontEndFacts DEF IInv
<1> USE <1>t DEF LibraryInv, FrontEnd!At, At, FrontEnd!Goto, FrontEnd!native
<1>1. CASE UNCHANGED <<pc, mConnected, mLibHandle>>
  BY <1>1
<1>2. ASSUME NEW t \in Threads, Facade(t)
      PROVE  LibraryInv'
  <2>1. UNCHANGED <<mConnected, mLibHandle>> /\ (pc' = pc \/ pc'[t] # "probe")
    BY <1>2 DEF Facade, Ask, Refuse, WriteNode, ReadNode, Return, ByNode,
         frontEnd, FrontEnd!Refuse, FrontEnd!vars, Load, Publish, Invoke,
         FrontEnd!LoadLibrary, FrontEnd!LoadFails, FrontEnd!Publish, FrontEnd!Invoke
  <2> QED BY <1>2, <2>1, OutsideOp
<1>3. ASSUME NEW t \in Threads, Manage(t)
      PROVE  LibraryInv'
  BY <1>3 DEF Manage, FrontEnd!Acquire, FrontEnd!ConnectAlready,
       FrontEnd!ConnectStart, FrontEnd!Connected, FrontEnd!Check, FrontEnd!Resume
<1>4. ASSUME NEW t \in Threads, DlopenFails(t) \/ DispApiInitFails(t)
      PROVE  LibraryInv'
  <2>1. \A u \in Threads : pc[u] # "probe"
    BY <1>4, Alone DEF DlopenFails, DispApiInitFails, FrontEnd!InitializeFails,
                       FrontEnd!InBackend
  <2>2. ~mConnected
    BY <1>4, FrontEndFacts DEF DlopenFails, DispApiInitFails, FrontEnd!InitializeFails
  <2> QED BY <1>4, <2>1, <2>2 DEF DlopenFails, DispApiInitFails,
             FrontEnd!InitializeFails, FrontEnd!Resume
<1>5. ASSUME NEW t \in Threads,
             InitializeOk(t) \/ Probe(t) \/ Reset(t) \/ Unlock(t)
      PROVE  LibraryInv'
  BY <1>5 DEF InitializeOk, Probe, Reset, Unlock, FrontEnd!InitializeOk,
       FrontEnd!Probe, FrontEnd!Deinitialize, FrontEnd!Clear, FrontEnd!Unlock
<1>6. ASSUME NEW t \in Threads, Operation(t)
      PROVE  LibraryInv'
  BY <1>6, OperationEnds DEF Continue, Finish, Fail, frontEnd,
       FrontEnd!OperationOk, FrontEnd!OperationFails
<1>7. CASE Die
  BY <1>7 DEF Die
<1> QED BY <1>1, <1>2, <1>3, <1>4, <1>5, <1>6, <1>7
        DEF Next, Connection, MissingFunction, Crash, vars

\* A feature that is found works.
LEMMA FoundWorks == \A f \in Having : Works(f)
BY DEF Having, HasFeature, Works

\* An operation fails only because something may fail, or of its mode.
LEMMA FailsForAReason ==
  ASSUME IInv, NEW t \in Threads, Operation(t), Fail(t)
  PROVE  May("vendor") \/ (req[t].op = "setMode" /\ req[t].id = Bogus)
<1>1. call[t].feature \in Having
  BY OperationEnds, FrontEndFacts DEF IInv, FeatureInv
<1>2. ~ \E a \in Service!Answers : Finish(t, a)
  <2>1. ASSUME NEW a \in Service!Answers, Finish(t, a)
        PROVE  FALSE
    <3>1. pc'[t] = "unlock" /\ pc'[t] = "reset"
      BY <2>1, FrontEndFacts DEF Finish, Fail, FrontEnd!OperationOk,
           FrontEnd!OperationFails, FrontEnd!Goto
    <3> QED BY <3>1
  <2> QED BY <2>1
<1>3. ~Continue(t)
  <2>1. pc[t] = "op" /\ pc'[t] = "reset"
    BY OperationEnds, FrontEndFacts DEF Fail, FrontEnd!OperationFails, FrontEnd!Goto
  <2> QED BY <2>1 DEF Continue, frontEnd
<1> QED BY <1>1, <1>2, <1>3, FoundWorks, OperationEnds DEF CallFails

\* Where nothing fails only a made-up mode ends a session.
LEMMA OfferedStep == IInv /\ [Next]_vars => OfferedFeatureWorks'
<1> SUFFICES ASSUME IInv, [Next]_vars
             PROVE  OfferedFeatureWorks'
  OBVIOUS
<1>t. OfferedFeatureWorks /\ pc \in [Threads -> FP!Labels]
      /\ req \in [Threads -> Service!Requests \cup {NoRequest}]
  BY FrontEndFacts DEF IInv, OwnTypes
<1>f. faults' = faults
  BY DEF Next, vars, fixed
<1> USE <1>t, <1>f DEF OfferedFeatureWorks, FrontEnd!At, At, FrontEnd!Goto
<1>1. CASE UNCHANGED vars
  BY <1>1 DEF vars
<1>2. ASSUME NEW t \in Threads, Facade(t)
      PROVE  OfferedFeatureWorks'
  <2>1. pc'[t] # "reset"
    BY <1>2 DEF Facade, Ask, Refuse, WriteNode, ReadNode, Return, ByNode,
         frontEnd, FrontEnd!Refuse, FrontEnd!vars, Load, Publish, Invoke,
         FrontEnd!LoadLibrary, FrontEnd!LoadFails, FrontEnd!Publish, FrontEnd!Invoke
  <2> QED BY <1>2, <2>1, OutsideOp
<1>3. ASSUME NEW t \in Threads, Connection(t)
      PROVE  OfferedFeatureWorks'
  <2>1. pc'[t] # "reset"
    BY <1>3 DEF Connection, Manage, DlopenFails, DispApiInitFails, InitializeOk,
         Probe, Reset, Unlock, FrontEnd!Acquire, FrontEnd!ConnectAlready,
         FrontEnd!ConnectStart, FrontEnd!Connected, FrontEnd!Check,
         FrontEnd!InitializeFails, FrontEnd!InitializeOk, FrontEnd!Probe,
         FrontEnd!Deinitialize, FrontEnd!Clear, FrontEnd!Unlock, FrontEnd!Resume
  <2> QED BY <1>3, <2>1, OutsideOp
<1>4. ASSUME NEW t \in Threads, Operation(t)
      PROVE  OfferedFeatureWorks'
  <2>1. CASE Fail(t)
    <3>1. May("vendor") \/ (req[t].op = "setMode" /\ req[t].id = Bogus)
      BY <1>4, <2>1, FailsForAReason
    <3> QED BY <1>4, <2>1, <3>1, OperationEnds
            DEF Fail, FrontEnd!OperationFails, May
  <2>2. CASE ~Fail(t)
    BY <1>4, <2>2, OperationEnds DEF Continue, Finish, frontEnd,
         FrontEnd!OperationOk
  <2> QED BY <2>1, <2>2
<1>5. CASE Die
  BY <1>5 DEF Die
<1> QED BY <1>1, <1>2, <1>3, <1>4, <1>5 DEF Next, MissingFunction, Crash

\* What the facade is told is what there is, and all of it unless a call to
\* the library or the library itself fails.
LEMMA FeatureStep == IInv /\ [Next]_vars => FeatureInv'
<1> SUFFICES ASSUME IInv, [Next]_vars
             PROVE  FeatureInv'
  OBVIOUS
<1>t. FeatureInv /\ pc \in [Threads -> FP!Labels] /\ bit \in [Threads -> 0..5]
  BY FrontEndFacts DEF IInv
<1>f. Having' = Having /\ (Service!Unreliable)' = Service!Unreliable
  BY DEF Having, HasFeature, Service!Unreliable, Next, vars, fixed
<1>b. Having \subseteq 0..4
  BY DEF Having, FrontEnd!Features, PICTURE_ADJUSTMENT
<1>u. \A fault \in {"vendor", "library"} : May(fault) => Service!Unreliable
  BY DEF May, Service!Unreliable
<1> USE <1>t, <1>f, <1>b DEF FeatureInv, FrontEnd!At, At, FrontEnd!Goto,
        FrontEnd!native, FrontEnd!java
<1>1. CASE UNCHANGED <<pc, mConnected, mFeatures, sFeatures, classInit, bit>>
  BY <1>1
<1>2. ASSUME NEW t \in Threads, Load(t)
      PROVE  FeatureInv'
  <2>1. CASE FrontEnd!LoadLibrary(t)
    BY <2>1 DEF FrontEnd!LoadLibrary, FrontEnd!locals
  <2>2. CASE May("library") /\ FrontEnd!LoadFails(t)
    BY <1>u, <2>2 DEF FrontEnd!LoadFails, FrontEnd!locals
  <2> QED BY <1>2, <2>1, <2>2 DEF Load
<1>3. ASSUME NEW t \in Threads, Publish(t)
      PROVE  FeatureInv'
  BY <1>3 DEF Publish, FrontEnd!Publish, FrontEnd!locals
<1>4. ASSUME NEW t \in Threads, Invoke(t)
      PROVE  FeatureInv'
  BY <1>4 DEF Invoke, FrontEnd!Invoke
<1>5. ASSUME NEW t \in Threads, Ask(t) \/ Refuse(t) \/ WriteNode(t) \/ ReadNode(t) \/ Return(t)
      PROVE  UNCHANGED <<pc, mConnected, mFeatures, sFeatures, classInit, bit>>
  BY <1>5 DEF Ask, Refuse, WriteNode, ReadNode, Return, ByNode, frontEnd,
       FrontEnd!Refuse, FrontEnd!vars
<1>6. ASSUME NEW t \in Threads, Manage(t)
      PROVE  FeatureInv'
  <2>1. CASE FrontEnd!Connected(t)
    <3>1. bit[t] > 4 /\ pc[t] = "probe"
      BY <2>1 DEF FrontEnd!Connected, PICTURE_ADJUSTMENT
    <3>2. ~Service!Unreliable => Having \subseteq mFeatures
      BY <3>1
    <3>3. /\ mConnected' /\ UNCHANGED <<mFeatures, sFeatures, classInit>>
          /\ \E l \in {"publish", "check", "unlock"} : pc' = [pc EXCEPT ![t] = l]
          /\ bit' = [bit EXCEPT ![t] = 0]
      BY <2>1 DEF FrontEnd!Connected, FrontEnd!Resume
    <3> QED BY <3>2, <3>3
  <2>2. CASE FrontEnd!ConnectStart(t)
    <3>1. \A u \in Threads : pc[u] # "probe"
      BY <2>2, Alone DEF FrontEnd!ConnectStart, FrontEnd!InBackend
    <3> QED BY <2>2, <3>1 DEF FrontEnd!ConnectStart, FrontEnd!locals
  <2>3. CASE FrontEnd!ConnectAlready(t)
    BY <2>3 DEF FrontEnd!ConnectAlready, FrontEnd!Resume, FrontEnd!locals
  <2>4. CASE FrontEnd!Acquire(t) \/ FrontEnd!Check(t)
    <3>1. /\ UNCHANGED <<mConnected, mFeatures, sFeatures, classInit, bit>>
          /\ \E l \in {"connect", "op", "unlock"} : pc' = [pc EXCEPT ![t] = l]
      BY <2>4 DEF FrontEnd!Acquire, FrontEnd!Check, FrontEnd!locals
    <3> QED BY <3>1
  <2> QED BY <1>6, <2>1, <2>2, <2>3, <2>4 DEF Manage
<1>7. ASSUME NEW t \in Threads, DlopenFails(t) \/ DispApiInitFails(t)
      PROVE  FeatureInv'
  <2>1. Service!Unreliable
    BY <1>7, <1>u DEF DlopenFails, DispApiInitFails
  <2> QED BY <1>7, <2>1 DEF DlopenFails, DispApiInitFails, FrontEnd!InitializeFails
<1>8. ASSUME NEW t \in Threads, InitializeOk(t)
      PROVE  FeatureInv'
  BY <1>8 DEF InitializeOk, FrontEnd!InitializeOk
<1>9. ASSUME NEW t \in Threads, Probe(t)
      PROVE  FeatureInv'
  <2>1. /\ pc[t] = "probe" /\ bit[t] \in 0..4 /\ UNCHANGED <<pc, mConnected, sFeatures, classInit>>
        /\ bit' = [bit EXCEPT ![t] = @ + 1]
        /\ mFeatures' = mFeatures \cup {bit[t]} \/ mFeatures' = mFeatures
    BY <1>9 DEF Probe, FrontEnd!Probe, PICTURE_ADJUSTMENT
  <2>2. /\ bit[t] \in mFeatures' => bit[t] \in Having
        /\ bit[t] \in Having /\ ~Service!Unreliable => bit[t] \in mFeatures'
    BY <1>9, <2>1, <1>u DEF Probe, Having, FrontEnd!Features, PICTURE_ADJUSTMENT
  <2>3. ~mConnected
    BY <2>1, FrontEndFacts
  <2>4. \A u \in Threads \ {t} : pc[u] # "probe"
    BY <2>1, Alone DEF FrontEnd!InBackend
  <2>5. ~Service!Unreliable => \A f \in Having : f < bit'[t] => f \in mFeatures'
    BY <2>1, <2>2
  <2> QED BY <2>1, <2>2, <2>3, <2>4, <2>5
<1>10. ASSUME NEW t \in Threads, FrontEnd!Deinitialize(t) \/ Unlock(t)
      PROVE  FeatureInv'
  <2>1. /\ UNCHANGED <<mConnected, mFeatures, sFeatures, classInit, bit>>
        /\ \E l \in {"clear", "idle"} : pc' = [pc EXCEPT ![t] = l]
    BY <1>10 DEF Unlock, FrontEnd!Deinitialize, FrontEnd!Unlock, FrontEnd!locals
  <2> QED BY <2>1
<1>11. ASSUME NEW t \in Threads, FrontEnd!Clear(t)
      PROVE  FeatureInv'
  <2>1. \A u \in Threads : pc[u] \notin {"publish", "probe"}
    <3>1. classInit # "running"
      BY <1>11, FrontEndFacts DEF FrontEnd!Clear
    <3>2. \A u \in Threads : pc[u] # "probe"
      BY <1>11, Alone DEF FrontEnd!Clear, FrontEnd!InBackend
    <3> QED BY <3>1, <3>2, FrontEndFacts
  <2> QED BY <1>11, <2>1 DEF FrontEnd!Clear
<1>12. ASSUME NEW t \in Threads, Operation(t)
      PROVE  FeatureInv'
  BY <1>12, OperationEnds DEF Continue, Finish, Fail, frontEnd,
       FrontEnd!OperationOk, FrontEnd!OperationFails
<1>13. CASE Die
  BY <1>13 DEF Die
<1> QED BY <1>1, <1>2, <1>3, <1>4, <1>5, <1>6, <1>7, <1>8, <1>9, <1>10,
           <1>11, <1>12, <1>13
        DEF Next, Facade, Connection, Reset, MissingFunction, Crash, vars

-----------------------------------------------------------------------------
(* The theorems.                                                           *)

\* A process that has not called anything, on a device that has been in use.
LEMMA InitInv == Init => IInv
<1> SUFFICES ASSUME Init
             PROVE  IInv
  OBVIOUS
<1>1. FP!Init
  BY DEF Init, FrontEnd!Init, FP!Init, FrontEnd!NoCall, FP!NoCall
<1>2. FP!IInv
  BY <1>1, FrontEndInit
<1>3. OwnTypes
  BY ZeroAssumption DEF Init, OwnTypes
<1>4. AnswerInv /\ CallInv /\ StepInv /\ LibraryInv /\ FeatureInv /\ OfferedFeatureWorks
  BY DEF Init, FrontEnd!Init, FrontEnd!NoCall, AnswerInv, CallInv, StepInv,
         HalfWay, LibraryInv, FeatureInv, OfferedFeatureWorks, At
<1> QED BY <1>2, <1>3, <1>4 DEF IInv

\* IInv is inductive.
LEMMA InvStep == IInv /\ [Next]_vars => IInv'
BY FrontEndStep, TypesStep, AnswerStep, CallStep, StepStep, LibraryStep,
   FeatureStep, OfferedStep DEF IInv

\* IInv holds of every state: the threads, the session, the library and the
\* feature set of the process agree through every failure and crash.
THEOREM Invariance == Spec => []IInv
BY InitInv, InvStep, PTL DEF Spec

\* The model is well typed, the front end inside it included.
THEOREM TypeCorrect == Spec => []TypeOK
<1>1. IInv => TypeOK
  BY DEF IInv, FP!IInv, OwnTypes, TypeOK, FP!TypeOK, FrontEnd!TypeOK,
         FP!Features, FrontEnd!Features, FP!Labels, FrontEnd!Labels,
         FP!Calls, FrontEnd!Calls, FP!Kinds, FrontEnd!Kinds
<1> QED BY <1>1, Invariance, PTL

\* Nothing is called before initialize (LegacyMM.cpp 33-110) has loaded and
\* linked the library, as far as its functions were found: who probes, operates
\* or deinitializes has the library loaded and its session open.
THEOREM LibraryIsThere == Spec => []CallsIntoLibrary
<1>1. IInv => CallsIntoLibrary
  BY FrontEndFacts DEF IInv, LibraryInv, CallsIntoLibrary
<1> QED BY <1>1, Invariance, PTL

\* What hasFeature (LegacyMM.cpp 125-164) reports works: where no call fails,
\* only the setting of a mode that does not exist ends a session.
THEOREM OfferedFeaturesWork == Spec => []OfferedFeatureWorks
<1>1. IInv => OfferedFeatureWorks
  BY DEF IInv
<1> QED BY <1>1, Invariance, PTL

-----------------------------------------------------------------------------
(* LegacyMM implements DisplayService.  A call takes effect in its last     *)
(* vendor call; until then the mode that was active is the one shown.      *)

Shown == IF was = NoMode THEN active ELSE was

\* Nothing a caller can see changes.
LEMMA Stutter ==
  ASSUME UNCHANGED <<faults, board, Shown, default, balance, picture, on, req, answer>>
  PROVE  UNCHANGED Service!vars
BY DEF Service!vars, Shown, Offered, HasFeature

\* A native feature is offered as a feature of the service; switches have none.
LEMMA OfferedIsFound ==
  ASSUME NEW r \in Service!Requests, board \in Boards
  PROVE  /\ IsSwitch(r) <=> Service!FeatureOf(r.op) = "switch"
         /\ BitOf(r) \in Having =>
              ~IsSwitch(r) /\ Service!FeatureOf(r.op) \in Offered
         /\ ~IsSwitch(r) /\ Service!FeatureOf(r.op) \in Offered => BitOf(r) \in Having
         /\ "switch" \in Offered
<1>1. r.op \in Ops
  BY RequestForm
<1>2. board.supported \subseteq {0, 1, 4}
  BY BoardAssumption DEF BoardType, DISPLAY_MODES, COLOR_TEMPERATURE, PICTURE_ADJUSTMENT
<1>3. BitOf(r) \in FrontEnd!Features
  BY RequestCalls
<1>4. /\ "switch" \in Offered
      /\ "modes" \in Offered <=> HasFeature(0)
      /\ "balance" \in Offered <=> HasFeature(1)
      /\ "picture" \in Offered <=> HasFeature(4)
  BY DEF Offered, DISPLAY_MODES, COLOR_TEMPERATURE, PICTURE_ADJUSTMENT
<1>5. ~HasFeature(2) /\ ~HasFeature(3)
  BY <1>2 DEF HasFeature
<1>6. CASE r.op \in {"setSwitch", "isOn"}
  <2>1. BitOf(r) \in {2, 3}
    BY <1>6 DEF BitOf, OUTDOOR_MODE, ADAPTIVE_BACKLIGHT
  <2>2. Service!FeatureOf(r.op) = "switch" /\ IsSwitch(r)
    BY <1>6 DEF Service!FeatureOf, IsSwitch
  <2> QED BY <2>1, <2>2, <1>4, <1>5 DEF Having
<1>7. CASE r.op \in {"setMode", "getModes", "getMode", "getDefaultMode"}
  <2>1. BitOf(r) = 0 /\ Service!FeatureOf(r.op) = "modes" /\ ~IsSwitch(r)
    BY <1>7 DEF BitOf, DISPLAY_MODES, Service!FeatureOf, IsSwitch
  <2> QED BY <2>1, <1>3, <1>4 DEF Having
<1>8. CASE r.op \in {"setBalance", "getBalance", "getBalanceRange"}
  <2>1. BitOf(r) = 1 /\ Service!FeatureOf(r.op) = "balance" /\ ~IsSwitch(r)
    BY <1>8 DEF BitOf, COLOR_TEMPERATURE, Service!FeatureOf, IsSwitch
  <2> QED BY <2>1, <1>3, <1>4 DEF Having
<1>9. CASE r.op \in {"setPicture", "getPicture", "getDefaultPicture", "getPictureRanges"}
  <2>1. BitOf(r) = 4 /\ Service!FeatureOf(r.op) = "picture" /\ ~IsSwitch(r)
    BY <1>9 DEF BitOf, PICTURE_ADJUSTMENT, Service!FeatureOf, IsSwitch
  <2> QED BY <2>1, <1>3, <1>4 DEF Having
<1> QED BY <1>1, <1>6, <1>7, <1>8, <1>9 DEF Ops

\* What a thread runs natively is offered, and it waits for the answer.
LEMMA InsideServes ==
  ASSUME IInv, NEW t \in Threads, call[t].kind # "init", answer[t] = NoAnswer
  PROVE  /\ req[t] \in Service!Requests
         /\ Service!Serving(t, req[t].op)
         /\ ~IsSwitch(req[t])
         /\ Service!FeatureOf(req[t].op) # "switch"
<1>1. pc[t] # "idle"
  BY FrontEndFacts
<1>2. req[t] \in Service!Requests /\ board \in Boards
  BY <1>1 DEF IInv, AnswerInv, OwnTypes
<1>3. BitOf(req[t]) \in Having
  BY DEF IInv, CallInv
<1>4. Service!Waiting(t)
  BY <1>2, RequestForm DEF Service!Waiting, NoRequest, NoAnswer
<1> QED BY <1>2, <1>3, <1>4, OfferedIsFound DEF Service!Serving

\* A failure of a native call is one the service allows.
LEMMA FailureAllowed ==
  ASSUME IInv, NEW t \in Threads, call[t].kind # "init", answer[t] = NoAnswer,
         Service!Unreliable \/ (req[t].op = "setMode" /\ req[t].id = Bogus),
         Reply(t, Service!Failure(req[t].op)), req' = req, UNCHANGED <<Shown, default, balance, picture, on>>
  PROVE  Service!Fail(t)
<1>1. Service!Serving(t, req[t].op) /\ Service!FeatureOf(req[t].op) # "switch"
  BY InsideServes
<1>2. UNCHANGED Service!display /\ Service!Reply(t, Service!Failure(req[t].op))
  BY DEF Service!display, Shown, Service!Reply, Reply
<1> QED BY <1>1, <1>2 DEF Service!Fail, Service!Serving

\* The steps of the callers.
LEMMA FacadeRefines ==
  ASSUME IInv, NEW t \in Threads, Facade(t), UNCHANGED <<faults, board>>
  PROVE  \/ UNCHANGED Service!vars
         \/ \E r \in Service!Requests : Service!Ask(t, r)
         \/ Service!Serve(t) \/ Service!Return(t)
<1>t. OwnTypes
  BY DEF IInv
<1>1. CASE Load(t) \/ Publish(t) \/ Invoke(t)
  BY <1>1, Stutter DEF Load, Publish, Invoke, device, locals, Shown
<1>2. CASE Ask(t)
  <2>1. menu \subseteq Service!Requests
    BY <1>t, MenuAssumption DEF OwnTypes
  <2>2. PICK r \in menu : req' = [req EXCEPT ![t] = r]
    BY <1>2 DEF Ask
  <2>3. Service!Ask(t, r)
    BY <1>2, <2>2 DEF Ask, Service!Ask, Service!display, device, locals,
                      NoRequest, Shown
  <2> QED BY <2>1, <2>3
<1>3. CASE Return(t)
  BY <1>3 DEF Return, Reply, Service!Return, Service!display, device, locals,
              NoRequest, NoAnswer
<1>w. ASSUME Waiting(t)
      PROVE  Service!Waiting(t) /\ req[t] \in Service!Requests
  BY <1>w, <1>t DEF Waiting, Service!Waiting, NoRequest, NoAnswer, OwnTypes
<1>4. CASE Refuse(t)
  <2>1. Service!Waiting(t) /\ req[t] \in Service!Requests /\ ~IsSwitch(req[t])
    BY <1>4, <1>w DEF Refuse
  <2>2. classInit = "done" /\ BitOf(req[t]) \notin sFeatures
    BY <1>4 DEF Refuse, FrontEnd!Refuse
  <2>3. Service!FeatureOf(req[t].op) \notin Offered \/ Service!Unreliable
    <3>1. Service!Unreliable \/ BitOf(req[t]) \notin Having
      BY <2>2 DEF IInv, FeatureInv
    <3> QED BY <1>t, <2>1, <3>1, OfferedIsFound DEF OwnTypes
  <2>4. Service!FeatureOf(req[t].op) # "switch"
    BY <1>t, <2>1, OfferedIsFound DEF OwnTypes
  <2>5. Service!Refuse(t)
    BY <1>4, <2>1, <2>3, <2>4 DEF Refuse, Reply, Service!Refuse, Service!Reply,
         Service!display, device, locals
  <2> QED BY <2>5 DEF Service!Serve
<1>5. ASSUME NEW op \in {"setSwitch", "isOn"}, ByNode(t, op)
      PROVE  /\ Service!Serving(t, op) /\ Service!Waiting(t) /\ req' = req
             /\ req[t].op = op /\ Service!FeatureOf(req[t].op) = "switch"
             /\ UNCHANGED <<Shown, default, balance, picture>>
             /\ Service!Failure(op) = Service!Bool(FALSE)
  <2>1. Service!Waiting(t) /\ req[t] \in Service!Requests /\ req[t].op = op
    BY <1>5, <1>w DEF ByNode
  <2>2. Service!FeatureOf(req[t].op) = "switch" /\ "switch" \in Offered
    BY <1>t, <2>1, OfferedIsFound DEF IsSwitch, OwnTypes
  <2>3. req' = req /\ UNCHANGED <<Shown, default, balance, picture>>
    BY <1>5 DEF ByNode, Shown, locals
  <2>4. Service!Failure(op) = Service!Bool(FALSE)
    BY DEF Service!Failure
  <2> QED BY <2>1, <2>2, <2>3, <2>4 DEF Service!Serving
<1>6. CASE WriteNode(t)
  <2>1. ByNode(t, "setSwitch")
    BY <1>6 DEF WriteNode
  <2>2. Service!SetSwitch(t) \/ Service!Fail(t)
    <3>1. CASE May("node") /\ Reply(t, Service!Bool(FALSE)) /\ UNCHANGED on
      BY <1>5, <2>1, <3>1 DEF Service!Fail, Service!Reply, Reply, May,
           Service!display, Shown
    <3>2. CASE /\ on' = [on EXCEPT ![req[t].switch] = req[t].enabled]
               /\ Reply(t, Service!Bool(TRUE))
      BY <1>5, <2>1, <3>2 DEF Service!SetSwitch, Service!Reply, Reply, Shown
    <3> QED BY <1>6, <3>1, <3>2 DEF WriteNode
  <2> QED BY <2>2 DEF Service!Serve
<1>7. CASE ReadNode(t)
  <2>1. ByNode(t, "isOn") /\ UNCHANGED on
    BY <1>7 DEF ReadNode
  <2>2. Service!Get(t) \/ Service!Fail(t)
    <3>1. CASE May("node") /\ Reply(t, Service!Bool(FALSE))
      BY <1>5, <2>1, <3>1 DEF Service!Fail, Service!Reply, Reply, May,
           Service!display, Shown
    <3>2. CASE Reply(t, Service!Bool(on[req[t].switch]))
      <4>1. req[t].op = "isOn"
        BY <1>5, <2>1
      <4>2. Service!Value(req[t]) = Service!Bool(on[req[t].switch])
        BY <4>1 DEF Service!Value
      <4> QED BY <1>5, <2>1, <3>2, <4>2 DEF Service!Get, Service!Reply, Reply,
           Service!display, Shown
    <3> QED BY <1>7, <3>1, <3>2 DEF ReadNode
  <2> QED BY <2>2 DEF Service!Serve
<1> QED BY <1>1, <1>2, <1>3, <1>4, <1>6, <1>7 DEF Facade

\* The steps of the front end: at most the failure of a call.
LEMMA ConnectionRefines ==
  ASSUME IInv, IInv', NEW t \in Threads, Connection(t), UNCHANGED <<faults, board>>
  PROVE  UNCHANGED Service!vars \/ Service!Fail(t)
<1>p. pc \in [Threads -> FP!Labels]
  BY FrontEndFacts
<1>s. UNCHANGED <<Shown, default, balance, picture, on, req>>
  BY DEF Connection, Manage, DlopenFails, DispApiInitFails, InitializeOk,
         Probe, Reset, Unlock, device, locals, Shown
<1>1. CASE InitializeOk(t) \/ Probe(t) \/ Reset(t) \/ Unlock(t)
  BY <1>1, <1>s, Stutter DEF InitializeOk, Probe, Reset, Unlock
<1>2. ASSUME Settle(t), pc'[t] # "unlock"
      PROVE  UNCHANGED Service!vars
  BY <1>2, <1>s, Stutter DEF Settle
<1>3. ASSUME Settle(t), pc'[t] = "unlock", call' = call,
             pc[t] \notin {"idle", "reset", "clear", "unlock"},
             Service!Unreliable
      PROVE  Service!Fail(t)
  <2>1. answer[t] = NoAnswer
    BY <1>3 DEF IInv, AnswerInv
  <2>2. call[t].kind # "init"
    <3>1. (FP!OwnerInv)'
      BY DEF IInv, FP!IInv
    <3> QED BY <1>3, <3>1 DEF FP!OwnerInv
  <2> QED BY <1>3, <1>s, <2>1, <2>2, FailureAllowed DEF Settle
<1>4. CASE DlopenFails(t) \/ DispApiInitFails(t)
  <2>1. /\ Settle(t) /\ pc[t] = "initialize" /\ call' = call
        /\ Service!Unreliable
    BY <1>4 DEF DlopenFails, DispApiInitFails, FrontEnd!InitializeFails,
         FrontEnd!At, FrontEnd!locals, May, Service!Unreliable
  <2> QED BY <1>2, <1>3, <2>1
<1>5. CASE Manage(t) /\ pc'[t] # "unlock"
  BY <1>2, <1>5 DEF Manage
<1>6. CASE Manage(t) /\ pc'[t] = "unlock"
  <2>1. Settle(t)
    BY <1>6 DEF Manage
  <2>2. FrontEnd!Connected(t) \/ FrontEnd!Check(t)
    BY <1>6, <1>p DEF Manage, FrontEnd!Acquire, FrontEnd!ConnectAlready,
         FrontEnd!ConnectStart, FrontEnd!Resume, FrontEnd!Goto
  <2>3. /\ call' = call /\ faults' = faults /\ Having' = Having
        /\ pc[t] \notin {"idle", "reset", "clear", "unlock"}
    BY <2>2 DEF FrontEnd!Connected, FrontEnd!Check, FrontEnd!At,
         FrontEnd!locals, Having, HasFeature
  <2>4. call[t].kind # "init"
    <3>1. (FP!OwnerInv)'
      BY DEF IInv, FP!IInv
    <3> QED BY <1>6, <2>3, <3>1 DEF FP!OwnerInv
  <2>5. call[t].feature \in Having
    BY <2>4 DEF IInv, CallInv
  <2>6. mConnected' /\ mFeatures' = mFeatures /\ call[t].feature \notin mFeatures
    <3>1. CASE FrontEnd!Connected(t)
      BY <1>6, <1>p, <2>4, <3>1 DEF FrontEnd!Connected, FrontEnd!Resume, FrontEnd!Goto
    <3>2. CASE FrontEnd!Check(t)
      BY <1>6, <1>p, <3>2, FrontEndFacts DEF FrontEnd!Check, FrontEnd!Goto,
           FrontEnd!At, FrontEnd!native
    <3> QED BY <2>2, <3>1, <3>2
  <2>7. Service!Unreliable
    <3>1. FeatureInv' /\ (Service!Unreliable)' = Service!Unreliable
      BY <2>3 DEF IInv, Service!Unreliable
    <3> QED BY <2>3, <2>5, <2>6, <3>1 DEF FeatureInv
  <2> QED BY <1>3, <1>6, <2>1, <2>3, <2>7
<1> QED BY <1>1, <1>4, <1>5, <1>6 DEF Connection

\* The steps of an operation: the call takes effect, fails, or has its first
\* half done, which nobody sees.
LEMMA OperationRefines ==
  ASSUME IInv, NEW t \in Threads, Operation(t), UNCHANGED <<faults, board>>
  PROVE  UNCHANGED Service!vars \/ Service!Serve(t)
<1>1. /\ pc[t] = "op" /\ call[t].kind # "init" /\ answer[t] = NoAnswer
      /\ req[t] \in Service!Requests /\ req' = req
  BY OperationEnds, FrontEndFacts DEF IInv, AnswerInv
<1>2. Service!Serving(t, req[t].op)
  BY <1>1, InsideServes
<1>3. was = NoMode \/ HalfWay(t)
  <2>1. \A u \in Threads : HalfWay(u) => u = t
    BY <1>1, Alone DEF HalfWay, IInv, StepInv, FrontEnd!InBackend
  <2> QED BY <2>1 DEF IInv, StepInv
<1>4. CallFails(t) => May("vendor") /\ Service!Unreliable
  <2>1. call[t].feature \in Having
    BY <1>1 DEF IInv, CallInv
  <2> QED BY <2>1, FoundWorks DEF CallFails, May, Service!Unreliable
<1>5. ASSUME NEW a, Finish(t, a)
      PROVE  Service!Reply(t, a)
  BY <1>1, <1>5 DEF Finish, Reply, Service!Reply
<1>6. ASSUME Fail(t), UNCHANGED <<Shown, default, balance, picture, on>>
      PROVE  Service!Fail(t)
  <2>1. Service!Unreliable \/ (req[t].op = "setMode" /\ req[t].id = Bogus)
    BY <1>6, FailsForAReason DEF May, Service!Unreliable
  <2> QED BY <1>1, <1>6, <2>1, FailureAllowed DEF Fail
\* A failure that the backend's caller sees as a null or a zero.
<1>7. ASSUME CallFails(t), Finish(t, Service!Failure(req[t].op)),
             UNCHANGED <<Shown, default, balance, picture, on>>
      PROVE  Service!Fail(t)
  BY <1>1, <1>4, <1>7, FailureAllowed DEF Finish
<1>8. ASSUME req[t].op \in {"getModes", "getMode", "getDefaultMode", "getBalance",
                            "getBalanceRange", "getDefaultPicture", "getPictureRanges"},
             Finish(t, Service!Value(req[t])),
             UNCHANGED <<Shown, default, balance, picture, on>>
      PROVE  Service!Get(t)
  BY <1>2, <1>5, <1>8 DEF Service!Get, Service!display, Shown
<1>9. CASE SetActive(t)
  <2>1. was = NoMode /\ req[t].op = "setMode"
    BY <1>3, <1>9 DEF SetActive, In, HalfWay
  <2>2. CASE Fail(t) /\ UNCHANGED <<active, was>>
    BY <1>6, <1>9, <2>2 DEF SetActive, Shown, Service!Serve
  <2>3. ASSUME active' = req[t].id, req[t].id \in Modes, req[t].makeDefault,
               Continue(t), was' = active
        PROVE  UNCHANGED Service!vars
    <3>1. Shown' = Shown
      BY <2>1, <2>3, ModeAssumption DEF Shown, IInv, OwnTypes
    <3> QED BY <1>9, <2>3, <3>1, Stutter DEF SetActive, Continue
  <2>4. ASSUME active' = req[t].id, req[t].id \in Modes, ~req[t].makeDefault,
               Finish(t, Service!Bool(TRUE)), was' = was
        PROVE  Service!SetMode(t)
    <3>1. Shown' = req[t].id
      BY <2>1, <2>4 DEF Shown
    <3> QED BY <1>2, <1>5, <1>9, <2>1, <2>4, <3>1
            DEF SetActive, Service!SetMode, Shown
  <2> QED BY <1>9, <2>2, <2>3, <2>4 DEF SetActive, Service!Serve
<1>10. CASE SetDefault(t)
  <2>1. /\ req[t].op = "setMode" /\ req[t].id \in Modes /\ req[t].makeDefault
        /\ active = req[t].id /\ active' = active /\ was' = NoMode
    BY <1>10 DEF SetDefault, In, IInv, StepInv, HalfWay
  <2>2. Shown' = req[t].id
    BY <2>1 DEF Shown
  <2>3. CASE default' = req[t].id /\ Finish(t, Service!Bool(TRUE))
    <3>1. Service!SetMode(t)
      BY <1>2, <1>5, <1>10, <2>1, <2>2, <2>3
         DEF SetDefault, Service!SetMode, Shown
    <3> QED BY <3>1 DEF Service!Serve
  <2>4. CASE CallFails(t) /\ Fail(t) /\ UNCHANGED default
    <3>1. Service!Failure(req[t].op) = Service!Bool(FALSE)
      BY <2>1 DEF Service!Failure
    <3>2. Service!Reply(t, Service!Bool(FALSE))
      BY <1>1, <2>4, <3>1 DEF Fail, Reply, Service!Reply
    <3>3. Service!HalfSet(t)
      BY <1>2, <1>4, <1>10, <2>1, <2>2, <2>4, <3>2
         DEF SetDefault, Service!HalfSet, Shown, May
    <3> QED BY <3>3 DEF Service!Serve
  <2> QED BY <1>10, <2>3, <2>4 DEF SetDefault
<1>11. ASSUME NEW op \in {"getMode", "getDefaultMode"}, NEW mode, ReadId(t, op, mode)
       PROVE  UNCHANGED Service!vars \/ Service!Serve(t)
  <2>1. CASE Continue(t)
    BY <1>1, <1>11, <2>1, Stutter DEF ReadId, Continue, device, Shown
  <2>2. CASE CallFails(t) /\ Finish(t, Service!Null)
    <3>1. Service!Failure(req[t].op) = Service!Null
      BY <1>11 DEF ReadId, In, Service!Failure
    <3>2. Service!Fail(t)
      BY <1>7, <1>11, <2>2, <3>1 DEF ReadId, device, Shown
    <3> QED BY <3>2 DEF Service!Serve
  <2> QED BY <1>11, <2>1, <2>2 DEF ReadId
<1>12. CASE GetDisplayModeById(t)
  <2>1. /\ req[t].op \in {"getMode", "getDefaultMode"} /\ was = NoMode
        /\ id[t] = IF req[t].op = "getMode" THEN active ELSE default
    BY <1>3, <1>12 DEF GetDisplayModeById, In, HalfWay, IInv, StepInv
  <2>2. UNCHANGED <<Shown, default, balance, picture, on>>
    BY <1>12 DEF GetDisplayModeById, device, Shown
  <2>3. CASE Finish(t, Service!Mode(id[t]))
    <3>1. Service!Value(req[t]) = Service!Mode(id[t])
      BY <2>1 DEF Service!Value
    <3> QED BY <1>8, <2>1, <2>2, <2>3, <3>1 DEF Service!Serve
  <2>4. CASE CallFails(t) /\ Finish(t, Service!Null)
    <3>1. Service!Failure(req[t].op) = Service!Null
      BY <2>1 DEF Service!Failure
    <3> QED BY <1>7, <2>2, <2>4, <3>1 DEF Service!Serve
  <2> QED BY <1>12, <2>3, <2>4 DEF GetDisplayModeById
<1>13. CASE GetDisplayModes(t)
  <2>1. req[t].op = "getModes" /\ UNCHANGED <<Shown, default, balance, picture, on>>
    BY <1>13 DEF GetDisplayModes, In, device, Shown
  <2>2. CASE Finish(t, Service!List(Modes))
    <3>1. Service!Value(req[t]) = Service!List(Modes)
      BY <2>1 DEF Service!Value
    <3> QED BY <1>8, <2>1, <2>2, <3>1 DEF Service!Serve
  <2>3. CASE CallFails(t) /\ Finish(t, Service!List({}))
    <3>1. Service!CountFails(t)
      BY <1>2, <1>4, <1>5, <2>1, <2>3 DEF Service!CountFails, May, Service!display, Shown
    <3> QED BY <3>1 DEF Service!Serve
  <2> QED BY <1>6, <1>13, <2>1, <2>2, <2>3 DEF GetDisplayModes, Service!Serve
<1>14. CASE SetColorBalance(t)
  <2>1. req[t].op = "setBalance" /\ UNCHANGED <<Shown, default, picture, on>>
    BY <1>14 DEF SetColorBalance, In, Shown
  <2>2. CASE balance' = req[t].value /\ Finish(t, Service!Bool(TRUE))
    <3>1. Service!SetBalance(t)
      BY <1>2, <1>5, <2>1, <2>2 DEF Service!SetBalance, Shown
    <3> QED BY <3>1 DEF Service!Serve
  <2> QED BY <1>6, <1>14, <2>1, <2>2 DEF SetColorBalance, Service!Serve
<1>15. CASE GetColorBalance(t)
  <2>1. req[t].op = "getBalance" /\ UNCHANGED <<Shown, default, balance, picture, on>>
    BY <1>15 DEF GetColorBalance, In, device, Shown
  <2>2. /\ Service!Value(req[t]) = Service!Int(balance)
        /\ Service!Failure(req[t].op) = Service!Int(0)
    BY <2>1 DEF Service!Value, Service!Failure
  <2> QED BY <1>7, <1>8, <1>15, <2>1, <2>2 DEF GetColorBalance, Service!Serve
<1>16. CASE GetRanges(t)
  <2>1. /\ req[t].op \in {"getBalanceRange", "getPictureRanges"}
        /\ UNCHANGED <<Shown, default, balance, picture, on>>
    BY <1>16 DEF GetRanges, In, device, Shown
  <2>2. Service!Value(req[t]) = Service!Range("min", "max")
    BY <2>1 DEF Service!Value
  <2> QED BY <1>6, <1>8, <1>16, <2>1, <2>2 DEF GetRanges, Service!Serve
<1>17. CASE SetPictureAdjustment(t)
  <2>1. req[t].op = "setPicture" /\ UNCHANGED <<Shown, default, balance, on>>
    BY <1>17 DEF SetPictureAdjustment, AdjustPicture, In, Shown
  <2>2. CASE picture' = req[t].hsic /\ Finish(t, Service!Bool(TRUE))
    <3>1. Service!SetPicture(t)
      BY <1>2, <1>5, <2>1, <2>2 DEF Service!SetPicture, Shown
    <3> QED BY <3>1 DEF Service!Serve
  <2> QED BY <1>6, <1>17, <2>1, <2>2
          DEF SetPictureAdjustment, AdjustPicture, Service!Serve
<1>18. CASE GetPictureAdjustment(t)
  <2>1. req[t].op = "getPicture" /\ UNCHANGED <<Shown, default, balance, on>>
    BY <1>18 DEF GetPictureAdjustment, AdjustPicture, In, Shown
  <2>2. CASE picture' = ZeroPicture /\ Finish(t, Service!Picture(ZeroPicture))
    <3>1. Service!GetPicture(t)
      BY <1>2, <1>5, <2>1, <2>2 DEF Service!GetPicture, Shown
    <3> QED BY <3>1 DEF Service!Serve
  <2> QED BY <1>6, <1>18, <2>1, <2>2
          DEF GetPictureAdjustment, AdjustPicture, Service!Serve
<1>19. CASE GetDefaultPictureAdjustment(t)
  <2>1. /\ req[t].op = "getDefaultPicture"
        /\ UNCHANGED <<Shown, default, balance, picture, on>>
    BY <1>19 DEF GetDefaultPictureAdjustment, In, device, Shown
  <2>2. Service!Value(req[t]) = Service!Picture(ZeroPicture)
    BY <2>1 DEF Service!Value
  <2> QED BY <1>8, <1>19, <2>1, <2>2
          DEF GetDefaultPictureAdjustment, Service!Serve
<1> QED BY <1>9, <1>10, <1>11, <1>12, <1>13, <1>14, <1>15, <1>16, <1>17, <1>18, <1>19
        DEF Operation, GetCurrentDisplayMode, GetDefaultDisplayMode

\* The death of the process: a half-done call leaves its mode.
LEMMA DieRefines ==
  ASSUME IInv, Die, May("crash") \/ May("symbol")
  PROVE  Service!Crash
<1>1. active' \in {Shown} \cup
        {req[t].id : t \in {u \in Threads : /\ req[u].op = "setMode"
                                            /\ req[u].makeDefault
                                            /\ req[u].id \in Modes}}
  <2>1. CASE was = NoMode
    BY <2>1 DEF Die, device, Shown
  <2>2. CASE was # NoMode
    <3>1. PICK u \in Threads : HalfWay(u)
      BY <2>2 DEF IInv, StepInv
    <3>2. active = req[u].id /\ req[u].makeDefault /\ req[u].id \in Modes
      BY <3>1 DEF IInv, StepInv
    <3> QED BY <3>1, <3>2 DEF Die, device, HalfWay
  <2> QED BY <2>1, <2>2
<1>2. Shown' = active'
  BY DEF Die, Shown
<1> QED BY <1>1, <1>2 DEF Die, device, May, Service!Crash, Shown, NoRequest, NoAnswer

\* Every step is a step of the service, or a stutter.
LEMMA ServiceStep == IInv /\ [Next]_vars => [Service!Next]_(Service!vars)
<1> SUFFICES ASSUME IInv, [Next]_vars
             PROVE  [Service!Next]_(Service!vars)
  OBVIOUS
<1>i. IInv'
  BY InvStep
<1>f. UNCHANGED <<faults, board>> /\ UNCHANGED <<faults, Offered>>
  BY DEF Next, vars, fixed, Offered, HasFeature
<1>1. CASE UNCHANGED vars
  BY <1>1, Stutter DEF vars, Shown
<1>2. ASSUME NEW t \in Threads, Facade(t)
      PROVE  [Service!Next]_(Service!vars)
  BY <1>f, <1>2, FacadeRefines DEF Service!Next
<1>3. ASSUME NEW t \in Threads, Connection(t)
      PROVE  [Service!Next]_(Service!vars)
  BY <1>f, <1>i, <1>3, ConnectionRefines DEF Service!Next, Service!Serve
<1>4. ASSUME NEW t \in Threads, Operation(t)
      PROVE  [Service!Next]_(Service!vars)
  BY <1>f, <1>4, OperationRefines DEF Service!Next
<1>5. ASSUME Die, May("crash") \/ May("symbol")
      PROVE  Service!Next
  BY <1>f, <1>5, DieRefines DEF Service!Next
<1> QED BY <1>1, <1>2, <1>3, <1>4, <1>5 DEF Next, MissingFunction, Crash

\* It begins as the service does.
LEMMA ServiceInit == Init => Service!Init
<1> SUFFICES ASSUME Init
             PROVE  Service!Init
  OBVIOUS
<1>1. faults \subseteq AllFaults
  BY FaultAssumption DEF Init
<1>2. Offered \subseteq Service!Features
  BY DEF Offered, Service!Features
<1>3. on \in [Switches -> BOOLEAN]
  BY DEF Init
<1> QED BY <1>1, <1>2, <1>3, ZeroAssumption
        DEF Init, Service!Init, AllFaults, NoRequest, NoAnswer

\* The callers of the display classes see the service: each call takes effect
\* at one instant, across threads, lost sessions, missing functions and
\* crashes, and every failure has only the effects the service names.
THEOREM Refinement == Spec => ImplementsService
BY ServiceInit, ServiceStep, Invariance, PTL
   DEF Spec, ImplementsService, Service!Spec

=============================================================================

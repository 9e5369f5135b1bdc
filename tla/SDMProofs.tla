------------------------------- MODULE SDMProofs -------------------------------
(***************************************************************************)
(* Proofs about SDM: type correctness, and that the mode SDM believes      *)
(* active is the one the device shows, whatever fails, for any modes of    *)
(* the vendor library and any faults.                                      *)
(***************************************************************************)
EXTENDS SDM, TLAPS

\* What SDM believes is so.
Believed == mActiveModeId # NoMode => Shown(mActiveModeId)

Setting == {"set", "lookup", "old", "disable", "activate", "truncate", "save",
            "readPA"}
BeforeActivation == {"set", "lookup", "old", "disable", "activate"}

\* A call is under way, and setDisplayMode serves it or initialize().
CallInv ==
  /\ pc # "idle" => req \in Requests
  /\ reply # NoReply => pc = "idle"
  /\ pc \in Setting /\ caller = "api" => req.op = "setMode" /\ modeID = req.id
  /\ pc = "initialize" => ~mConnected
  /\ mConnected \/ pc \notin {"idle", "check", "initialize"} =>
       mLibHandle /\ mHandle
  /\ pc = "default" => mActiveModeId = NoMode
  /\ pc \in BeforeActivation /\ caller = "initialize" => mActiveModeId = NoMode
  /\ pc \in {"old", "disable"} => mActiveModeId # NoMode
  /\ pc \in {"old", "disable", "activate"} => modeID \in Modes
  /\ pc \in {"truncate", "save", "readPA"} =>
       modeID \in Modes /\ mActiveModeId = modeID

\* Where the belief may be wrong: from the moment the old mode is switched off,
\* over a failure and error(), to the end of the next initialize().
BeliefInv ==
  /\ pc \in {"default", "probe", "dispatch"} \cup (Setting \ {"activate"})
       => Believed
  /\ pc \in {"idle", "check"} /\ mConnected => Believed
  /\ pc = "activate" /\ mActiveModeId = Srgb => ~srgbNode \/ May("flush")
  /\ SetModeTakesEffect

\* initialize() sets the stored mode, and does not store it again.
RestoreInv ==
  /\ stored # None \/ pc \in Setting \cup {"default"} \/ "modes" \in mFeatures
       => board.modes
  /\ pc \in Setting /\ caller = "initialize" =>
       ~makeDefault /\ pc \notin {"truncate", "save"}
  /\ faults \subseteq {"crash"} /\ pc \in Setting /\ caller = "initialize"
       /\ stored \in Modes => modeID = stored
  /\ DefaultRestored

\* Between the switch to a vendor mode and the reading of its adjustment nobody
\* touches the picture; what was read stays until the mode changes, but for a
\* call that ends in error() before it has read.
PictureInv ==
  ~May("vendor") /\ board.adjustment /\ mActiveModeId \in SdmModes =>
    /\ pc \in {"truncate", "save", "readPA"} => pa = mActiveModeId
    /\ (pc \in {"idle", "check"} /\ mConnected)
         \/ pc \in {"probe", "dispatch"} \cup BeforeActivation
         => mDefaultPictureAdjustment = mActiveModeId

IInv == TypeOK /\ CallInv /\ BeliefInv /\ RestoreInv /\ PictureInv

-----------------------------------------------------------------------------
\* The operations, and the arguments of setMode.
LEMMA RequestFields ==
  ASSUME NEW r \in Requests
  PROVE  /\ r.op \in {"setMode"} \cup Operations
         /\ r.op = "setMode" => /\ r.id \in Modes \cup {Bogus, NoMode}
                               /\ r.makeDefault \in BOOLEAN
<1>1. CASE r \in [op : {"setMode"}, id : Modes \cup {Bogus, NoMode},
                   makeDefault : BOOLEAN]
  BY <1>1
<1>2. CASE r \in [op : Operations]
  BY <1>2 DEF Operations, Queries
<1> QED
  BY <1>1, <1>2 DEF Requests

\* Which modes and adjustments there are.
LEMMA Members ==
  /\ Srgb \in Modes /\ ZeroMode \in SdmModes /\ VendorMode \in SdmModes
  /\ \A m \in SdmModes : m \in Modes /\ m \in PAs /\ m # Srgb
  /\ \A m \in Modes : m # Srgb => m \in SdmModes
  /\ ZeroPA \in PAs /\ UserPA \in PAs
  /\ NoMode \notin Modes /\ Bogus \notin Modes /\ Bogus # NoMode
  /\ None \notin Modes /\ Empty \notin Modes
BY ModesAssumption, StoredAssumption DEF Modes, PAs

\* What Answer makes is a reply.
LEMMA ReplyTyped ==
  ASSUME NEW r \in Requests, NEW ok \in BOOLEAN,
         NEW val \in Modes \cup PAs \cup {NoMode}
  PROVE  [req |-> r, ok |-> ok, val |-> val] \in Replies
BY DEF Replies

\* What hasFeature reports is a feature, and the modes only where there are some.
LEMMA SupportedFeatures ==
  /\ Supported \subseteq AllFeatures
  /\ "modes" \in Supported => board.modes
<1>1. Supported \subseteq AllFeatures
  BY DEF Supported
<1>2. "modes" \in Supported => board.modes
  BY DEF Supported, AllFeatures
<1> QED
  BY <1>1, <1>2

\* A probe finds only what is supported.
LEMMA ProbeFinds == Probe => mFeatures' \subseteq Supported
BY DEF Probe

\* Every step keeps the variables in their types.
LEMMA TypeStep == IInv /\ [Next]_vars => TypeOK'
<1> SUFFICES ASSUME IInv, [Next]_vars
             PROVE  TypeOK'
  OBVIOUS
<1>0. faults' = faults /\ board' = board
  BY DEF Next, vars
<1> USE <1>0, Members, RequestFields, ReplyTyped
        DEF IInv, TypeOK, CallInv, Setting, May, device, process, frame,
            Answer, Return, session
<1>1. CASE UNCHANGED vars
  BY <1>1 DEF vars
<1>2. ASSUME NEW r \in Requests, Call(r)
      PROVE  TypeOK'
  BY <1>2 DEF Call
<1>3. CASE Connect
  <2>1. CASE Check
    BY <2>1 DEF Check
  <2>0. CASE LoadFails
    BY <2>0 DEF LoadFails
  <2>2. CASE InitializeFails
    BY <2>2 DEF InitializeFails
  <2>3. CASE InitializeOk
    BY <2>3 DEF InitializeOk
  <2>4. CASE RestoreDefault
    BY <2>4 DEF RestoreDefault, ReadIds
  <2>5. CASE NoDefault
    BY <2>5 DEF NoDefault
  <2>6. CASE Probe
    BY <2>6, ProbeFinds, SupportedFeatures DEF Probe
  <2> QED
    BY <1>3, <2>0, <2>1, <2>2, <2>3, <2>4, <2>5, <2>6 DEF Connect
<1>4. CASE SetDisplayMode
  <2>1. CASE SetAlreadyActive
    <3>1. mActiveModeId \in Modes \cup PAs \cup {NoMode} /\ req \in Requests
      BY <2>1 DEF SetAlreadyActive
    <3>2. CASE caller = "initialize"
      BY <2>1, <3>2 DEF SetAlreadyActive
    <3>3. CASE caller = "api"
      <4>1. /\ reply' = [req |-> req, ok |-> TRUE, val |-> mActiveModeId]
            /\ req' = NoRequest /\ pc' = "idle"
        BY <2>1, <3>3 DEF SetAlreadyActive
      <4>2. reply' \in Replies
        BY <4>1, <3>1
      <4> QED
        BY <2>1, <4>1, <4>2 DEF SetAlreadyActive
    <3> QED
      BY <3>2, <3>3
  <2>2. CASE SetOther
    BY <2>2 DEF SetOther
  <2>3. ASSUME NEW list \in Lists, LookupMode(list)
        PROVE  TypeOK'
    BY <2>3 DEF LookupMode
  <2>4. ASSUME NEW list \in Lists, LookupOldMode(list)
        PROVE  TypeOK'
    BY <2>4 DEF LookupOldMode
  <2>5. ASSUME NEW ok \in BOOLEAN, DisableOld(ok)
        PROVE  TypeOK'
    BY <2>5 DEF DisableOld, SetModeState, WriteNode, SetActive
  <2>6. ASSUME NEW ok \in BOOLEAN, Activate(ok)
        PROVE  TypeOK'
    BY <2>6 DEF Activate, SetModeState, WriteNode, SetActive
  <2>7. CASE OpenStored
    BY <2>7 DEF OpenStored
  <2>8. CASE FlushStored
    BY <2>8 DEF FlushStored
  <2>9. CASE ReadPA
    <3>1. modeID \in Modes \cup PAs \cup {NoMode} /\ req \in Requests
      BY <2>9 DEF ReadPA
    <3>2. CASE caller = "initialize"
      BY <2>9, <3>2 DEF ReadPA
    <3>3. CASE caller = "api"
      <4>1. /\ reply' = [req |-> req, ok |-> TRUE, val |-> modeID]
            /\ req' = NoRequest /\ pc' = "idle"
        BY <2>9, <3>3 DEF ReadPA
      <4>2. reply' \in Replies
        BY <4>1, <3>1
      <4> QED
        BY <2>9, <4>1, <4>2 DEF ReadPA
    <3> QED
      BY <3>2, <3>3
  <2> QED
    BY <1>4, <2>1, <2>2, <2>3, <2>4, <2>5, <2>6, <2>7, <2>8, <2>9 DEF SetDisplayMode
<1>5. CASE Serve
  <2> USE DEF Serving
  <2>1. CASE SetMode
    BY <2>1 DEF SetMode
  <2>2. CASE Unsupported
    BY <2>2 DEF Unsupported
  <2>3. ASSUME NEW list \in Lists, GetCurrentMode(list)
        PROVE  TypeOK'
    BY <2>3 DEF GetCurrentMode
  <2>4. CASE GetPictureAdjustment
    <3>1. CASE reply' = [req |-> req, ok |-> TRUE, val |-> ZeroPA]
      <4>1. reply' \in Replies
        BY <2>4, <3>1 DEF GetPictureAdjustment, AdjustPicture
      <4> QED
        BY <2>4, <3>1, <4>1 DEF GetPictureAdjustment, AdjustPicture
    <3>2. CASE reply' = reply
      BY <2>4, <3>2 DEF GetPictureAdjustment, AdjustPicture
    <3> QED
      BY <2>4, <3>1, <3>2 DEF GetPictureAdjustment, AdjustPicture
  <2>5. CASE SetPictureAdjustment
    <3>1. CASE reply' = [req |-> req, ok |-> TRUE, val |-> UserPA]
      <4>1. reply' \in Replies
        BY <2>5, <3>1 DEF SetPictureAdjustment, AdjustPicture
      <4> QED
        BY <2>5, <3>1, <4>1 DEF SetPictureAdjustment, AdjustPicture
    <3>2. CASE reply' = reply
      BY <2>5, <3>2 DEF SetPictureAdjustment, AdjustPicture
    <3> QED
      BY <2>5, <3>1, <3>2 DEF SetPictureAdjustment, AdjustPicture
  <2>6. CASE GetDefaultPictureAdjustment
    BY <2>6 DEF GetDefaultPictureAdjustment
  <2>7. ASSUME NEW op \in Queries, Query(op)
        PROVE  TypeOK'
    <3>1. CASE reply' = [req |-> req, ok |-> TRUE, val |-> NoMode]
      <4>1. reply' \in Replies
        BY <2>7, <3>1 DEF Query
      <4> QED
        BY <2>7, <3>1, <4>1 DEF Query
    <3>2. CASE reply' = reply
      BY <2>7, <3>2 DEF Query
    <3> QED
      BY <2>7, <3>1, <3>2 DEF Query
  <2>8. ASSUME NEW list \in Lists, GetDisplayModes(list)
        PROVE  TypeOK'
    <3>1. CASE reply' = [req |-> req, ok |-> TRUE, val |-> NoMode]
      <4>1. reply' \in Replies
        BY <2>8, <3>1 DEF GetDisplayModes
      <4> QED
        BY <2>8, <3>1, <4>1 DEF GetDisplayModes
    <3>2. CASE reply' = reply
      BY <2>8, <3>2 DEF GetDisplayModes
    <3> QED
      BY <2>8, <3>1, <3>2 DEF GetDisplayModes
  <2>9. ASSUME NEW list \in Lists, GetDefaultDisplayMode(list)
        PROVE  TypeOK'
    <3>1. PICK m \in Modes \cup {NoMode} :
            reply' = [req |-> req, ok |-> TRUE, val |-> m]
      BY <2>9 DEF GetDefaultDisplayMode, ReadIds
    <3>2. reply' \in Replies
      BY <2>9, <3>1 DEF GetDefaultDisplayMode
    <3> QED
      BY <2>9, <3>2 DEF GetDefaultDisplayMode
  <2>10. CASE GetColorBalance
    BY <2>10 DEF GetColorBalance
  <2> QED
    BY <1>5, <2>1, <2>2, <2>3, <2>4, <2>5, <2>6, <2>7, <2>8, <2>9, <2>10 DEF Serve
<1>6. CASE Error
  BY <1>6 DEF Error
<1>7. CASE Die
  <2> USE DEF Restart
  <2>1. CASE Crash
    BY <2>1 DEF Crash
  <2>2. CASE Reboot
    BY <2>2 DEF Reboot
  <2>3. ASSUME NEW list \in Lists, OldModeMissing(list)
        PROVE  TypeOK'
    BY <2>3 DEF OldModeMissing
  <2> QED
    BY <1>7, <2>1, <2>2, <2>3 DEF Die
<1> QED
  BY <1>1, <1>2, <1>3, <1>4, <1>5, <1>6, <1>7 DEF Next

\* Every step keeps the place in the code and the call together.
LEMMA CallStep == IInv /\ [Next]_vars => CallInv'
<1> SUFFICES ASSUME IInv, [Next]_vars
             PROVE  CallInv'
  OBVIOUS
<1>0. faults' = faults /\ board' = board
  BY DEF Next, vars
<1> USE <1>0, Members, RequestFields
        DEF IInv, TypeOK, CallInv, Setting, BeforeActivation, May, device,
            process, session, frame, Answer, Return
<1>1. CASE UNCHANGED vars
  BY <1>1 DEF vars
<1>2. ASSUME NEW r \in Requests, Call(r)
      PROVE  CallInv'
  BY <1>2 DEF Call
<1>3. CASE Connect
  <2>1. CASE Check
    BY <2>1 DEF Check
  <2>0. CASE LoadFails
    BY <2>0 DEF LoadFails
  <2>2. CASE InitializeFails
    BY <2>2 DEF InitializeFails
  <2>3. CASE InitializeOk
    BY <2>3 DEF InitializeOk
  <2>4. CASE RestoreDefault
    BY <2>4 DEF RestoreDefault, ReadIds
  <2>5. CASE NoDefault
    BY <2>5 DEF NoDefault
  <2>6. CASE Probe
    BY <2>6 DEF Probe
  <2> QED
    BY <1>3, <2>0, <2>1, <2>2, <2>3, <2>4, <2>5, <2>6 DEF Connect
<1>4. CASE SetDisplayMode
  <2>1. CASE SetAlreadyActive
    BY <2>1 DEF SetAlreadyActive
  <2>2. CASE SetOther
    BY <2>2 DEF SetOther
  <2>3. ASSUME NEW list \in Lists, LookupMode(list)
        PROVE  CallInv'
    BY <2>3 DEF LookupMode, Lists
  <2>4. ASSUME NEW list \in Lists, LookupOldMode(list)
        PROVE  CallInv'
    BY <2>4 DEF LookupOldMode
  <2>5. ASSUME NEW ok \in BOOLEAN, DisableOld(ok)
        PROVE  CallInv'
    BY <2>5 DEF DisableOld, SetModeState, WriteNode, SetActive
  <2>6. ASSUME NEW ok \in BOOLEAN, Activate(ok)
        PROVE  CallInv'
    BY <2>6 DEF Activate, SetModeState, WriteNode, SetActive
  <2>7. CASE OpenStored
    BY <2>7 DEF OpenStored
  <2>8. CASE FlushStored
    BY <2>8 DEF FlushStored
  <2>9. CASE ReadPA
    BY <2>9 DEF ReadPA
  <2> QED
    BY <1>4, <2>1, <2>2, <2>3, <2>4, <2>5, <2>6, <2>7, <2>8, <2>9 DEF SetDisplayMode
<1>5. CASE Serve
  <2> USE DEF Serving
  <2>1. CASE SetMode
    BY <2>1 DEF SetMode
  <2>2. CASE Unsupported
    BY <2>2 DEF Unsupported
  <2>3. ASSUME NEW list \in Lists, GetCurrentMode(list)
        PROVE  CallInv'
    BY <2>3 DEF GetCurrentMode
  <2>4. CASE GetPictureAdjustment
    BY <2>4 DEF GetPictureAdjustment, AdjustPicture
  <2>5. CASE SetPictureAdjustment
    BY <2>5 DEF SetPictureAdjustment, AdjustPicture
  <2>6. CASE GetDefaultPictureAdjustment
    BY <2>6 DEF GetDefaultPictureAdjustment
  <2>7. ASSUME NEW op \in Queries, Query(op)
        PROVE  CallInv'
    BY <2>7 DEF Query
  <2>8. ASSUME NEW list \in Lists, GetDisplayModes(list)
        PROVE  CallInv'
    BY <2>8 DEF GetDisplayModes
  <2>9. ASSUME NEW list \in Lists, GetDefaultDisplayMode(list)
        PROVE  CallInv'
    BY <2>9 DEF GetDefaultDisplayMode
  <2>10. CASE GetColorBalance
    BY <2>10 DEF GetColorBalance
  <2> QED
    BY <1>5, <2>1, <2>2, <2>3, <2>4, <2>5, <2>6, <2>7, <2>8, <2>9, <2>10 DEF Serve
<1>6. CASE Error
  BY <1>6 DEF Error
<1>7. CASE Die
  <2> USE DEF Restart
  <2>1. CASE Crash
    BY <2>1 DEF Crash
  <2>2. CASE Reboot
    BY <2>2 DEF Reboot
  <2>3. ASSUME NEW list \in Lists, OldModeMissing(list)
        PROVE  CallInv'
    BY <2>3 DEF OldModeMissing
  <2> QED
    BY <1>7, <2>1, <2>2, <2>3 DEF Die
<1> QED
  BY <1>1, <1>2, <1>3, <1>4, <1>5, <1>6, <1>7 DEF Next

\* Every step keeps what SDM believes, where it may be relied on.
LEMMA BeliefStep == IInv /\ [Next]_vars => BeliefInv'
<1> SUFFICES ASSUME IInv, [Next]_vars
             PROVE  BeliefInv'
  OBVIOUS
<1>0. faults' = faults /\ board' = board
  BY DEF Next, vars
<1> USE <1>0, Members, RequestFields
        DEF IInv, TypeOK, CallInv, BeliefInv, Believed, SetModeTakesEffect,
            Replied, Shown, Shows, Setting, BeforeActivation, May, device,
            process, session, frame, Answer, Return
<1>1. CASE UNCHANGED vars
  BY <1>1 DEF vars
<1>2. ASSUME NEW r \in Requests, Call(r)
      PROVE  BeliefInv'
  BY <1>2 DEF Call
<1>3. CASE Connect
  <2>1. CASE Check
    BY <2>1 DEF Check
  <2>0. CASE LoadFails
    BY <2>0 DEF LoadFails
  <2>2. CASE InitializeFails
    BY <2>2 DEF InitializeFails
  <2>3. CASE InitializeOk
    BY <2>3 DEF InitializeOk
  <2>4. CASE RestoreDefault
    BY <2>4 DEF RestoreDefault, ReadIds
  <2>5. CASE NoDefault
    BY <2>5 DEF NoDefault
  <2>6. CASE Probe
    BY <2>6 DEF Probe
  <2> QED
    BY <1>3, <2>0, <2>1, <2>2, <2>3, <2>4, <2>5, <2>6 DEF Connect
<1>4. CASE SetDisplayMode
  <2>1. CASE SetAlreadyActive
    BY <2>1 DEF SetAlreadyActive
  <2>2. CASE SetOther
    BY <2>2 DEF SetOther
  <2>3. ASSUME NEW list \in Lists, LookupMode(list)
        PROVE  BeliefInv'
    BY <2>3 DEF LookupMode, Lists
  <2>4. ASSUME NEW list \in Lists, LookupOldMode(list)
        PROVE  BeliefInv'
    BY <2>4 DEF LookupOldMode
  <2>5. ASSUME NEW ok \in BOOLEAN, DisableOld(ok)
        PROVE  BeliefInv'
    BY <2>5 DEF DisableOld, SetModeState, WriteNode, SetActive
  <2>6. ASSUME NEW ok \in BOOLEAN, Activate(ok)
        PROVE  BeliefInv'
    BY <2>6 DEF Activate, SetModeState, WriteNode, SetActive
  <2>7. CASE OpenStored
    BY <2>7 DEF OpenStored
  <2>8. CASE FlushStored
    BY <2>8 DEF FlushStored
  <2>9. CASE ReadPA
    BY <2>9 DEF ReadPA
  <2> QED
    BY <1>4, <2>1, <2>2, <2>3, <2>4, <2>5, <2>6, <2>7, <2>8, <2>9 DEF SetDisplayMode
<1>5. CASE Serve
  <2> USE DEF Serving
  <2>1. CASE SetMode
    BY <2>1 DEF SetMode
  <2>2. CASE Unsupported
    BY <2>2 DEF Unsupported
  <2>3. ASSUME NEW list \in Lists, GetCurrentMode(list)
        PROVE  BeliefInv'
    BY <2>3 DEF GetCurrentMode
  <2>4. CASE GetPictureAdjustment
    BY <2>4 DEF GetPictureAdjustment, AdjustPicture
  <2>5. CASE SetPictureAdjustment
    BY <2>5 DEF SetPictureAdjustment, AdjustPicture
  <2>6. CASE GetDefaultPictureAdjustment
    BY <2>6 DEF GetDefaultPictureAdjustment
  <2>7. ASSUME NEW op \in Queries, Query(op)
        PROVE  BeliefInv'
    <3>1. CASE pc' = "idle"
      <4>1. reply' = [req |-> req, ok |-> TRUE, val |-> NoMode] /\ req.op = op
        BY <2>7, <3>1 DEF Query
      <4>2. op # "setMode"
        BY DEF Queries
      <4> QED
        BY <2>7, <3>1, <4>1, <4>2 DEF Query
    <3>2. CASE pc' = "error"
      BY <2>7, <3>2 DEF Query
    <3> QED
      BY <2>7, <3>1, <3>2 DEF Query
  <2>8. ASSUME NEW list \in Lists, GetDisplayModes(list)
        PROVE  BeliefInv'
    BY <2>8 DEF GetDisplayModes
  <2>9. ASSUME NEW list \in Lists, GetDefaultDisplayMode(list)
        PROVE  BeliefInv'
    BY <2>9 DEF GetDefaultDisplayMode
  <2>10. CASE GetColorBalance
    BY <2>10 DEF GetColorBalance
  <2> QED
    BY <1>5, <2>1, <2>2, <2>3, <2>4, <2>5, <2>6, <2>7, <2>8, <2>9, <2>10 DEF Serve
<1>6. CASE Error
  BY <1>6 DEF Error
<1>7. CASE Die
  <2> USE DEF Restart
  <2>1. CASE Crash
    BY <2>1 DEF Crash
  <2>2. CASE Reboot
    BY <2>2 DEF Reboot
  <2>3. ASSUME NEW list \in Lists, OldModeMissing(list)
        PROVE  BeliefInv'
    BY <2>3 DEF OldModeMissing
  <2> QED
    BY <1>7, <2>1, <2>2, <2>3 DEF Die
<1> QED
  BY <1>1, <1>2, <1>3, <1>4, <1>5, <1>6, <1>7 DEF Next

\* Every step keeps the stored mode and the one being set together.
LEMMA RestoreStep == IInv /\ [Next]_vars => RestoreInv'
<1> SUFFICES ASSUME IInv, [Next]_vars
             PROVE  RestoreInv'
  OBVIOUS
<1>0. faults' = faults /\ board' = board
  BY DEF Next, vars
<1> USE <1>0, Members, RequestFields
        DEF IInv, TypeOK, CallInv, BeliefInv, RestoreInv, DefaultRestored,
            Believed, Shown, Shows, Setting, BeforeActivation, May, device,
            process, session, frame, Answer, Return
<1>1. CASE UNCHANGED vars
  BY <1>1 DEF vars
<1>2. ASSUME NEW r \in Requests, Call(r)
      PROVE  RestoreInv'
  BY <1>2 DEF Call
<1>3. CASE Connect
  <2>1. CASE Check
    BY <2>1 DEF Check
  <2>0. CASE LoadFails
    BY <2>0 DEF LoadFails
  <2>2. CASE InitializeFails
    BY <2>2 DEF InitializeFails
  <2>3. CASE InitializeOk
    BY <2>3 DEF InitializeOk
  <2>4. CASE RestoreDefault
    BY <2>4 DEF RestoreDefault, ReadIds
  <2>5. CASE NoDefault
    BY <2>5 DEF NoDefault
  <2>6. CASE Probe
    <3>1. "modes" \in mFeatures' => board.modes
      BY <2>6, ProbeFinds, SupportedFeatures
    <3> QED
      BY <2>6, <3>1 DEF Probe
  <2> QED
    BY <1>3, <2>0, <2>1, <2>2, <2>3, <2>4, <2>5, <2>6 DEF Connect
<1>4. CASE SetDisplayMode
  <2>1. CASE SetAlreadyActive
    BY <2>1 DEF SetAlreadyActive
  <2>2. CASE SetOther
    BY <2>2 DEF SetOther
  <2>3. ASSUME NEW list \in Lists, LookupMode(list)
        PROVE  RestoreInv'
    BY <2>3 DEF LookupMode, Lists
  <2>4. ASSUME NEW list \in Lists, LookupOldMode(list)
        PROVE  RestoreInv'
    BY <2>4 DEF LookupOldMode
  <2>5. ASSUME NEW ok \in BOOLEAN, DisableOld(ok)
        PROVE  RestoreInv'
    BY <2>5 DEF DisableOld, SetModeState, WriteNode, SetActive
  <2>6. ASSUME NEW ok \in BOOLEAN, Activate(ok)
        PROVE  RestoreInv'
    BY <2>6 DEF Activate, SetModeState, WriteNode, SetActive
  <2>7. CASE OpenStored
    BY <2>7 DEF OpenStored
  <2>8. CASE FlushStored
    BY <2>8 DEF FlushStored
  <2>9. CASE ReadPA
    BY <2>9 DEF ReadPA
  <2> QED
    BY <1>4, <2>1, <2>2, <2>3, <2>4, <2>5, <2>6, <2>7, <2>8, <2>9 DEF SetDisplayMode
<1>5. CASE Serve
  <2> USE DEF Serving
  <2>1. CASE SetMode
    BY <2>1 DEF SetMode, FeatureOf
  <2>2. CASE Unsupported
    BY <2>2 DEF Unsupported
  <2>3. ASSUME NEW list \in Lists, GetCurrentMode(list)
        PROVE  RestoreInv'
    BY <2>3 DEF GetCurrentMode
  <2>4. CASE GetPictureAdjustment
    BY <2>4 DEF GetPictureAdjustment, AdjustPicture
  <2>5. CASE SetPictureAdjustment
    BY <2>5 DEF SetPictureAdjustment, AdjustPicture
  <2>6. CASE GetDefaultPictureAdjustment
    BY <2>6 DEF GetDefaultPictureAdjustment
  <2>7. ASSUME NEW op \in Queries, Query(op)
        PROVE  RestoreInv'
    BY <2>7 DEF Query
  <2>8. ASSUME NEW list \in Lists, GetDisplayModes(list)
        PROVE  RestoreInv'
    BY <2>8 DEF GetDisplayModes
  <2>9. ASSUME NEW list \in Lists, GetDefaultDisplayMode(list)
        PROVE  RestoreInv'
    BY <2>9 DEF GetDefaultDisplayMode
  <2>10. CASE GetColorBalance
    BY <2>10 DEF GetColorBalance
  <2> QED
    BY <1>5, <2>1, <2>2, <2>3, <2>4, <2>5, <2>6, <2>7, <2>8, <2>9, <2>10 DEF Serve
<1>6. CASE Error
  BY <1>6 DEF Error
<1>7. CASE Die
  <2> USE DEF Restart
  <2>1. CASE Crash
    BY <2>1 DEF Crash
  <2>2. CASE Reboot
    BY <2>2 DEF Reboot
  <2>3. ASSUME NEW list \in Lists, OldModeMissing(list)
        PROVE  RestoreInv'
    BY <2>3 DEF OldModeMissing
  <2> QED
    BY <1>7, <2>1, <2>2, <2>3 DEF Die
<1> QED
  BY <1>1, <1>2, <1>3, <1>4, <1>5, <1>6, <1>7 DEF Next

\* Every step keeps the active mode and its picture together.
LEMMA PictureStep == IInv /\ [Next]_vars => PictureInv'
<1> SUFFICES ASSUME IInv, [Next]_vars
             PROVE  PictureInv'
  OBVIOUS
<1>0. faults' = faults /\ board' = board
  BY DEF Next, vars
<1> USE <1>0, Members, RequestFields
        DEF IInv, TypeOK, CallInv, RestoreInv, PictureInv,
            Setting, BeforeActivation, May, device,
            process, session, frame, Answer, Return
<1>1. CASE UNCHANGED vars
  BY <1>1 DEF vars
<1>2. ASSUME NEW r \in Requests, Call(r)
      PROVE  PictureInv'
  BY <1>2 DEF Call
<1>3. CASE Connect
  <2>1. CASE Check
    BY <2>1 DEF Check
  <2>0. CASE LoadFails
    BY <2>0 DEF LoadFails
  <2>2. CASE InitializeFails
    BY <2>2 DEF InitializeFails
  <2>3. CASE InitializeOk
    BY <2>3 DEF InitializeOk
  <2>4. CASE RestoreDefault
    BY <2>4 DEF RestoreDefault, ReadIds
  <2>5. CASE NoDefault
    BY <2>5 DEF NoDefault
  <2>6. CASE Probe
    BY <2>6 DEF Probe
  <2> QED
    BY <1>3, <2>0, <2>1, <2>2, <2>3, <2>4, <2>5, <2>6 DEF Connect
<1>4. CASE SetDisplayMode
  <2>1. CASE SetAlreadyActive
    BY <2>1 DEF SetAlreadyActive
  <2>2. CASE SetOther
    BY <2>2 DEF SetOther
  <2>3. ASSUME NEW list \in Lists, LookupMode(list)
        PROVE  PictureInv'
    BY <2>3 DEF LookupMode, Lists
  <2>4. ASSUME NEW list \in Lists, LookupOldMode(list)
        PROVE  PictureInv'
    BY <2>4 DEF LookupOldMode
  <2>5. ASSUME NEW ok \in BOOLEAN, DisableOld(ok)
        PROVE  PictureInv'
    BY <2>5 DEF DisableOld, SetModeState, WriteNode, SetActive
  <2>6. ASSUME NEW ok \in BOOLEAN, Activate(ok)
        PROVE  PictureInv'
    BY <2>6 DEF Activate, SetModeState, WriteNode, SetActive
  <2>7. CASE OpenStored
    BY <2>7 DEF OpenStored
  <2>8. CASE FlushStored
    BY <2>8 DEF FlushStored
  <2>9. CASE ReadPA
    BY <2>9 DEF ReadPA, PAFails
  <2> QED
    BY <1>4, <2>1, <2>2, <2>3, <2>4, <2>5, <2>6, <2>7, <2>8, <2>9 DEF SetDisplayMode
<1>5. CASE Serve
  <2> USE DEF Serving
  <2>1. CASE SetMode
    BY <2>1 DEF SetMode
  <2>2. CASE Unsupported
    BY <2>2 DEF Unsupported
  <2>3. ASSUME NEW list \in Lists, GetCurrentMode(list)
        PROVE  PictureInv'
    BY <2>3 DEF GetCurrentMode
  <2>4. CASE GetPictureAdjustment
    BY <2>4 DEF GetPictureAdjustment, AdjustPicture
  <2>5. CASE SetPictureAdjustment
    BY <2>5 DEF SetPictureAdjustment, AdjustPicture
  <2>6. CASE GetDefaultPictureAdjustment
    BY <2>6 DEF GetDefaultPictureAdjustment
  <2>7. ASSUME NEW op \in Queries, Query(op)
        PROVE  PictureInv'
    BY <2>7 DEF Query
  <2>8. ASSUME NEW list \in Lists, GetDisplayModes(list)
        PROVE  PictureInv'
    BY <2>8 DEF GetDisplayModes
  <2>9. ASSUME NEW list \in Lists, GetDefaultDisplayMode(list)
        PROVE  PictureInv'
    BY <2>9 DEF GetDefaultDisplayMode
  <2>10. CASE GetColorBalance
    BY <2>10 DEF GetColorBalance
  <2> QED
    BY <1>5, <2>1, <2>2, <2>3, <2>4, <2>5, <2>6, <2>7, <2>8, <2>9, <2>10 DEF Serve
<1>6. CASE Error
  BY <1>6 DEF Error
<1>7. CASE Die
  <2> USE DEF Restart
  <2>1. CASE Crash
    BY <2>1 DEF Crash
  <2>2. CASE Reboot
    BY <2>2 DEF Reboot
  <2>3. ASSUME NEW list \in Lists, OldModeMissing(list)
        PROVE  PictureInv'
    BY <2>3 DEF OldModeMissing
  <2> QED
    BY <1>7, <2>1, <2>2, <2>3 DEF Die
<1> QED
  BY <1>1, <1>2, <1>3, <1>4, <1>5, <1>6, <1>7 DEF Next

\* A new process, connected to nothing, satisfies the invariant.
LEMMA InitInv == Init => IInv
<1> SUFFICES ASSUME Init
             PROVE  IInv
  OBVIOUS
<1>1. TypeOK
  BY Members DEF Init, TypeOK
<1>2. CallInv /\ BeliefInv /\ RestoreInv /\ PictureInv
  BY Members DEF Init, CallInv, BeliefInv, RestoreInv, PictureInv, DefaultRestored,
     Believed, SetModeTakesEffect, Replied, Setting, BeforeActivation, NoRequest
<1> QED
  BY <1>1, <1>2 DEF IInv

\* IInv is inductive: it holds of every state of every behaviour of SDM.cpp.
THEOREM Invariance == Spec => []IInv
<1>1. IInv /\ [Next]_vars => IInv'
  BY TypeStep, CallStep, BeliefStep, RestoreStep, PictureStep DEF IInv
<1> QED
  BY InitInv, <1>1, PTL DEF Spec

\* Every variable of SDM.cpp and of the device keeps its type.
THEOREM TypeCorrect == Spec => []TypeOK
<1>1. IInv => TypeOK
  BY DEF IInv
<1> QED
  BY Invariance, <1>1, PTL

\* No function of the vendor library is called before it is linked, nor on a
\* handle that was never opened or is closed: not after a failed connection,
\* nor after error() in the middle of any call.
THEOREM HandleOpen == Spec => []CallsOnOpenHandle
<1>1. IInv => CallsOnOpenHandle
  BY DEF IInv, CallInv, CallsOnOpenHandle, InLibrary
<1> QED
  BY Invariance, <1>1, PTL

\* Between the calls of a connected front end, the mode mActiveModeId names is
\* the one the device shows, whatever failed on the way.
THEOREM ModeShown == Spec => []ActiveModeShown
<1>1. IInv => ActiveModeShown
  BY DEF IInv, BeliefInv, Believed, ActiveModeShown
<1> QED
  BY Invariance, <1>1, PTL

\* A setMode that returned true left its mode on, but for the id -1, which is
\* taken for the active mode while there is none: no failure inside
\* setDisplayMode is answered with true, and no other id without a mode is.
THEOREM SetModeHonest == Spec => []SetModeTakesEffect
<1>1. IInv => SetModeTakesEffect
  BY DEF IInv, BeliefInv
<1> QED
  BY Invariance, <1>1, PTL

\* Unless a vendor call fails, setDisplayMode finds the old mode it looks up.
THEOREM OldModeIsFound == Spec => []OldModeFound
<1>1. IInv => OldModeFound
  BY DEF IInv, TypeOK, CallInv, OldModeFound, Lists
<1> QED
  BY Invariance, <1>1, PTL

\* When nothing but the process fails, a new connection has the stored default
\* mode on before it probes the features.
THEOREM Restored == Spec => []DefaultRestored
<1>1. IInv => DefaultRestored
  BY DEF IInv, RestoreInv
<1> QED
  BY Invariance, <1>1, PTL

\* Unless a vendor call fails, the default picture adjustment is that of the
\* active vendor mode, whatever the user has set before or since.
THEOREM DefaultPicture == Spec => []DefaultPictureOfMode
<1>1. IInv => DefaultPictureOfMode
  BY DEF IInv, PictureInv, DefaultPictureOfMode
<1> QED
  BY Invariance, <1>1, PTL

\* setDisplayMode never goes from sRGB to a vendor mode with the node on, unless
\* the write that switches it off was lost.
THEOREM NodeOff == Spec => SrgbSwitchedOff
<1>1. IInv /\ [Next]_vars =>
        [mActiveModeId = Srgb /\ mActiveModeId' \in SdmModes =>
           ~srgbNode' \/ May("flush")]_vars
  <2> SUFFICES ASSUME IInv, Next, mActiveModeId = Srgb, mActiveModeId' \in SdmModes
               PROVE  ~srgbNode' \/ May("flush")
    OBVIOUS
  <2>1. ASSUME NEW ok \in BOOLEAN, Activate(ok)
        PROVE  ~srgbNode' \/ May("flush")
    BY <2>1, Members DEF IInv, BeliefInv, Activate, SetModeState, SetActive, Return,
       Answer, process, device
  <2>2. CASE mActiveModeId' \in {mActiveModeId, NoMode}
    BY <2>2, Members
  <2>3. (\E ok \in BOOLEAN : Activate(ok)) \/ mActiveModeId' \in {mActiveModeId, NoMode}
    BY DEF Next, Call, Connect, Check, LoadFails, InitializeFails, InitializeOk, RestoreDefault,
       NoDefault, Probe, SetDisplayMode, SetAlreadyActive, SetOther, LookupMode,
       LookupOldMode, DisableOld, OpenStored, FlushStored, ReadPA, Serve, SetMode,
       Unsupported, GetCurrentMode, GetPictureAdjustment, SetPictureAdjustment,
       AdjustPicture, GetDisplayModes, GetDefaultDisplayMode,
       GetColorBalance, Query, GetDefaultPictureAdjustment, Error, Die, Crash, Reboot,
       OldModeMissing, Restart, process
  <2> QED
    BY <2>1, <2>2, <2>3
<1> QED
  BY Invariance, <1>1, PTL DEF Spec, SrgbSwitchedOff

\* writeLocalModeId is only reached with the mode it writes active and on: a
\* mode that could not be set never becomes the default.
THEOREM ShownModeStored == Spec => OnlyShownModeStored
<1>1. IInv /\ [Next]_vars =>
        [stored' # stored /\ stored' \in Modes =>
           mActiveModeId = stored' /\ Shown(stored')]_vars
  <2> SUFFICES ASSUME IInv, Next, stored' # stored, stored' \in Modes
               PROVE  mActiveModeId = stored' /\ Shown(stored')
    OBVIOUS
  <2>1. FlushStored
    BY Members
    DEF Next, Call, Connect, Check, LoadFails, InitializeFails, InitializeOk, RestoreDefault,
       NoDefault, Probe, SetDisplayMode, SetAlreadyActive, SetOther, LookupMode,
       LookupOldMode, DisableOld, Activate, OpenStored, ReadPA, Serve, SetMode,
       Unsupported, GetCurrentMode, GetPictureAdjustment, SetPictureAdjustment,
       AdjustPicture, GetDisplayModes, GetDefaultDisplayMode,
       GetColorBalance, Query, GetDefaultPictureAdjustment, Error, Die, Crash, Reboot,
       OldModeMissing
  <2>2. pc = "save" /\ stored' = modeID
    BY <2>1 DEF FlushStored
  <2> QED
    BY <2>2, Members DEF IInv, CallInv, BeliefInv, Believed, Setting
<1> QED
  BY Invariance, <1>1, PTL DEF Spec, OnlyShownModeStored
=============================================================================

---------------------------------- MODULE SDM ----------------------------------
(***************************************************************************)
(* Display modes and picture adjustment of the SDM backend                 *)
(* (livedisplay/impl/SDM.cpp), with the part of the front end that drives  *)
(* it: connect, check, error and reset of LiveDisplay.cpp.  Calls come one *)
(* at a time: LiveDisplay shows that the backend is exclusive.             *)
(*                                                                         *)
(* Each vendor call and each file access is a step of its own, so that it  *)
(* can fail, and the process can die before the next one.                  *)
(***************************************************************************)
CONSTANTS
  SdmModes,    \* the modes of the vendor library
  Srgb,        \* the extra mode behind a sysfs node (SRGB_NODE_ID)
  Bogus,       \* an id but -1 that names no mode
  NoMode,      \* id -1, and a null DisplayMode
  ZeroMode,    \* the vendor mode with id 0
  VendorMode,  \* the vendor's own default mode
  ZeroPA,      \* an HSIC of zeros
  UserPA,      \* an HSIC the user chose
  None, Empty, \* contents of the stored id: no file; a file without an id
  NoReply,
  Boards,      \* what the vendor library and the board may support
  FaultSets    \* what may go wrong, one of these sets in each behaviour

Modes == SdmModes \cup {Srgb}

ASSUME ModesAssumption == /\ Srgb \notin SdmModes
                          /\ ZeroMode \in SdmModes
                          /\ VendorMode \in SdmModes
                          /\ {Bogus, NoMode} \cap Modes = {}
                          /\ Bogus # NoMode
ASSUME StoredAssumption == /\ {None, Empty} \cap (Modes \cup {NoMode}) = {}
                           /\ None # Empty
ASSUME BoardsAssumption ==
         Boards \subseteq [modes : BOOLEAN, temperature : BOOLEAN,
                          adjustment : BOOLEAN, foss : BOOLEAN]
AllFaults == {"library", "vendor", "open", "flush", "crash"}
ASSUME FaultsAssumption == FaultSets \subseteq SUBSET AllFaults

\* The vendor library gives every mode a picture adjustment of its own, named
\* by the mode.
PAs == SdmModes \cup {ZeroPA, UserPA}

\* Operations that only ask the vendor library or set its color balance, which
\* nothing else depends on.
Queries == {"setBalance", "getBalanceRange", "getPARanges"}
Operations == {"getMode", "getModes", "getDefaultMode", "getPA", "setPA",
               "getDefaultPA", "getBalance"} \cup Queries
\* Nothing between the caller and setDisplayMode looks at the id of a mode.
Requests ==
  [op : {"setMode"}, id : Modes \cup {Bogus, NoMode}, makeDefault : BOOLEAN] \cup
  [op : Operations]

FeatureOf(op) ==
  CASE op \in {"setMode", "getMode", "getModes", "getDefaultMode"} -> "modes"
    [] op \in {"getPA", "setPA", "getDefaultPA", "getPARanges"} -> "pa"
    [] op \in {"setBalance", "getBalance", "getBalanceRange"} -> "temperature"
AllFeatures == {"modes", "pa", "temperature", "backlight"}

VARIABLES
  faults,      \* what may go wrong; chosen once
  board,       \* what is supported; chosen once
  panel,       \* the mode active in the vendor library
  srgbNode,    \* the sysfs node of the sRGB mode is on
  pa,          \* the picture adjustment in force
  stored,      \* the file that keeps the id of the default mode
  mLibHandle,  \* the vendor library is loaded and linked
  mHandle,     \* its session is open
  mConnected, mFeatures, mActiveModeId, mDefaultPictureAdjustment,
  pc,          \* the next step of the call in progress
  req,         \* that call
  modeID,      \* arguments and caller of setDisplayMode
  makeDefault,
  caller,
  reply        \* what the last call returned, or NoReply

device == <<panel, srgbNode, pa>>
session == <<mLibHandle, mHandle>>
process == <<mLibHandle, mHandle, mConnected, mFeatures, mActiveModeId, mDefaultPictureAdjustment>>
frame == <<modeID, makeDefault, caller>>
vars == <<faults, board, panel, srgbNode, pa, stored, mLibHandle, mHandle,
          mConnected, mFeatures, mActiveModeId, mDefaultPictureAdjustment, pc,
          req, modeID, makeDefault, caller, reply>>

NoRequest == [op |-> "none"]
Replies == [req : Requests, ok : BOOLEAN, val : Modes \cup PAs \cup {NoMode}]

TypeOK ==
  /\ faults \in FaultSets
  /\ board \in Boards
  /\ panel \in SdmModes
  /\ srgbNode \in BOOLEAN
  /\ pa \in PAs
  /\ stored \in Modes \cup {None, Empty}
  /\ mLibHandle \in BOOLEAN
  /\ mHandle \in BOOLEAN
  /\ mConnected \in BOOLEAN
  /\ mFeatures \in SUBSET AllFeatures
  /\ mActiveModeId \in Modes \cup {NoMode}
  /\ mDefaultPictureAdjustment \in PAs
  /\ pc \in {"idle", "check", "initialize", "default", "probe", "dispatch",
             "set", "lookup", "old", "disable", "activate", "truncate",
             "save", "readPA", "error"}
  /\ req \in Requests \cup {NoRequest}
  /\ modeID \in Modes \cup {Bogus, NoMode}
  /\ makeDefault \in BOOLEAN
  /\ caller \in {"initialize", "api"}
  /\ reply \in Replies \cup {NoReply}

\* A new SDM knows no mode: initialize() sets mActiveModeId before it is read.
Init == /\ faults \in FaultSets
        /\ board \in Boards
        /\ panel = VendorMode
        /\ srgbNode = FALSE
        /\ pa = VendorMode
        /\ stored = None
        /\ mLibHandle = FALSE
        /\ mHandle = FALSE
        /\ mConnected = FALSE
        /\ mFeatures = {}
        /\ mActiveModeId = NoMode
        /\ mDefaultPictureAdjustment = ZeroPA
        /\ pc = "idle"
        /\ req = NoRequest
        /\ modeID = NoMode
        /\ makeDefault = FALSE
        /\ caller = "api"
        /\ reply = NoReply

May(fault) == fault \in faults

\* Both modes of a pair are on at once in the device: the node is separate.
Shows(m) == IF m = Srgb THEN srgbNode ELSE panel = m

\* The end of a call.
Answer(ok, val) == /\ reply' = [req |-> req, ok |-> ok, val |-> val]
                   /\ req' = NoRequest
                   /\ pc' = "idle"

Call(r) ==
  /\ pc = "idle"
  /\ req' = r
  /\ reply' = NoReply
  /\ pc' = "check"
  /\ UNCHANGED <<device, stored, process, frame>>

-----------------------------------------------------------------------------
(* connect() and SDM::initialize().                                        *)

Check ==
  /\ pc = "check"
  /\ pc' = IF mConnected THEN "dispatch" ELSE "initialize"
  /\ UNCHANGED <<device, stored, process, req, frame, reply>>

\* dlopen, or dlsym of one of the functions, fails: the library is closed
\* again, and the next connection tries once more.
LoadFails ==
  /\ pc = "initialize"
  /\ ~mLibHandle
  /\ May("library")
  /\ Answer(FALSE, NoMode)
  /\ UNCHANGED <<device, stored, process, frame>>

\* The library is linked, and disp_api_init fails.
InitializeFails ==
  /\ pc = "initialize"
  /\ May("vendor")
  /\ mLibHandle' = TRUE
  /\ Answer(FALSE, NoMode)
  /\ UNCHANGED <<device, stored, mHandle, mConnected, mFeatures, mActiveModeId,
                 mDefaultPictureAdjustment, frame>>

\* Mutant: mActiveModeId survives a reconnection.
InitializeKeepsMode ==
  /\ pc = "initialize"
  /\ mLibHandle' = TRUE /\ mHandle' = TRUE
  /\ \/ board.modes /\ pc' = "default"
     \/ (May("vendor") \/ ~board.modes) /\ pc' = "probe"
  /\ UNCHANGED <<device, stored, mConnected, mFeatures, mActiveModeId,
                 mDefaultPictureAdjustment, req, frame, reply>>

\* Mutant: the default mode is not set.
InitializeSkipsDefault ==
  /\ pc = "initialize"
  /\ mLibHandle' = TRUE /\ mHandle' = TRUE
  /\ mActiveModeId' = NoMode
  /\ pc' = "probe"
  /\ UNCHANGED <<device, stored, mConnected, mFeatures,
                 mDefaultPictureAdjustment, req, frame, reply>>

\* disp_api_init succeeds; hasFeature(DISPLAY_MODES) decides what follows.
InitializeOk ==
  /\ pc = "initialize"
  /\ mLibHandle' = TRUE /\ mHandle' = TRUE
  /\ mActiveModeId' = NoMode
  /\ \/ board.modes /\ pc' = "default"
     \/ (May("vendor") \/ ~board.modes) /\ pc' = "probe"
  /\ UNCHANGED <<device, stored, mConnected, mFeatures,
                 mDefaultPictureAdjustment, req, frame, reply>>

\* readLocalModeId: an empty file is an error or, with a stale errno of 0,
\* leaves the id at 0.
ReadIds == CASE stored = None -> {}
             [] stored = Empty -> {ZeroMode}
             [] stored \in Modes -> {stored}

\* The default mode is set again when it can be read and looked up.
RestoreDefault ==
  /\ pc = "default"
  /\ modeID' \in ReadIds
  /\ makeDefault' = FALSE
  /\ caller' = "initialize"
  /\ pc' = "set"
  /\ UNCHANGED <<device, stored, process, req, reply>>

NoDefault ==
  /\ pc = "default"
  /\ \/ stored \in {None, Empty}
     \/ May("open")
     \/ May("vendor")
  /\ pc' = "probe"
  /\ UNCHANGED <<device, stored, process, req, frame, reply>>

\* What hasFeature answers when no call fails.  For want of a break the picture
\* adjustment is there whenever FOSS is, and the color balance depends on the
\* calibration data: its range and the modes, of which there is always one.
Supported ==
  {f \in AllFeatures : CASE f = "modes" -> board.modes
                          [] f = "temperature" -> board.temperature
                          [] f = "pa" -> board.foss \/ board.adjustment
                          [] f = "backlight" -> board.foss}

\* What needs no call of the vendor library.
FromProperty == IF board.foss THEN {"pa", "backlight"} ELSE {}

\* The probe loop of connect(): a call that fails hides its feature.
Probe ==
  /\ pc = "probe"
  /\ mFeatures' \in IF May("vendor") THEN {fs \in SUBSET Supported : FromProperty \subseteq fs}
                    ELSE {Supported}
  /\ mConnected' = TRUE
  /\ pc' = "dispatch"
  /\ UNCHANGED <<device, stored, session, mActiveModeId,
                 mDefaultPictureAdjustment, req, frame, reply>>

\* Mutant: the session is closed and the connection kept.
ErrorStaysConnected ==
  /\ pc = "error"
  /\ mHandle' = FALSE
  /\ Answer(FALSE, NoMode)
  /\ UNCHANGED <<device, stored, mLibHandle, mConnected, mFeatures,
                 mActiveModeId, mDefaultPictureAdjustment, frame>>

\* error(): reset() closes the session and forgets the connection, but not
\* what SDM remembers.
Error ==
  /\ pc = "error"
  /\ mHandle' = FALSE
  /\ mConnected' = FALSE
  /\ mFeatures' = {}
  /\ Answer(FALSE, NoMode)
  /\ UNCHANGED <<device, stored, mLibHandle, mActiveModeId,
                 mDefaultPictureAdjustment, frame>>

Serving(op) == pc = "dispatch" /\ req.op = op /\ FeatureOf(op) \in mFeatures

Unsupported ==
  /\ pc = "dispatch"
  /\ FeatureOf(req.op) \notin mFeatures
  /\ Answer(FALSE, NoMode)
  /\ UNCHANGED <<device, stored, process, frame>>

-----------------------------------------------------------------------------
(* setDisplayMode.                                                         *)

SetMode ==
  /\ Serving("setMode")
  /\ modeID' = req.id
  /\ makeDefault' = req.makeDefault
  /\ caller' = "api"
  /\ pc' = "set"
  /\ UNCHANGED <<device, stored, process, req, reply>>

\* Where setDisplayMode returns to: initialize() ignores its result.
Return(ok) ==
  IF caller = "initialize"
  THEN pc' = "probe" /\ UNCHANGED <<req, reply>>
  ELSE IF ok THEN Answer(TRUE, modeID)
  ELSE pc' = "error" /\ UNCHANGED <<req, reply>>

SetAlreadyActive ==
  /\ pc = "set"
  /\ modeID = mActiveModeId
  /\ Return(TRUE)
  /\ UNCHANGED <<device, stored, process, frame>>

SetOther ==
  /\ pc = "set"
  /\ modeID # mActiveModeId
  /\ pc' = "lookup"
  /\ UNCHANGED <<device, stored, process, req, frame, reply>>

\* getDisplayModeById over the list getDisplayModes makes: empty when the
\* vendor's list cannot be read, the sRGB mode alone when it cannot be
\* counted.
Lists == {Modes} \cup (IF May("vendor") THEN {{}, {Srgb}} ELSE {})

\* Mutant: the old mode is looked up although there may be none.
LookupWithoutOld(list) ==
  /\ pc = "lookup"
  /\ IF modeID \notin list THEN Return(FALSE)
     ELSE pc' = "old" /\ UNCHANGED <<req, reply>>
  /\ UNCHANGED <<device, stored, process, frame>>

\* Mutant: an id the list does not have is accepted.
LookupAnyMode(list) ==
  /\ pc = "lookup"
  /\ pc' = IF mActiveModeId # NoMode THEN "old" ELSE "activate"
  /\ UNCHANGED <<device, stored, process, req, frame, reply>>

LookupMode(list) ==
  /\ pc = "lookup"
  /\ IF modeID \notin list THEN Return(FALSE)
     ELSE /\ pc' = IF mActiveModeId # NoMode THEN "old" ELSE "activate"
          /\ UNCHANGED <<req, reply>>
  /\ UNCHANGED <<device, stored, process, frame>>

\* Mutant: only the new mode is looked at.
LookupIgnoresOld(list) ==
  /\ pc = "old"
  /\ mActiveModeId \in list
  /\ pc' = IF modeID = Srgb THEN "disable" ELSE "activate"
  /\ UNCHANGED <<device, stored, process, req, frame, reply>>

\* The old mode is switched off only when one of the two is the sRGB node.
LookupOldMode(list) ==
  /\ pc = "old"
  /\ mActiveModeId \in list
  /\ pc' = IF Srgb \in {mActiveModeId, modeID} THEN "disable" ELSE "activate"
  /\ UNCHANGED <<device, stored, process, req, frame, reply>>

\* A write to the sysfs node: done, refused, or lost when the buffer is
\* flushed by an unchecked fclose.
WriteNode(on, ok) ==
  \/ ok /\ srgbNode' = on
  \/ ok /\ May("flush") /\ UNCHANGED srgbNode
  \/ ~ok /\ May("open") /\ UNCHANGED srgbNode

\* disp_api_set_active_display_mode: the mode comes with its adjustment.
SetActive(m, ok) ==
  \/ ok /\ panel' = m /\ pa' = m
  \/ ~ok /\ May("vendor") /\ UNCHANGED <<panel, pa>>

\* Off means the vendor's default mode for a mode of the vendor.
SetModeState(m, on, ok) ==
  IF m = Srgb
  THEN WriteNode(on, ok) /\ UNCHANGED <<panel, pa>>
  ELSE SetActive(IF on THEN m ELSE VendorMode, ok) /\ UNCHANGED srgbNode

DisableOld(ok) ==
  /\ pc = "disable"
  /\ SetModeState(mActiveModeId, FALSE, ok)
  /\ IF ok THEN pc' = "activate" /\ UNCHANGED <<req, reply>>
           ELSE Return(FALSE)
  /\ UNCHANGED <<stored, process, frame>>

\* Mutant: the result of setModeState is not looked at.
ActivateUnchecked(ok) ==
  /\ pc = "activate"
  /\ SetModeState(modeID, TRUE, ok)
  /\ mActiveModeId' = modeID
  /\ pc' = IF makeDefault THEN "truncate" ELSE "readPA"
  /\ UNCHANGED <<stored, session, mConnected, mFeatures, mDefaultPictureAdjustment,
                 req, frame, reply>>

Activate(ok) ==
  /\ pc = "activate"
  /\ SetModeState(modeID, TRUE, ok)
  /\ IF ok THEN /\ mActiveModeId' = modeID
                /\ pc' = IF makeDefault THEN "truncate" ELSE "readPA"
                /\ UNCHANGED <<req, reply>>
           ELSE Return(FALSE) /\ UNCHANGED mActiveModeId
  /\ UNCHANGED <<stored, session, mConnected, mFeatures, mDefaultPictureAdjustment,
                 frame>>

\* writeLocalModeId: fopen(.., "w") empties the file, the id is written when
\* the buffer is flushed.
OpenStored ==
  /\ pc = "truncate"
  /\ \/ /\ stored' = Empty
        /\ pc' = "save"
        /\ UNCHANGED <<req, reply>>
     \/ May("open") /\ Return(FALSE) /\ UNCHANGED stored
  /\ UNCHANGED <<device, process, frame>>

\* Mutant: a stored default ends the call.
FlushStoredReturns ==
  /\ pc = "save"
  /\ stored' = modeID \/ (May("flush") /\ UNCHANGED stored)
  /\ Return(TRUE)
  /\ UNCHANGED <<device, process, frame>>

FlushStored ==
  /\ pc = "save"
  /\ \/ stored' = modeID
     \/ May("flush") /\ UNCHANGED stored
  /\ pc' = "readPA"
  /\ UNCHANGED <<device, process, req, frame, reply>>

\* External: a call about the picture adjustment fails for want of it, too.
PAFails == May("vendor") \/ ~board.adjustment

\* A failure to read the adjustment is only logged.
ReadPA ==
  /\ pc = "readPA"
  /\ \/ board.adjustment /\ mDefaultPictureAdjustment' = pa
     \/ PAFails /\ UNCHANGED mDefaultPictureAdjustment
  /\ Return(TRUE)
  /\ UNCHANGED <<device, stored, session, mConnected, mFeatures, mActiveModeId, frame>>

-----------------------------------------------------------------------------
(* The other operations.                                                   *)

GetCurrentMode(list) ==
  /\ Serving("getMode")
  /\ Answer(TRUE, IF mActiveModeId \in list THEN mActiveModeId ELSE NoMode)
  /\ UNCHANGED <<device, stored, process, frame>>

\* A list that cannot be read is an error.
GetDisplayModes(list) ==
  /\ Serving("getModes")
  /\ IF list = {} THEN pc' = "error" /\ UNCHANGED <<req, reply>>
                  ELSE Answer(TRUE, NoMode)
  /\ UNCHANGED <<device, stored, process, frame>>

\* The stored id, looked up; none when either fails.
GetDefaultDisplayMode(list) ==
  /\ Serving("getDefaultMode")
  /\ \/ \E m \in ReadIds : Answer(TRUE, IF m \in list THEN m ELSE NoMode)
     \/ /\ stored \in {None, Empty} \/ May("open")
        /\ Answer(TRUE, NoMode)
  /\ UNCHANGED <<device, stored, process, frame>>

\* setPictureAdjustment, with which getPictureAdjustment of the front end is
\* also implemented: it passes the zeros the caller wants filled in.
AdjustPicture(op, hsic) ==
  /\ Serving(op)
  /\ \/ board.adjustment /\ pa' = hsic /\ Answer(TRUE, hsic)
     \/ PAFails /\ UNCHANGED pa /\ pc' = "error" /\ UNCHANGED <<req, reply>>
  /\ UNCHANGED <<panel, srgbNode, stored, process, frame>>

GetPictureAdjustment == AdjustPicture("getPA", ZeroPA)
SetPictureAdjustment == AdjustPicture("setPA", UserPA)

GetDefaultPictureAdjustment ==
  /\ Serving("getDefaultPA")
  /\ Answer(TRUE, mDefaultPictureAdjustment)
  /\ UNCHANGED <<device, stored, process, frame>>

\* A failure reads as the neutral balance.
GetColorBalance ==
  /\ Serving("getBalance")
  /\ Answer(TRUE, NoMode)
  /\ UNCHANGED <<device, stored, process, frame>>

Query(op) ==
  /\ Serving(op)
  /\ \/ /\ FeatureOf(op) # "pa" \/ board.adjustment
        /\ Answer(TRUE, NoMode)
     \/ /\ May("vendor") \/ (FeatureOf(op) = "pa" /\ PAFails)
        /\ pc' = "error" /\ UNCHANGED <<req, reply>>
  /\ UNCHANGED <<device, stored, process, frame>>

-----------------------------------------------------------------------------
(* The process dies; the device, and the file, keep what they had.         *)

Restart ==
  /\ mLibHandle' = FALSE
  /\ mHandle' = FALSE
  /\ mConnected' = FALSE
  /\ mFeatures' = {}
  /\ mActiveModeId' = NoMode
  /\ mDefaultPictureAdjustment' = ZeroPA
  /\ pc' = "idle"
  /\ req' = NoRequest
  /\ modeID' = NoMode
  /\ makeDefault' = FALSE
  /\ caller' = "api"
  /\ reply' = NoReply

Crash ==
  /\ May("crash")
  /\ Restart
  /\ UNCHANGED <<device, stored>>

\* A null old mode is dereferenced.
OldModeMissing(list) ==
  /\ pc = "old"
  /\ mActiveModeId \notin list
  /\ Restart
  /\ UNCHANGED <<device, stored>>

\* Power is lost: only the file survives.
Reboot == /\ May("crash")
          /\ panel' = VendorMode
          /\ srgbNode' = FALSE
          /\ pa' = VendorMode
          /\ UNCHANGED stored
          /\ Restart

-----------------------------------------------------------------------------
Connect == \/ Check \/ LoadFails \/ InitializeFails \/ InitializeOk
           \/ RestoreDefault \/ NoDefault \/ Probe

SetDisplayMode == \/ SetAlreadyActive \/ SetOther
                  \/ \E list \in Lists :
                       LookupMode(list) \/ LookupOldMode(list)
                  \/ \E ok \in BOOLEAN : DisableOld(ok) \/ Activate(ok)
                  \/ OpenStored \/ FlushStored \/ ReadPA

Serve == \/ SetMode \/ Unsupported
         \/ \E list \in Lists : \/ GetCurrentMode(list)
                               \/ GetDisplayModes(list)
                               \/ GetDefaultDisplayMode(list)
         \/ GetPictureAdjustment \/ SetPictureAdjustment
         \/ GetDefaultPictureAdjustment \/ GetColorBalance
         \/ \E op \in Queries : Query(op)

Die == Crash \/ Reboot \/ (\E list \in Lists : OldModeMissing(list))

Next == /\ \/ \E r \in Requests : Call(r)
           \/ Connect \/ SetDisplayMode \/ Serve \/ Error \/ Die
        /\ UNCHANGED <<faults, board>>

Spec == Init /\ [][Next]_vars

-----------------------------------------------------------------------------
(* Properties.                                                             *)

\* Where a call of the vendor library may be made.
InLibrary == {"default", "probe", "dispatch", "set", "lookup", "old", "disable",
              "activate", "readPA", "error"}

\* A function of the vendor library is called only after all of them were
\* linked, and on a handle that disp_api_init has given and disp_api_deinit has
\* not taken back (SDM.cpp 35-181), over any sequence of failures.
CallsOnOpenHandle == pc \in InLibrary => mLibHandle /\ mHandle

Replied(op) == reply # NoReply /\ reply.req.op = op /\ reply.ok

\* Shows(m), but for a write to the node that was lost, which setModeState
\* (361-379) cannot see.
Shown(m) == Shows(m) \/ (m = Srgb /\ May("flush"))

\* Between calls of a connected front end the mode SDM believes active is the
\* one the device is in: whatever failed on the way, the error path and the
\* next initialize() (147-167) have put the two together again.
ActiveModeShown ==
  pc = "idle" /\ mConnected /\ mActiveModeId # NoMode => Shown(mActiveModeId)

\* A setMode that returned true left its mode on, however it got there
\* (setDisplayMode, 278-332).  One id is excepted: -1 is compared with
\* mActiveModeId before it is looked up (281), and while no mode is believed on
\* it is taken for the active one.  No other id without a mode is let through.
SetModeTakesEffect ==
  Replied("setMode") => /\ mActiveModeId = reply.req.id
                        /\ reply.req.id # NoMode => Shown(reply.req.id)

\* The second look-up of setDisplayMode (293) finds nothing, and 294 goes
\* through a null pointer, only when a vendor call fails between the two: the
\* old mode is looked up only if there is one, and modes do not vanish.
OldModeFound ==
  pc = "old" /\ ~May("vendor") => \A list \in Lists : mActiveModeId \in list

\* Unless its write is lost, going from sRGB to a vendor mode never leaves the
\* sRGB node on (292-304).
SrgbSwitchedOff ==
  [][mActiveModeId = Srgb /\ mActiveModeId' \in SdmModes =>
       ~srgbNode' \/ May("flush")]_vars

\* An id gets into the file only while its mode is active and on: a mode that
\* could not be set never becomes the default (306-315).
OnlyShownModeStored ==
  [][stored' # stored /\ stored' \in Modes =>
       mActiveModeId = stored' /\ Shown(stored')]_vars

\* When no call and no file access fails, every new connection, the one after a
\* crash or a reboot included, comes up in the stored default mode
\* (initialize, 160-165).
DefaultRestored ==
  faults \subseteq {"crash"} /\ pc = "probe" /\ stored \in Modes =>
    mActiveModeId = stored /\ Shows(stored)

\* Unless a vendor call fails, what getDefaultPictureAdjustment answers between
\* calls is the active vendor mode's own adjustment, whatever the user has set
\* before or after the switch (SDM.cpp 316-328): it is read when the panel has
\* just taken the new mode's.
DefaultPictureOfMode ==
  pc = "idle" /\ mConnected /\ mActiveModeId \in SdmModes
    /\ ~May("vendor") /\ board.adjustment
      => mDefaultPictureAdjustment = mActiveModeId

\* DisplayModeControl.java:73-78: setMode "returns true on success"; with
\* makeDefault that includes the default.
SetModeMakesDefault ==
  Replied("setMode") /\ reply.req.makeDefault /\ reply.req.id \in Modes =>
    stored = reply.req.id

\* PictureAdjustment.java:37: isSupported answers "Whether device supports" its
\* feature.  On a device where nothing goes wrong, no operation of a feature that
\* hasFeature (452-504) reports fails, but for a mode that does not exist.
SupportedFeatureWorks ==
  faults = {} /\ pc = "error" => req.op = "setMode" /\ req.id \notin Modes
=============================================================================

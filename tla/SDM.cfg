\* Vendor calls and file accesses fail, the process dies, power is lost.
SPECIFICATION Spec
CONSTANTS
  SdmModes = {m0, m1}
  Srgb = Srgb
  Bogus = Bogus
  NoMode = NoMode
  ZeroMode = m0
  VendorMode = m0
  ZeroPA = ZeroPA
  UserPA = UserPA
  None = None
  Empty = Empty
  NoReply = NoReply
  Boards <- SomeBoards
  FaultSets <- Some
INVARIANTS
  TypeOK
  CallsOnOpenHandle
  DefaultPictureOfMode
  ActiveModeShown
  SetModeTakesEffect
  OldModeFound
  DefaultRestored
PROPERTIES
  SrgbSwitchedOff
  OnlyShownModeStored

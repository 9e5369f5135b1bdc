\* makeDefault for the mode that is already active.
SPECIFICATION Spec
CONSTANTS
  SdmModes = {m0, m1}
  Srgb = Srgb
  Bogus = Bogus
  NoMode = NoMode
  ZeroMode = m0
  VendorMode = m0
  ZeroPA = ZeroPA
  UserPA = UserPA
  None = None
  Empty = Empty
  NoReply = NoReply
  Boards <- OneBoard
  FaultSets <- Nothing
INVARIANT
  SetModeMakesDefault

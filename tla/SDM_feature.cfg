\* A picture adjustment that is offered because FOSS is there.
SPECIFICATION Spec
CONSTANTS
  SdmModes = {m0, m1}
  Srgb = Srgb
  Bogus = Bogus
  NoMode = NoMode
  ZeroMode = m0
  VendorMode = m0
  ZeroPA = ZeroPA
  UserPA = UserPA
  None = None
  Empty = Empty
  NoReply = NoReply
  Boards <- SomeBoards
  FaultSets <- Nothing
INVARIANT
  SupportedFeatureWorks

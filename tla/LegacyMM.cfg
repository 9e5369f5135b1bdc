\* Two threads on one display; vendor calls and files that fail, crashes.
SPECIFICATION Spec
CONSTANTS
  Threads = {t1, t2}
  NoThread = NoThread
  m0 = m0
  m1 = m1
  zero = zero
  user = user
  Modes <- MCModes
  Bogus = Bogus
  NoMode = NoMode
  Balances <- MCBalances
  Pictures <- MCPictures
  ZeroPicture = zero
  Switches <- MCSwitches
  Boards <- MCBoards
  FaultSets <- MCFaultSets
  Menus <- MCMenus
SYMMETRY Symmetry
INVARIANTS
  TypeOK
  CallsIntoLibrary
  OfferedFeatureWorks
PROPERTY
  ImplementsService

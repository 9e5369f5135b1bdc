\* Two threads; a write to a file of each sort may fail.
SPECIFICATION Spec
CONSTANTS
  Threads = {t1, t2}
  NoThread = NoThread
  States <- Requests
  Nearest <- NearestOf
  FailingFiles <- FailingFew
INVARIANT
  TypeOK
PROPERTIES
  PatternChangesInTheDark
  ImplementsArbiter

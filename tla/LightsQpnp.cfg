\* Two fair threads; a write to a file of each sort may fail.
SPECIFICATION FairSpec
CONSTANTS
  Threads = {t1, t2}
  NoThread = NoThread
  States <- Requests
  FailingFiles <- FailingFew
INVARIANTS
  TypeOK
  PulseAsLongAsAsked
PROPERTIES
  RampChangesWhileOff
  ImplementsArbiter
  UpdatesEnd

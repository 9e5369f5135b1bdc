\* Three threads: one for the initializer, one for an operation, one that
\* waits.  Features that are found, missing, and found again differently.
SPECIFICATION FairSpec
CONSTANTS
  Threads = {t1, t2, t3}
  NoThread = NoThread
  MaxBit = 2
INVARIANTS
  TypeOK
  BackendExclusive
  OperationInSession
  SessionBalanced
  NoDoubleInit
  FailureDisconnects
PROPERTIES
  FeaturesFixedInSession
  ImplementsSession
  LockReleased
  ClassInitEnds

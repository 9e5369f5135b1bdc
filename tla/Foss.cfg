\* A prompt daemon; and one that is late, refuses and hangs up, and crashes.
SPECIFICATION FairSpec
CONSTANTS
  BufSize = 3
  Successes <- Yes
  Failures <- No
  NoReply = NoReply
  FaultSets <- Some
INVARIANTS
  TypeOK
  CacheTrue
PROPERTIES
  CachedOnlyWhenApplied
  CallsEnd

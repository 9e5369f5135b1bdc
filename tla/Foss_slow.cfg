\* A reply that comes late.
SPECIFICATION Spec
CONSTANTS
  BufSize = 3
  Successes <- Yes
  Failures <- No
  NoReply = NoReply
  FaultSets <- SlowOnly
INVARIANT
  SetTakesEffect

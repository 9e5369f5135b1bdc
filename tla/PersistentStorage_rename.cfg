\* A rename that fails.
SPECIFICATION Spec
CONSTANTS
  Threads = {t1, t2}
  Keys = {k1}
  ShortKeys = {}
  Values = {v1}
  EmptyValue = empty
  Null = Null
  Partial = Partial
  NoCall = NoCall
  Pending = Pending
  FaultSets <- RenameFails
INVARIANT
  SetAnswersTruly

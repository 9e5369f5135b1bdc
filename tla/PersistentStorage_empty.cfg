\* The empty array is stored and read back.
SPECIFICATION Spec
CONSTANTS
  Threads = {t1, t2}
  Keys = {k1}
  ShortKeys = {}
  Values = {v1, empty}
  EmptyValue = empty
  Null = Null
  Partial = Partial
  NoCall = NoCall
  Pending = Pending
  FaultSets <- Nothing
INVARIANT
  GetAnswersTruly

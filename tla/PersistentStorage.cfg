\* Three threads and two keys, one of them short.
SPECIFICATION Spec
CONSTANTS
  Threads = {t1, t2, t3}
  Keys = {k1,k2}
  ShortKeys = {k2}
  Values = {v1,empty}
  EmptyValue = empty
  Null = Null
  Partial = Partial
  NoCall = NoCall
  Pending = Pending
  FaultSets <- Some
INVARIANTS
  TypeOK
  NoTornValue
PROPERTY
  ImplementsStore

SPECIFICATION Spec
CONSTANTS
  w1 = w1
  w2 = w2
  s1 = s1
  c1 = c1
  Nobody = Nobody
  Workers = {w1, w2}
  Streams = {s1}
  Contents = {c1}
  MaxCalls = 3
  Faults = TRUE
  StorableID = TRUE
SYMMETRY Symmetry
INVARIANT TypeOK
INVARIANT LockExclusion
PROPERTY ContractSpec
CHECK_DEADLOCK FALSE

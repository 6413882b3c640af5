SPECIFICATION Spec
CONSTANTS
  Block = {b0, b1, b2}
  Entry = b0
  Other = b1
  a = a
  p = p
  q = q
  d = d
  t0 = t0
  t1 = t1
  t2 = t2
  Value = {a, p, q}
  Programs <- MCPrograms
INVARIANTS
  TypeOK
  LivenessExact
  LiveAtStartOnlyByPhi
CHECK_DEADLOCK FALSE

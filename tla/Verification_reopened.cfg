CONSTANTS
  m1 = m1
  m2 = m2
  v1 = v1
  v2 = v2
  d1 = d1
  r1 = r1
  r2 = r2
  Members = {m1, m2}
  Referred = {m1, m2}
  Validators = {v1, v2}
  Documents = {d1}
  Requests = {r1, r2}
  Thresholds = {1, 2}
  None = None
  Overlaps <- OverlappingHandlers
SPECIFICATION Spec
SYMMETRY Symmetry
PROPERTIES
  FinalizedStays

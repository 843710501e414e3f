SPECIFICATION Spec
CONSTANTS
  w1 = w1  w2 = w2  m1 = m1  A = A  B = B
  names = names  r1 = r1  r2 = r2
  None = None
  Wards = {w1, w2}
  Members = {m1}
  Constituencies = {A, B}
  Bases = {names}
  Releases = {r1, r2}
  Edge <- TwoReleases
  MayOverlap = FALSE
  MaxReviews = 3
  MaxClock = 1
INVARIANTS TypeOK EncodingsAgree ApprovalIsLastDecision DecisionShown FiledWhereTrusted

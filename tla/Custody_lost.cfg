SPECIFICATION Spec
CONSTANTS
  d1 = d1  a1 = a1
  Documents = {d1}
  Assets = {a1}
  MaxAttempts = 3
  LastRelease = 1
INVARIANT DocumentKept
CHECK_DEADLOCK FALSE

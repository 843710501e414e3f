SPECIFICATION Spec
CONSTANTS
  u1 = u1  u2 = u2  q1 = q1  q2 = q2  w1 = w1
  Users = {u1, u2}
  NoUser = NoUser
  NumCalls = 1
  Requests = {q1, q2}
  Replays = {}
  Clients = {}
  NoEvent = NoEvent
  WORKER_MAX_ATTEMPTS = 1
  PageLimit = 1
  LastMillisecond = 1
  MaxPublications = 3
  MaxOutages = 0
SYMMETRY Symmetric
INVARIANTS TypeOK TablesAgree HeardIsTrue
PROPERTY LegalTransitions

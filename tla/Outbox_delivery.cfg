SPECIFICATION Spec
CONSTANTS
  call = call  alert = alert  p1 = p1  p2 = p2  w1 = w1  w2 = w2  k1 = k1
  Events = {call}
  Publishers = {p1}
  Replays = {w1, w2}
  Clients = {k1}
  NoEvent = NoEvent
  PointToPoint = {call}
  WORKER_MAX_ATTEMPTS = 3
  PageLimit = 1
  LastMillisecond = 2
  MaxPublications = 2
  MaxOutages = 1
INVARIANTS TypeOK PublishedWasSent
PROPERTY EventsDrain

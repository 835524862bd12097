SPECIFICATION FairSpec
CONSTANTS
  b1 = b1
  b2 = b2
  q1 = q1
  u1 = u1
  t1 = t1
  t2 = t2
  x1 = x1
  Buffers = {b1, b2}
  NoBuffer = NoBuffer
  Requests = {q1}
  Announced = 2
  MaxMemory = 3
  Lying = TRUE
  Urls = {u1}
  Tokens = {t1, t2}
  NoToken = NoToken
  Seekers = {x1}
CHECK_DEADLOCK FALSE
INVARIANT MapsAgree
INVARIANT OneDownload
INVARIANT NoMissedSignal
PROPERTY AnswerIsWhole
PROPERTY CollectsUnread
PROPERTY WaitsEnd

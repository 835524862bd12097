SPECIFICATION FairSpec
CONSTANTS
  h1 = h1
  h2 = h2
  Handlers = {h1, h2}
  MaxMade = 3
CHECK_DEADLOCK FALSE
INVARIANT ServersKnown
INVARIANT StoppedIsOff
INVARIANT ServicesAgree
PROPERTY ShutdownEnds

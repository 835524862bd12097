SPECIFICATION FairSpec
CONSTANTS
  c1 = c1
  c2 = c2
  r1 = r1
  Conns = {c1, c2}
  NoConn = NoConn
  Readers = {r1}
  MaxSid = 2
  Hap = {c1}
CHECK_DEADLOCK FALSE
INVARIANT OneOwner
INVARIANT PlayingStreams
INVARIANT StoppedIsSilent
INVARIANT NoEarlierPcm
PROPERTY SessionsKept
PROPERTY ConnectionsEnd

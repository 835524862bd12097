SPECIFICATION FairSpec
CONSTANTS
  Modulus = 8
  Window = 2
  Conceal = 1
  Retries = 1
  QueueMax = 3
  Delay = 4
  MaxPos = 7
CHECK_DEADLOCK FALSE
INVARIANT Bounded
INVARIANT QueueInOrder
INVARIANT FlushDiscards
PROPERTY WritesForward
PROPERTY BufferedAudioLeaves

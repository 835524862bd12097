SPECIFICATION FairSpec
CONSTANTS
  s1 = s1
  b1 = b1
  c1 = c1
  c2 = c2
  c3 = c3
  u1 = u1
  Soap = {s1}
  Background = {b1}
  Checks = {c1, c2, c3}
  Autos = {}
  Uris = {u1}
  TimedUris = {}
  NoTask = NoTask
  NoUri = NoUri
  NoGen = NoGen
  Generations = {0, 1}
  NeedsTranscode = FALSE
  SpeakerRaises = FALSE
  Commands = {"SetAVTransportURI", "Play", "Pause", "Previous"}
PROPERTY CommandsEnd

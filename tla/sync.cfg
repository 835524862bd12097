SPECIFICATION SyncSpec
CONSTANTS
  s1 = s1
  c1 = c1
  c2 = c2
  u1 = u1
  x1 = x1
  x2 = x2
  p1 = p1
  Poller = p1
  Resumers = {x1, x2}
  AutoResume = TRUE
  Soap = {s1}
  Background = {p1, x1, x2}
  Checks = {c1, c2}
  Autos = {}
  Uris = {u1}
  TimedUris = {}
  NoTask = NoTask
  NoUri = NoUri
  NoGen = NoGen
  Generations = {0, 1}
  NeedsTranscode = FALSE
  SpeakerRaises = FALSE
  Commands = {"SetAVTransportURI", "Play", "Pause"}
SYMMETRY Symmetry
INVARIANT ResumeIsKnown

SPECIFICATION Spec
CONSTANTS
  s1 = s1
  b1 = b1
  c1 = c1
  c2 = c2
  c3 = c3
  a1 = a1
  u1 = u1
  Soap = {s1}
  Background = {b1}
  Checks = {c1, c2, c3}
  Autos = {a1}
  Uris = {u1}
  TimedUris = {u1}
  NoTask = NoTask
  NoUri = NoUri
  NoGen = NoGen
  Generations = {0, 1, 2}
  NeedsTranscode = FALSE
  SpeakerRaises = TRUE
  Commands = {"SetAVTransportURI", "Play", "Pause", "Seek", "Next"}
SYMMETRY Symmetry
VIEW WithoutHistory
INVARIANT TransitioningHeld
INVARIANT PausedPositionFrozen
INVARIANT PlayingClockRuns

SPECIFICATION FairSpec
CONSTANTS
  s1 = s1
  c1 = c1
  c2 = c2
  c3 = c3
  a1 = a1
  a2 = a2
  u1 = u1
  u2 = u2
  Soap = {s1}
  Background = {}
  Checks = {c1, c2, c3}
  Autos = {a1, a2}
  Uris = {u1, u2}
  TimedUris = {u1}
  NoTask = NoTask
  NoUri = NoUri
  NoGen = NoGen
  Generations = {0, 1, 2, 3}
  NeedsTranscode = TRUE
  SpeakerRaises = TRUE
  Commands = {"SetAVTransportURI", "Play", "Pause", "Stop", "SetNextAVTransportURI", "ClearNextAVTransportURI"}
INVARIANT AutoNextIsKnown
INVARIANT OneMonitor
INVARIANT PlaySendsCurrentMedia
INVARIANT PlayingIsOnSpeaker
INVARIANT TrackEndIsWatched
PROPERTY TransitionEnds
PROPERTY CommandsRetireAutoNext

\* Two operations that log in, fail and are retried while the credentials are saved.
SPECIFICATION Spec
CONSTANTS
  o1 = o1
  o2 = o2
  Ops = {o1, o2}
  MaxSaves = 3
  Threshold = 6
  AutoRestart = TRUE
INVARIANT StatusIsHonest
PROPERTY ServicesNeverOlder

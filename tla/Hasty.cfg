SPECIFICATION Spec
CONSTANTS
  s1 = s1
  s2 = s2
  t1 = t1
  t2 = t2
  Nobody = Nobody
  Session = {s1, s2}
  Patient = {}
  Careful = {}
  Tid = {t1, t2}
  MaxFd = 6
  Commands = {"USER", "PASS", "PORT", "STOR", "EMPTY"}
  Faults = {"refused", "reset", "sigpipe"}
SYMMETRY Alike
CHECK_DEADLOCK FALSE
INVARIANTS TypeOK MaxFdIsLargest WatchedSlotsLive ConnectionsWatched ListenerOpen

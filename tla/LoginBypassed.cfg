SPECIFICATION Spec
CONSTANTS
  s1 = s1
  s2 = s2
  t1 = t1
  t2 = t2
  Nobody = Nobody
  Session = {s1, s2}
  Patient = {}
  Careful = {}
  Tid = {t1}
  MaxFd = 6
  Commands = {"USER", "PASS", "PORT", "STOR"}
  Faults = {}
CHECK_DEADLOCK FALSE
INVARIANT AvailableAfterLogin

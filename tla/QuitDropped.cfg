SPECIFICATION Spec
CONSTANTS
  s1 = s1
  s2 = s2
  t1 = t1
  t2 = t2
  Nobody = Nobody
  Session = {s1}
  Patient = {s1}
  Careful = {}
  Tid = {t1}
  MaxFd = 7
  Commands = {"USER", "PASS", "PASV", "STOR", "QUIT"}
  Faults = {}
CHECK_DEADLOCK FALSE
INVARIANT QuitHeard

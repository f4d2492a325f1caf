SPECIFICATION FairSpec
CONSTANTS
  s1 = s1
  s2 = s2
  t1 = t1
  t2 = t2
  Nobody = Nobody
  Session = {s1, s2}
  Patient = {s1, s2}
  Careful = {s1, s2}
  Tid = {t1, t2}
  MaxFd = 9
  Commands = {"USER", "PASS", "PASV", "STOR"}
  Faults = {}
CHECK_DEADLOCK FALSE
PROPERTIES AllAnswered MainReturns ThreadsFinish

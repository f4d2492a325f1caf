SPECIFICATION Spec
CONSTANTS
  s1 = s1
  s2 = s2
  t1 = t1
  t2 = t2
  Nobody = Nobody
  Session = {s1, s2}
  Patient = {s1, s2}
  Careful = {s1, s2}
  Tid = {t1, t2}
  MaxFd = 7
  Commands = {"USER", "PASS", "PASV", "RETR", "STOR", "LIST", "QUIT"}
  Faults = {"badarg", "nofile", "directory", "refused", "syscall", "reset", "sigpipe"}
SYMMETRY Alike
CHECK_DEADLOCK FALSE
INVARIANTS LoginFirst PassiveAddressValid WatchedAreConnections AcceptNeverWaits PipesWhole
PROPERTIES ServiceKept

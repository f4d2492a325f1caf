SPECIFICATION Spec
CONSTANTS
  s1 = s1
  s2 = s2
  t1 = t1
  t2 = t2
  Nobody = Nobody
  Session = {s1, s2}
  Patient = {s1, s2}
  Careful = {s1, s2}
  Tid = {t1, t2}
  MaxFd = 10
  Commands = {"USER", "PASS", "PORT", "PASV", "RETR", "STOR", "LIST", "QUIT"}
  Faults = {"directory", "sigpipe"}
SYMMETRY Alike
CHECK_DEADLOCK FALSE
INVARIANTS FdsAccounted RepliesBalanced StaysUp OwnDataConnection

SPECIFICATION Spec
CONSTANTS
  s1 = s1
  s2 = s2
  a = a
  b = b
  Slot = {s1, s2}
  Name = {a, b}
  Path <- Tree
  PortArg <- Ports
  MaxObjects = 2
  NoPath = NoPath
  NoPort = NoPort
SYMMETRY Alike
INVARIANTS TypeOK OwnState
PROPERTIES RenamesFound

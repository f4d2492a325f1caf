SPECIFICATION Spec
CONSTANTS
  Name = {"a", "b"}
  MaxSeg = 5
  MaxArg = 4
INVARIANTS TypeOK DirClean ResultRight ArgumentsResolved
PROPERTIES LoopShrinks

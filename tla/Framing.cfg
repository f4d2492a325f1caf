SPECIFICATION Spec
CONSTANTS
  careful = careful
  paired = paired
  hasty = hasty
  x = x
  CR = CR
  LF = LF
  Zero = Zero
  Nobody = Nobody
  Session = {careful, paired, hasty}
  Careful = {careful}
  Paired = {paired}
  Letter = {x}
  Loose = {x, Zero}
  BufSize = 4
  MaxLines = 2
  MaxBytes = 5
CHECK_DEADLOCK FALSE
INVARIANTS TypeOK LinesHeard OwnBytes ZeroInside

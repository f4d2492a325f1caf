SPECIFICATION Spec
CONSTANTS
  a = a
  b = b
  t1 = t1
  t2 = t2
  Nothing = Nothing
  File = {a, b}
  Kept = {a}
  Tid = {t1, t2}
  MaxUploads = 2
  MaxChunks = 3
  BufSize = 1
  ChunkBytes = 60
  IntRange = 256
SYMMETRY Alike
INVARIANTS TypeOK NothingMoves SizeAnnounced ColumnFits
PROPERTIES FilesWhole

SPECIFICATION Spec
CONSTANTS
  a = a
  b = b
  t1 = t1
  t2 = t2
  Nothing = Nothing
  File = {a}
  Kept = {a}
  Tid = {t1}
  MaxUploads = 1
  MaxChunks = 3
  BufSize = 1
  ChunkBytes = 60
  IntRange = 256
INVARIANT StoredWhenReported

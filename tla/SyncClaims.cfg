\* The code breaks each of these claims. TLC stops at the first violation:
\* take one line at a time in the place of the last uncommented one.
\* CommitsExactly needs SizeOf <- MCSameSizes: an edit that keeps a size.
SPECIFICATION FairSpec
CONSTANTS
  v1 = v1
  v2 = v2
  p1 = p1
  p2 = p2
  p3 = p3
  a = a
  b = b
  c = c
  d = d
  k1 = k1
  k2 = k2
  k3 = k3
  Versions = {v1, v2}
  NoVersion = NoVersion
  Paths = {p1, p2, p3}
  NoPath = NoPath
  Contents = {a, b, c, d}
  NoContent = NoContent
  Chunks = {k1, k2, k3}
  Files <- MCFiles
  SizeOf <- MCSizes
  ChunksOf <- MCChunksOf
  MaxSyncs = 2
  MaxCancels = 1
  MaxFaults = 0
  MaxCrashes = 1
CHECK_DEADLOCK FALSE
PROPERTY LeaksEnd
\* INVARIANT ReaperSparesActive
\* PROPERTY CancelKeepsChunks
\* PROPERTY ScrubsCurrent
\* PROPERTY CommitsExactly

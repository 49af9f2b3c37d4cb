SPECIFICATION FairSpec
CONSTANTS
  v1 = v1
  v2 = v2
  p1 = p1
  p2 = p2
  p3 = p3
  a = a
  b = b
  c = c
  d = d
  k1 = k1
  k2 = k2
  k3 = k3
  Versions = {v1, v2}
  NoVersion = NoVersion
  Paths = {p1, p2, p3}
  NoPath = NoPath
  Contents = {a, b, c, d}
  NoContent = NoContent
  Chunks = {k1, k2, k3}
  Files <- MCFiles
  SizeOf <- MCSizes
  ChunksOf <- MCChunksOf
  MaxSyncs = 2
  MaxCancels = 1
  MaxFaults = 1
  MaxCrashes = 1
INVARIANT TypeOK
INVARIANT StarvedOnlyByReaper
PROPERTY CommittedMeansInstalled
PROPERTY FolderSpec
PROPERTY LeaksEndUnlessAbandoned
CHECK_DEADLOCK FALSE

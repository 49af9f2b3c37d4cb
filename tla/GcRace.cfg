SPECIFICATION Spec
CONSTANTS
  v1 = v1
  v2 = v2
  s1 = s1
  s2 = s2
  c1 = c1
  c2 = c2
  Sites = {s1}
  NoSite = NoSite
  Versions = {v1, v2}
  Chunks = {c1, c2}
  ChunksOf <- MCChunksOf
  Catalog <- MCCatalog
  MaxFaults = 0
INVARIANTS
  VersionsComplete

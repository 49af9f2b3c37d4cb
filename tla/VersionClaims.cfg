\* The code breaks each of these claims. TLC stops at the first violation:
\* take one line at a time in the place of the last uncommented one.
SPECIFICATION Spec
CONSTANTS
  Versions = {v1, v2, v3}
  NoVersion = NoVersion
  Texts = {t1}
  NoText = NoText
  Requests = {r1, r2}
  Unchecked = Unchecked
  MaxWrites = 4
  MaxDeaths = 0
SYMMETRY Symmetry
CHECK_DEADLOCK FALSE
INVARIANT PreviewKeepsUp
\* INVARIANT RollbackTakesPrevious

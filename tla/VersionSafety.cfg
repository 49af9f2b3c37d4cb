SPECIFICATION Spec
CONSTANTS
  Versions = {v1, v2, v3}
  NoVersion = NoVersion
  Texts = {t1}
  NoText = NoText
  Requests = {r1, r2}
  Unchecked = Unchecked
  MaxWrites = 6
  MaxDeaths = 1
INVARIANT TypeOK
INVARIANT GapFree
INVARIANT HeadSummary
INVARIANT StaleOnlyWhenTorn
PROPERTY LogSpec
SYMMETRY Symmetry
CHECK_DEADLOCK FALSE

SPECIFICATION HistorySpec
CONSTANTS
  Keys = {k1, k2}
  None = None
  MaxAt = 2
  MaxSigned = 3
SYMMETRY KeySymmetry
PROPERTY NewerRevocationStands

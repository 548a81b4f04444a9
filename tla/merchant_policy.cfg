SPECIFICATION Spec
CONSTANTS
  c1 = c1
  c2 = c2
  w1 = w1
  w2 = w2
  Updates <- MCUpdates
  Clients = {c1, c2}
  Workers = {w1, w2}
  Amounts = {2500000}
  Configured = TRUE
SYMMETRY Permuted
INVARIANTS
  TypeOK
  LastSaveIsKept
  OneConflictEach

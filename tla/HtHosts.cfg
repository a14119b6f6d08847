CONSTANTS
  Macs = {m1, m2}
  Free = Free
  Size = 3
  MayFail = TRUE
SPECIFICATION Spec
INVARIANTS ViewIsReport NoneForgotten
PROPERTIES NoFalseDisconnect
SYMMETRY Interchangeable

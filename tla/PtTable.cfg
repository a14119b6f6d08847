CONSTANTS
  Threads = {machine}
  Internal = 1
  Initial = 2
  MaxInst = 3
  PsmNames = {0, 1}
  Renames = {2, 9}
SPECIFICATION Spec
INVARIANTS InternalKept EntryReachesRow RowsKeepValues
PROPERTIES StoreKept
